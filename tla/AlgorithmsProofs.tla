-------------------------- MODULE AlgorithmsProofs --------------------------
(***************************************************************************)
(* The pure functions for every width, base, number of digits and list:    *)
(* the clamp and the monotonicity of next_difficulty, the long division of *)
(* target_for_difficulty, and the injectivity of merkle_root on lists      *)
(* without repetitions.                                                    *)
(***************************************************************************)
EXTENDS Algorithms, SetInduction

-----------------------------------------------------------------------------
(* Division.                                                               *)

LEMMA DivFacts ==
  ASSUME NEW a \in Nat, NEW c \in Nat \ {0}
  PROVE  /\ a \div c \in Nat
         /\ (a \div c) * c <= a
         /\ a < (a \div c + 1) * c
         /\ a = (a \div c) * c + (a % c)
         /\ a % c \in 0..(c - 1)
OBVIOUS

\* A quotient is the only number that fits.
LEMMA DivUnique ==
  ASSUME NEW a \in Nat, NEW c \in Nat \ {0}, NEW q \in Nat, NEW r \in 0..(c - 1),
         a = q * c + r
  PROVE  a \div c = q
<1> DEFINE p == a \div c
<1>1. p \in Nat /\ p * c <= a /\ a < (p + 1) * c
  BY DivFacts
<1>2. q * c <= a /\ a < (q + 1) * c
  OBVIOUS
<1> HIDE DEF p
<1>3. \A x, y \in Nat : x < y => (x + 1) * c <= y * c
  <2> SUFFICES ASSUME NEW x \in Nat, NEW y \in Nat, x < y PROVE (x + 1) * c <= y * c
    OBVIOUS
  <2>1. y - (x + 1) \in Nat /\ y = (x + 1) + (y - (x + 1))
    OBVIOUS
  <2>2. \A u, v \in Nat : u * c <= (u + v) * c
    OBVIOUS
  <2> QED BY <2>1, <2>2
<1>4. ~ (p < q) /\ ~ (q < p)
  BY <1>1, <1>2, <1>3
<1>5. p = q
  BY <1>1, <1>4
<1> QED BY <1>5 DEF p

\* Dividing by more gives less.
LEMMA DivAntitone ==
  ASSUME NEW a \in Nat, NEW c \in Nat \ {0}, NEW d \in Nat \ {0}, c <= d
  PROVE  a \div d <= a \div c
<1> DEFINE p == a \div d
           q == a \div c
<1>1. p \in Nat /\ p * d <= a /\ q \in Nat /\ a < (q + 1) * c
  BY DivFacts
<1> HIDE DEF p, q
<1>2. p * c <= p * d
  <2>1. d - c \in Nat /\ d = c + (d - c)
    OBVIOUS
  <2>2. \A v \in Nat : p * c <= p * (c + v)
    BY <1>1
  <2> QED BY <2>1, <2>2
<1>3. ASSUME q < p PROVE FALSE
  <2>1. p - (q + 1) \in Nat /\ p = (q + 1) + (p - (q + 1))
    BY <1>1, <1>3
  <2>2. \A v \in Nat : (q + 1) * c <= ((q + 1) + v) * c
    BY <1>1
  <2>3. (q + 1) * c <= p * c
    BY <2>1, <2>2
  <2> QED BY <1>1, <1>2, <2>3
<1>4. p <= q
  BY <1>1, <1>3
<1> QED BY <1>4 DEF p, q

-----------------------------------------------------------------------------
(* Retargeting: a window of one block, any number in the window being a    *)
(* factor of the target time.                                              *)

\* While four times the target is a u64 the clamp is between a quarter of it
\* and four times it, and leaves what is between as it is.
LEMMA ClampFacts ==
  ASSUME NEW actual \in Nat, NEW target \in Nat \ {0}, 4 * target <= MaxU64
  PROVE  /\ ClampedTimespan(actual, target) \in Nat \ {0}
         /\ target \div 4 <= ClampedTimespan(actual, target)
         /\ ClampedTimespan(actual, target) <= 4 * target
         /\ actual = target => ClampedTimespan(actual, target) = target
         /\ \A t \in Nat : t <= actual
              => ClampedTimespan(t, target) <= ClampedTimespan(actual, target)
<1>1. MaxU64 \in Nat
  BY MaxU64Assumption
<1>2. Wrap(target * 4) = 4 * target
  BY <1>1 DEF Wrap
<1>3. target \div 4 \in Nat /\ target \div 4 <= target
  OBVIOUS
<1>4. \A t \in Nat : ClampedTimespan(t, target)
                       = AtLeast(AtMost(AtLeast(t, target \div 4), 4 * target), 1)
  BY <1>2 DEF ClampedTimespan
<1> QED BY <1>3, <1>4 DEF AtLeast, AtMost

LEMMA SingleTarget ==
  ASSUME NEW block_time \in Nat \ {0}, 4 * block_time <= MaxU64
  PROVE  TargetTimespan(block_time, 1) = block_time
BY MaxU64Assumption DEF TargetTimespan, SatMul, AtMost, AtLeast

LEMMA RetargetTypes ==
  ASSUME NEW r \in RetargetInputs, r.block_time > 0
  PROVE  r.prev \in Nat \ {0} /\ r.block_time \in Nat \ {0} /\ r.actual \in Nat
<1>1. r.prev \in Difficulties /\ r.block_time \in Times /\ r.actual \in Times
  BY DEF RetargetInputs
<1>2. r.prev \in U64 \ {0} /\ r.block_time \in U64 /\ r.actual \in U64
  BY <1>1, InputAssumption
<1>3. \A x \in U64 : x \in Nat
  BY MaxU64Assumption DEF U64
<1>4. r.prev \in Nat /\ r.prev # 0 /\ r.block_time \in Nat /\ r.actual \in Nat
  BY <1>2, <1>3
<1>5. \A x \in Nat : x > 0 => x # 0
  OBVIOUS
<1> QED BY <1>4, <1>5

\* The factor is between a quarter and four.
THEOREM RetargetClampedTheorem == AlgorithmsSpec => []RetargetClamped
<1>1. AlgorithmsInit => RetargetClamped
  <2> SUFFICES ASSUME input \in RetargetInputs, input.block_time > 0,
                      input.block_time % 4 = 0,
                      4 * input.block_time <= MaxU64, 4 * input.prev <= MaxU64
               PROVE  /\ Retargeted(input) <= 4 * input.prev
                      /\ Retargeted(input) >= input.prev \div 4
    BY DEF AlgorithmsInit, RetargetClamped, RetargetInputs, TargetInputs, MerkleInputs
  <2> DEFINE prev == input.prev
             target == input.block_time
             c == ClampedTimespan(input.actual, target)
  <2>1. prev \in Nat \ {0} /\ target \in Nat \ {0} /\ input.actual \in Nat
    BY RetargetTypes
  <2>2. /\ c \in Nat \ {0} /\ target \div 4 <= c /\ c <= 4 * target
    BY <2>1, ClampFacts
  <2>3. Retargeted(input) = AtLeast(Wrap((prev * target) \div c), 1)
    BY <2>1, SingleTarget DEF Retargeted, next_difficulty
  <2>4. 4 * prev <= MaxU64 /\ target % 4 = 0
    OBVIOUS
  <2> HIDE DEF prev, target, c
  <2> DEFINE q == (prev * target) \div c
             e == target \div 4
  <2>5. e \in Nat \ {0} /\ target = 4 * e
    BY <2>1, <2>4
  <2>6. prev * target \in Nat
    BY <2>1
  <2>7. q \in Nat /\ q * c <= prev * target /\ prev * target < (q + 1) * c
    BY <2>2, <2>6, DivFacts
  <2>8. (prev * target) \div e = 4 * prev
    <3>1. prev * target = (4 * prev) * e + 0
      BY <2>1, <2>5
    <3>2. 0 \in 0..(e - 1) /\ 4 * prev \in Nat
      BY <2>1, <2>5
    <3> HIDE DEF e
    <3> QED BY <2>5, <2>6, <3>1, <3>2, DivUnique
  <2>9. q <= 4 * prev
    <3>1. e <= c
      BY <2>2
    <3> HIDE DEF e
    <3>2. (prev * target) \div c <= (prev * target) \div e
      BY <2>2, <2>5, <2>6, <3>1, DivAntitone
    <3> QED BY <2>8, <3>2
  <2>10. prev \div 4 <= q
    <3> DEFINE d == prev \div 4
    <3>1. d \in Nat /\ 4 * d <= prev
      BY <2>1
    <3>2. (prev * target) \div (4 * target) <= q
      <4>1. 4 * target \in Nat \ {0}
        BY <2>1
      <4> QED BY <2>2, <2>6, <4>1, DivAntitone
    <3>3. (prev * target) \div (4 * target) = d
      <4>1. prev - 4 * d \in 0..3 /\ prev = 4 * d + (prev - 4 * d)
        BY <2>1
      <4>2. PICK r \in 0..3 : prev = 4 * d + r
        BY <4>1
      <4> HIDE DEF d
      <4>3. prev * target = d * (4 * target) + r * target
        BY <2>1, <3>1, <4>2
      <4>4. r * target \in 0..((4 * target) - 1)
        BY <2>1
      <4>5. 4 * target \in Nat \ {0}
        BY <2>1
      <4> QED BY <2>6, <3>1, <4>3, <4>4, <4>5, DivUnique
    <3> QED BY <3>2, <3>3
  <2> HIDE DEF q
  <2>11. Wrap(q) = q
    BY <2>1, <2>4, <2>7, <2>9, MaxU64Assumption DEF Wrap
  <2>12. Retargeted(input) = AtLeast(q, 1)
    BY <2>3, <2>11 DEF q
  <2>13. Retargeted(input) <= 4 * prev /\ Retargeted(input) >= prev \div 4
    BY <2>1, <2>7, <2>9, <2>10, <2>12 DEF AtLeast
  <2> QED BY <2>13 DEF prev
<1>2. RetargetClamped /\ [AlgorithmsNext]_input => RetargetClamped'
  BY DEF AlgorithmsNext, RetargetClamped, Retargeted
<1> QED BY <1>1, <1>2, PTL DEF AlgorithmsSpec

\* Slower blocks never give more, and blocks on time leave the difficulty alone.
THEOREM RetargetMonotoneTheorem == AlgorithmsSpec => []RetargetMonotone
<1>1. AlgorithmsInit => RetargetMonotone
  <2> SUFFICES ASSUME input \in RetargetInputs, input.block_time > 0,
                      4 * input.block_time <= MaxU64,
                      input.prev * input.block_time <= MaxU64
               PROVE  /\ \A t \in Times : t <= input.actual
                           => Retargeted(input) <= Retargeted([input EXCEPT !.actual = t])
                      /\ input.actual = input.block_time => Retargeted(input) = input.prev
    BY DEF AlgorithmsInit, RetargetMonotone, RetargetInputs, TargetInputs, MerkleInputs
  <2> DEFINE prev == input.prev
             target == input.block_time
             Clamped(t) == ClampedTimespan(t, target)
             Ratio(t) == (prev * target) \div Clamped(t)
  <2>1. prev \in Nat \ {0} /\ target \in Nat \ {0} /\ input.actual \in Nat
    BY RetargetTypes
  <2>2. \A t \in Times : t \in Nat
    BY InputAssumption, MaxU64Assumption DEF U64
  <2>3. 4 * target <= MaxU64 /\ prev * target <= MaxU64
    OBVIOUS
  <2>4. \A t \in Nat : /\ Clamped(t) \in Nat \ {0}
                       /\ t = target => Clamped(t) = target
                       /\ \A u \in Nat : u <= t => Clamped(u) <= Clamped(t)
    BY <2>1, <2>3, ClampFacts
  <2>5. /\ Retargeted(input) = AtLeast(Wrap(Ratio(input.actual)), 1)
        /\ \A t \in Times :
             Retargeted([input EXCEPT !.actual = t]) = AtLeast(Wrap(Ratio(t)), 1)
    <3>1. TargetTimespan(target, 1) = target
      BY <2>1, <2>3, SingleTarget
    <3>2. \A t \in Times : LET r == [input EXCEPT !.actual = t]
                           IN  r.prev = prev /\ r.actual = t /\ r.block_time = target
      BY DEF RetargetInputs
    <3> QED BY <3>1, <3>2 DEF Retargeted, next_difficulty
  <2> HIDE DEF prev, target, Clamped
  <2>6. prev * target \in Nat /\ MaxU64 \in Nat
    BY <2>1, MaxU64Assumption
  <2>7. \A t \in Nat : Ratio(t) \in Nat /\ Ratio(t) <= prev * target
    <3> TAKE t \in Nat
    <3> DEFINE c == Clamped(t)
               q == Ratio(t)
    <3>1. c \in Nat \ {0}
      BY <2>4
    <3> HIDE DEF c
    <3>2. q \in Nat /\ q * c <= prev * target
      BY <2>6, <3>1, DivFacts DEF c
    <3> HIDE DEF q
    <3>3. q <= q * c
      BY <3>1, <3>2
    <3>4. q <= prev * target
      BY <2>6, <3>1, <3>2, <3>3
    <3> QED BY <3>2, <3>4 DEF q
  <2>8. \A t, u \in Nat : u <= t => Ratio(t) <= Ratio(u)
    <3> SUFFICES ASSUME NEW t \in Nat, NEW u \in Nat, u <= t PROVE Ratio(t) <= Ratio(u)
      OBVIOUS
    <3>1. Clamped(t) \in Nat \ {0} /\ Clamped(u) \in Nat \ {0} /\ Clamped(u) <= Clamped(t)
      BY <2>4
    <3> QED BY <2>6, <3>1, DivAntitone
  <2>9. input.actual = target => Ratio(input.actual) = prev
    <3>1. prev * target = prev * target + 0 /\ 0 \in 0..(target - 1)
      BY <2>1
    <3>2. (prev * target) \div target = prev
      BY <2>1, <2>6, <3>1, DivUnique
    <3>3. input.actual = target => Clamped(input.actual) = target
      BY <2>1, <2>4
    <3> QED BY <3>2, <3>3
  <2> HIDE DEF Ratio
  <2>10. \A t \in Nat : Wrap(Ratio(t)) = Ratio(t)
    <3> TAKE t \in Nat
    <3>1. Ratio(t) \in Nat /\ Ratio(t) <= MaxU64
      BY <2>3, <2>6, <2>7
    <3> QED BY <2>6, <3>1 DEF Wrap
  <2>11. \A t \in Times : t <= input.actual
           => Retargeted(input) <= Retargeted([input EXCEPT !.actual = t])
    <3> SUFFICES ASSUME NEW t \in Times, t <= input.actual
                 PROVE  AtLeast(Wrap(Ratio(input.actual)), 1) <= AtLeast(Wrap(Ratio(t)), 1)
      BY <2>5
    <3>1. t \in Nat
      BY <2>2
    <3>2. Ratio(input.actual) <= Ratio(t) /\ Ratio(t) \in Nat /\ Ratio(input.actual) \in Nat
      BY <2>1, <2>7, <2>8, <3>1
    <3>3. Wrap(Ratio(input.actual)) = Ratio(input.actual) /\ Wrap(Ratio(t)) = Ratio(t)
      BY <2>1, <2>10, <3>1
    <3> QED BY <3>2, <3>3 DEF AtLeast
  <2>12. input.actual = target => Retargeted(input) = prev
    BY <2>1, <2>5, <2>9, <2>10 DEF AtLeast
  <2> QED BY <2>11, <2>12 DEF prev, target
<1>2. RetargetMonotone /\ [AlgorithmsNext]_input => RetargetMonotone'
  BY DEF AlgorithmsNext, RetargetMonotone, Retargeted
<1> QED BY <1>1, <1>2, PTL DEF AlgorithmsSpec

-----------------------------------------------------------------------------
(* Long division.                                                          *)

\* Big-endian numbers.
Number == [1..Digits -> 0..(Base - 1)]

\* The remainders divide_be_by_u64 carries from digit to digit, and the value
\* of the first digits.
IsCarry(carry, num, divisor) ==
  /\ carry[0] = 0
  /\ \A i \in 1..Digits : carry[i] = (carry[i-1] * Base + num[i]) % divisor
  /\ divide_be_by_u64(num, divisor)
       = [i \in 1..Digits |-> ((carry[i-1] * Base + num[i]) \div divisor) % Base]

IsPartial(sum, num) ==
  /\ sum[0] = 0
  /\ \A i \in 1..Digits : sum[i] = sum[i-1] * Base + num[i]
  /\ Value(num) = sum[Digits]

LEMMA NumberDigits ==
  /\ Digits \in Nat /\ Base \in Nat \ {0}
  /\ \A num \in Number : \A i \in 1..Digits : num[i] \in Nat /\ num[i] < Base
BY DigitsAssumption DEF Number

\* The recursive functions exist, and where they take their values.
LEMMA CarryExists ==
  ASSUME NEW num \in Number, NEW divisor \in Nat \ {0}
  PROVE  \E carry : /\ IsCarry(carry, num, divisor)
                    /\ \A i \in 0..Digits : carry[i] \in 0..(divisor - 1)
<1> DEFINE n == Digits
           R == 0..(divisor - 1)
           Body(f) == [i \in 0..n |-> IF i = 0 THEN 0 ELSE (f[i-1] * Base + num[i]) % divisor]
           carry == CHOOSE f : f = Body(f)
           G == [i \in 1..n |-> [r \in R |-> (r * Base + num[i]) % divisor]]
<1>1. n \in Nat /\ 0 \in R
  BY NumberDigits
<1>2. StepsStayIn(G, n, R)
  <2> SUFFICES ASSUME NEW i \in 1..n, NEW r \in R PROVE G[i][r] \in R
    BY DEF StepsStayIn
  <2>1. r * Base + num[i] \in Nat
    BY NumberDigits
  <2>2. G[i][r] = (r * Base + num[i]) % divisor
    OBVIOUS
  <2> QED BY <2>1, <2>2, DivFacts
<1>3. PICK f : IsStepwise(f, n, 0, G) /\ StaysIn(f, n, R)
  <2> HIDE DEF n, R, G
  <2> QED BY <1>1, <1>2, StepwiseFunction, Zenon
<1>4. \A i \in 0..n : f[i] \in R
  BY <1>3 DEF StaysIn
<1>5. f = Body(f)
  <2>1. \A i \in 1..n : f[i-1] \in R
    BY <1>1, <1>4
  <2>2. \A i \in 1..n : G[i][f[i-1]] = (f[i-1] * Base + num[i]) % divisor
    BY <2>1
  <2> HIDE DEF G
  <2> QED BY <1>1, <1>3, <2>2 DEF IsStepwise
<1>6. carry = Body(carry)
  <2> HIDE DEF Body
  <2> QED BY <1>5, Zenon
<1>7. divide_be_by_u64(num, divisor)
        = [i \in 1..n |-> ((carry[i-1] * Base + num[i]) \div divisor) % Base]
  BY DEF divide_be_by_u64
<1> HIDE DEF carry
<1>8. /\ carry[0] = 0
      /\ \A i \in 1..n : carry[i] = (carry[i-1] * Base + num[i]) % divisor
  BY <1>1, <1>6
<1>9. \A i \in 1..n : carry[i-1] \in R => carry[i] \in R
  <2> SUFFICES ASSUME NEW i \in 1..n, carry[i-1] \in R PROVE carry[i] \in R
    OBVIOUS
  <2>1. carry[i-1] * Base + num[i] \in Nat
    BY NumberDigits
  <2> QED BY <1>8, <2>1, DivFacts
<1>10. StaysIn(carry, n, R)
  <2> HIDE DEF n, R
  <2>1. carry[0] \in R
    BY <1>1, <1>8
  <2> QED BY <1>1, <1>9, <2>1, StepwiseType, Zenon
<1>11. \A i \in 0..n : carry[i] \in R
  BY <1>10 DEF StaysIn
<1> QED BY <1>7, <1>8, <1>11 DEF IsCarry

LEMMA PartialExists ==
  ASSUME NEW num \in Number
  PROVE  \E sum : IsPartial(sum, num) /\ \A i \in 0..Digits : sum[i] \in Nat
<1> DEFINE n == Digits
           Body(f) == [i \in 0..n |-> IF i = 0 THEN 0 ELSE f[i-1] * Base + num[i]]
           sum == CHOOSE f : f = Body(f)
           G == [i \in 1..n |-> [r \in Nat |-> r * Base + num[i]]]
<1>1. n \in Nat /\ 0 \in Nat
  BY NumberDigits
<1>2. StepsStayIn(G, n, Nat)
  BY NumberDigits DEF StepsStayIn
<1>3. PICK f : IsStepwise(f, n, 0, G) /\ StaysIn(f, n, Nat)
  <2> HIDE DEF n, G
  <2> QED BY <1>1, <1>2, StepwiseFunction, Zenon
<1>4. \A i \in 0..n : f[i] \in Nat
  BY <1>3 DEF StaysIn
<1>5. f = Body(f)
  <2>1. \A i \in 1..n : f[i-1] \in Nat
    BY <1>1, <1>4
  <2>2. \A i \in 1..n : G[i][f[i-1]] = f[i-1] * Base + num[i]
    BY <2>1
  <2> HIDE DEF G
  <2> QED BY <1>1, <1>3, <2>2 DEF IsStepwise
<1>6. sum = Body(sum)
  <2> HIDE DEF Body
  <2> QED BY <1>5, Zenon
<1>7. Value(num) = sum[n]
  BY DEF Value
<1> HIDE DEF sum
<1>8. /\ sum[0] = 0
      /\ \A i \in 1..n : sum[i] = sum[i-1] * Base + num[i]
  BY <1>1, <1>6
<1>9. StaysIn(sum, n, Nat)
  <2>1. \A i \in 1..n : sum[i-1] \in Nat => sum[i] \in Nat
    <3> SUFFICES ASSUME NEW i \in 1..n, sum[i-1] \in Nat PROVE sum[i] \in Nat
      OBVIOUS
    <3>1. Base \in Nat /\ num[i] \in Nat
      BY NumberDigits
    <3>2. sum[i-1] * Base + num[i] \in Nat
      BY <3>1
    <3> QED BY <1>8, <3>2
  <2> HIDE DEF n
  <2> QED BY <1>1, <1>8, <2>1, StepwiseType, Zenon
<1>10. \A i \in 0..n : sum[i] \in Nat
  BY <1>9 DEF StaysIn
<1> QED BY <1>7, <1>8, <1>10 DEF IsPartial

\* A remainder and the next digit yield one digit again: none is cut off by
\* the cast to u8.
LEMMA QuotientDigit ==
  ASSUME NEW num \in Number, NEW divisor \in Nat \ {0}, NEW r \in 0..(divisor - 1),
         NEW i \in 1..Digits
  PROVE  (r * Base + num[i]) \div divisor \in 0..(Base - 1)
<1> DEFINE x == r * Base + num[i]
           q == x \div divisor
<1>1. Base \in Nat \ {0} /\ num[i] \in Nat /\ num[i] < Base
  BY NumberDigits
<1>2. x \in Nat
  BY <1>1
<1>3. x < divisor * Base
  <2>1. x < (r + 1) * Base
    BY <1>1
  <2>2. divisor - (r + 1) \in Nat /\ divisor = (r + 1) + (divisor - (r + 1))
    OBVIOUS
  <2>3. \A v \in Nat : (r + 1) * Base <= ((r + 1) + v) * Base
    BY <1>1
  <2>4. (r + 1) * Base <= divisor * Base
    BY <2>2, <2>3
  <2> HIDE DEF x
  <2> QED BY <1>1, <1>2, <2>1, <2>4
<1> HIDE DEF x
<1>4. q \in Nat /\ q * divisor <= x
  BY <1>2, DivFacts
<1> HIDE DEF q
<1>5. ASSUME Base <= q PROVE FALSE
  <2>1. q - Base \in Nat /\ q = Base + (q - Base)
    BY <1>1, <1>4, <1>5
  <2>2. \A v \in Nat : Base * divisor <= (Base + v) * divisor
    BY <1>1
  <2>3. Base * divisor <= q * divisor
    BY <2>1, <2>2
  <2>4. Base * divisor = divisor * Base
    BY <1>1
  <2> QED BY <1>1, <1>2, <1>3, <1>4, <2>3, <2>4
<1>6. q \in 0..(Base - 1)
  BY <1>1, <1>4, <1>5
<1> QED BY <1>6 DEF q, x

\* The quotient's digits and the remainder carried on make up the number, digit
\* by digit.
LEMMA LongDivision ==
  ASSUME NEW num \in Number, NEW divisor \in Nat \ {0}
  PROVE  /\ divide_be_by_u64(num, divisor) \in Number
         /\ Value(divide_be_by_u64(num, divisor)) = Value(num) \div divisor
<1> DEFINE quo == divide_be_by_u64(num, divisor)
<1>1. PICK carry : /\ IsCarry(carry, num, divisor)
                   /\ \A i \in 0..Digits : carry[i] \in 0..(divisor - 1)
  BY CarryExists
<1>2. PICK sum : IsPartial(sum, num) /\ \A i \in 0..Digits : sum[i] \in Nat
  BY PartialExists
<1>3. \A i \in 1..Digits : carry[i-1] \in 0..(divisor - 1)
  <2> TAKE i \in 1..Digits
  <2>1. i - 1 \in 0..Digits
    BY NumberDigits
  <2> QED BY <1>1, <2>1
<1>4. quo = [i \in 1..Digits |-> (carry[i-1] * Base + num[i]) \div divisor]
  <2>1. \A i \in 1..Digits : ((carry[i-1] * Base + num[i]) \div divisor) % Base
                               = (carry[i-1] * Base + num[i]) \div divisor
    <3> TAKE i \in 1..Digits
    <3>1. (carry[i-1] * Base + num[i]) \div divisor \in 0..(Base - 1)
      BY <1>3, QuotientDigit
    <3>2. \A x \in 0..(Base - 1) : x % Base = x
      BY NumberDigits
    <3> QED BY <3>1, <3>2
  <2> QED BY <1>1, <2>1 DEF IsCarry
<1>5. quo \in Number
  <2>1. \A i \in 1..Digits : (carry[i-1] * Base + num[i]) \div divisor \in 0..(Base - 1)
    BY <1>3, QuotientDigit
  <2> HIDE DEF quo
  <2> QED BY <1>4, <2>1 DEF Number
<1> HIDE DEF quo
<1>6. PICK part : IsPartial(part, quo) /\ \A i \in 0..Digits : part[i] \in Nat
  BY <1>5, PartialExists
<1> DEFINE T == {i \in 0..Digits : sum[i] = part[i] * divisor + carry[i]}
<1>7. 0 \in T
  BY <1>1, <1>2, <1>6, NumberDigits DEF IsCarry, IsPartial
<1>8. \A i \in 1..Digits : i - 1 \in T => i \in T
  <2> SUFFICES ASSUME NEW i \in 1..Digits,
                      sum[i-1] = part[i-1] * divisor + carry[i-1]
               PROVE  sum[i] = part[i] * divisor + carry[i]
    OBVIOUS
  <2> DEFINE x == carry[i-1] * Base + num[i]
             q == x \div divisor
             r == x % divisor
  <2>1. /\ Base \in Nat /\ num[i] \in Nat /\ carry[i-1] \in Nat /\ i - 1 \in 0..Digits
    BY <1>3, NumberDigits
  <2>2. x \in Nat
    BY <2>1
  <2>3. q \in Nat /\ r \in Nat /\ x = q * divisor + r
    <3> HIDE DEF x
    <3>1. q \in Nat /\ x = q * divisor + r /\ r \in 0..(divisor - 1)
      BY <2>2, DivFacts, Zenon
    <3> HIDE DEF q, r
    <3> QED BY <3>1
  <2>4. /\ sum[i] = sum[i-1] * Base + num[i]
        /\ part[i] = part[i-1] * Base + q
        /\ carry[i] = r
    BY <1>1, <1>2, <1>4, <1>6 DEF IsCarry, IsPartial
  <2>5. part[i-1] \in Nat
    BY <1>6, <2>1
  <2> HIDE DEF q, r
  <2>6. (part[i-1] * divisor + carry[i-1]) * Base + num[i]
          = (part[i-1] * Base + q) * divisor + r
    <3>1. carry[i-1] * Base + num[i] = q * divisor + r /\ divisor \in Nat
      BY <2>3
    <3>2. (part[i-1] * divisor + carry[i-1]) * Base + num[i]
            = (part[i-1] * Base) * divisor + (carry[i-1] * Base + num[i])
      BY ONLY <2>1, <2>5, <3>1
    <3>3. (part[i-1] * Base + q) * divisor + r
            = (part[i-1] * Base) * divisor + (q * divisor + r)
      BY ONLY <2>1, <2>3, <2>5, <3>1
    <3> QED BY <3>1, <3>2, <3>3, Zenon
  <2> QED BY <2>4, <2>6
<1>9. sum[Digits] = part[Digits] * divisor + carry[Digits]
  <2> HIDE DEF T
  <2>1. 0..Digits \subseteq T
    BY <1>7, <1>8, NumberDigits, BoundedInduction, Zenon
  <2>2. Digits \in T
    BY <2>1, NumberDigits
  <2> QED BY <2>2 DEF T
<1>10. sum[Digits] \in Nat /\ part[Digits] \in Nat /\ carry[Digits] \in 0..(divisor - 1)
  BY <1>1, <1>2, <1>6, NumberDigits
<1>11. sum[Digits] \div divisor = part[Digits]
  BY <1>9, <1>10, DivUnique
<1>12. Value(num) = sum[Digits] /\ Value(quo) = part[Digits]
  BY <1>2, <1>6 DEF IsPartial
<1> QED BY <1>5, <1>11, <1>12 DEF quo

\* The target is the quotient of the whole number, in any base.
THEOREM TargetIsQuotientTheorem == AlgorithmsSpec => []TargetIsQuotient
<1>1. AlgorithmsInit => TargetIsQuotient
  <2> SUFFICES ASSUME input \in TargetInputs
               PROVE  Value(target_for_difficulty(input.difficulty))
                        = Value(MAX_TARGET) \div AtLeast(input.difficulty, 1)
    BY DEF AlgorithmsInit, TargetIsQuotient, RetargetInputs, TargetInputs, MerkleInputs
  <2>1. input.difficulty \in U64
    BY InputAssumption DEF TargetInputs
  <2>2. AtLeast(input.difficulty, 1) \in Nat \ {0}
    BY <2>1, MaxU64Assumption DEF U64, AtLeast
  <2>3. MAX_TARGET \in Number
    BY NumberDigits DEF MAX_TARGET, Number
  <2> QED BY <2>2, <2>3, LongDivision DEF target_for_difficulty
<1>2. TargetIsQuotient /\ [AlgorithmsNext]_input => TargetIsQuotient'
  BY DEF AlgorithmsNext, TargetIsQuotient
<1> QED BY <1>1, <1>2, PTL DEF AlgorithmsSpec

-----------------------------------------------------------------------------
(* Merkle roots.                                                           *)

\* A level of the tree over a list: blocks of one width that line up with the
\* list, and hold nothing but its elements.
Blocks(list, level, w) ==
  /\ Len(level) * w >= Len(list)
  /\ \A k \in 1..Len(level) :
       /\ level[k] \in Seq({list[i] : i \in 1..Len(list)})
       /\ Len(level[k]) = w
       /\ \A p \in 1..w : (k - 1) * w + p <= Len(list) => level[k][p] = list[(k - 1) * w + p]

\* Hashing in pairs doubles the width: an odd last block is doubled behind the
\* end of the list.
LEMMA NextLevelBlocks ==
  ASSUME NEW E, NEW list \in Seq(E), NEW F, NEW level \in Seq(Seq(F)), NEW w \in Nat \ {0},
         Blocks(list, level, w), Len(level) > 1
  PROVE  /\ NextLevel(level) \in Seq(Seq(F))
         /\ Len(NextLevel(level)) = (Len(level) + 1) \div 2
         /\ Blocks(list, NextLevel(level), 2 * w)
<1> DEFINE m == Len(level)
           n == Len(list)
           S == {list[i] : i \in 1..n}
           half == (m + 1) \div 2
           Second(k) == IF 2*k <= m THEN 2*k ELSE 2*k - 1
           next == NextLevel(level)
<1>1. m \in Nat /\ n \in Nat /\ m > 1
  BY LenProperties
<1>2. half \in Nat /\ 2 * half >= m /\ 2 * half <= m + 1
  BY <1>1
<1>3. next = [k \in 1..half |-> level[2*k - 1] \o level[Second(k)]]
  BY <1>1 DEF NextLevel
<1>4. \A k \in 1..half : 2*k - 1 \in 1..m /\ Second(k) \in 1..m
  BY <1>1, <1>2
<1>5. \A k \in 1..m : /\ level[k] \in Seq(F) /\ level[k] \in Seq(S) /\ Len(level[k]) = w
                      /\ \A p \in 1..w : (k - 1) * w + p <= n
                           => level[k][p] = list[(k - 1) * w + p]
  <2>1. \A k \in 1..m : level[k] \in Seq(F)
    BY <1>1, ElementOfSeq
  <2> QED BY <2>1 DEF Blocks
<1>6. m * w >= n
  BY DEF Blocks
<1> HIDE DEF m, n, S, half, next
<1>7. ASSUME NEW k \in 1..half
      PROVE  /\ next[k] \in Seq(F) /\ next[k] \in Seq(S)
             /\ Len(next[k]) = 2 * w
             /\ \A p \in 1..(2 * w) : (k - 1) * (2 * w) + p <= n
                  => next[k][p] = list[(k - 1) * (2 * w) + p]
  <2> DEFINE a == level[2*k - 1]
             b == level[Second(k)]
  <2>1. /\ a \in Seq(F) /\ a \in Seq(S) /\ Len(a) = w
        /\ b \in Seq(F) /\ b \in Seq(S) /\ Len(b) = w
    BY <1>4, <1>5
  <2>2. next[k] = a \o b
    BY <1>3
  <2>3. /\ next[k] \in Seq(F) /\ next[k] \in Seq(S)
        /\ Len(next[k]) = 2 * w
        /\ \A p \in 1..(2 * w) : next[k][p] = IF p <= w THEN a[p] ELSE b[p - w]
    <3> HIDE DEF a, b
    <3>1. \A x, y \in Seq(F) : x \o y \in Seq(F) /\ Len(x \o y) = Len(x) + Len(y)
      BY ONLY ConcatProperties
    <3>2. \A x, y \in Seq(S) : /\ x \o y \in Seq(S)
                             /\ \A p \in 1..(Len(x) + Len(y)) :
                                  (x \o y)[p] = IF p <= Len(x) THEN x[p] ELSE y[p - Len(x)]
      BY ONLY ConcatProperties
    <3>3. w + w = 2 * w
      OBVIOUS
    <3>4. next[k] \in Seq(F) /\ Len(next[k]) = 2 * w
      BY ONLY <2>1, <2>2, <3>1, <3>3
    <3>5. /\ next[k] \in Seq(S)
          /\ \A p \in 1..(w + w) : next[k][p] = IF p <= w THEN a[p] ELSE b[p - w]
      BY ONLY <2>1, <2>2, <3>2
    <3> QED BY ONLY <3>3, <3>4, <3>5
  <2>4. ASSUME NEW p \in 1..(2 * w), (k - 1) * (2 * w) + p <= n
        PROVE  next[k][p] = list[(k - 1) * (2 * w) + p]
    <3>1. CASE p <= w
      <4>1. ((2*k - 1) - 1) * w + p = (k - 1) * (2 * w) + p
        OBVIOUS
      <4>2. p \in 1..w
        BY <3>1
      <4>3. a[p] = list[(k - 1) * (2 * w) + p]
        BY <1>4, <1>5, <2>4, <4>1, <4>2
      <4> QED BY <2>3, <3>1, <4>3
    <3>2. CASE w < p
      <4>1. p - w \in 1..w /\ ~ (p <= w)
        BY <3>2
      <4>2. (2*k - 1) * w + (p - w) = (k - 1) * (2 * w) + p
        OBVIOUS
      <4>3. 2*k <= m
        <5> SUFFICES ASSUME m <= 2*k - 1 PROVE FALSE
          BY <1>1
        <5>1. (2*k - 1) - m \in Nat /\ 2*k - 1 = m + ((2*k - 1) - m)
          BY <1>1
        <5>2. \A v \in Nat : m * w <= (m + v) * w
          BY <1>1
        <5>3. m * w <= (2*k - 1) * w
          BY <5>1, <5>2
        <5>4. (2*k - 1) * w < (2*k - 1) * w + (p - w)
          BY <4>1
        <5>5. m * w \in Nat /\ (2*k - 1) * w \in Int /\ (2*k - 1) * w + (p - w) \in Int
          BY <1>1
        <5>6. n <= m * w /\ (2*k - 1) * w + (p - w) <= n
          BY <1>1, <1>6, <2>4, <4>2, <5>5
        <5> DEFINE mw == m * w
                   kw == (2*k - 1) * w
        <5> HIDE DEF mw, kw
        <5>7. mw \in Nat /\ kw \in Int /\ mw <= kw /\ n <= mw
          BY ONLY <5>3, <5>5, <5>6 DEF mw, kw
        <5>8. p - w \in 1..w /\ kw + (p - w) <= n
          BY ONLY <4>1, <5>6 DEF kw
        <5> QED BY <1>1, <5>7, <5>8
      <4>4. Second(k) = 2*k /\ 2*k \in 1..m /\ 2*k - 1 = (2*k) - 1
        BY <1>4, <4>3
      <4>5. b[p - w] = list[(k - 1) * (2 * w) + p]
        BY <1>5, <2>4, <4>1, <4>2, <4>4
      <4> QED BY <2>3, <4>1, <4>5
    <3> QED BY <3>1, <3>2
  <2> QED BY <2>3, <2>4
<1>8. Len(next) = half /\ next \in Seq(Seq(F))
  <2>1. \A k \in 1..half : level[2*k - 1] \o level[Second(k)] \in Seq(F)
    BY <1>3, <1>7
  <2> HIDE DEF Second
  <2>2. [k \in 1..half |-> level[2*k - 1] \o level[Second(k)]] \in Seq(Seq(F))
    BY ONLY <1>2, <2>1
  <2>3. Len(next) = half
    BY ONLY <1>2, <1>3
  <2> QED BY <1>3, <2>2, <2>3
<1>9. half * (2 * w) >= n
  <2>1. half * (2 * w) = (2 * half) * w
    BY <1>2
  <2>2. 2 * half - m \in Nat /\ 2 * half = m + (2 * half - m)
    BY <1>1, <1>2
  <2>3. \A v \in Nat : m * w <= (m + v) * w
    BY <1>1
  <2>4. m * w <= (2 * half) * w
    BY <2>2, <2>3
  <2>5. m * w \in Nat /\ (2 * half) * w \in Nat
    BY <1>1, <1>2
  <2> QED BY ONLY <1>1, <1>6, <2>1, <2>4, <2>5
<1> QED BY <1>7, <1>8, <1>9 DEF Blocks, next, half, m, n, S

\* The levels that can come up over a list.
Levels(E, list) ==
  {level \in Seq(Seq(E)) : Len(level) >= 1 /\ \E w \in Nat \ {0} : Blocks(list, level, w)}

LEMMA LevelStep ==
  ASSUME NEW E, NEW list \in Seq(E), NEW level \in Levels(E, list)
  PROVE  /\ NextLevel(level) \in Levels(E, list)
         /\ Len(level) = 1 => Len(NextLevel(level)) = 1
         /\ Len(level) > 1 => Len(NextLevel(level)) < Len(level)
<1>1. level \in Seq(Seq(E)) /\ Len(level) \in Nat /\ Len(level) >= 1
  BY LenProperties DEF Levels
<1>2. CASE Len(level) = 1
  BY <1>2 DEF NextLevel
<1>3. CASE Len(level) > 1
  <2>1. PICK w \in Nat \ {0} : Blocks(list, level, w)
    BY DEF Levels
  <2>2. /\ NextLevel(level) \in Seq(Seq(E))
        /\ Len(NextLevel(level)) = (Len(level) + 1) \div 2
        /\ Blocks(list, NextLevel(level), 2 * w)
    BY <1>1, <1>3, <2>1, NextLevelBlocks
  <2>3. 2 * w \in Nat \ {0}
    OBVIOUS
  <2>4. \A m \in Nat : m > 1 => (m + 1) \div 2 >= 1 /\ (m + 1) \div 2 < m
    OBVIOUS
  <2>5. Len(NextLevel(level)) >= 1 /\ Len(NextLevel(level)) < Len(level)
    BY <1>1, <1>3, <2>2, <2>4
  <2>6. NextLevel(level) \in Levels(E, list)
    BY <2>2, <2>3, <2>5 DEF Levels
  <2>7. ~ (Len(level) = 1)
    <3>1. \A m \in Nat : m > 1 => ~ (m = 1)
      OBVIOUS
    <3> QED BY <1>1, <1>3, <3>1, Zenon
  <2> QED BY <2>5, <2>6, <2>7, Zenon
<1>4. Len(level) = 1 \/ Len(level) > 1
  <2>1. \A m \in Nat : m >= 1 => m = 1 \/ m > 1
    OBVIOUS
  <2>2. Len(level) \in Nat /\ Len(level) >= 1
    BY <1>1
  <2> QED BY <2>1, <2>2, Zenon
<1> QED BY <1>2, <1>3, <1>4, Zenon

\* The root of a list starts with the list and holds nothing else.
LEMMA RootFacts ==
  ASSUME NEW E, NEW list \in Seq(E), list # << >>
  PROVE  /\ Len(merkle_root(list)) \in Nat /\ Len(merkle_root(list)) >= Len(list)
         /\ \A p \in 1..Len(list) : merkle_root(list)[p] = list[p]
         /\ \A p \in 1..Len(merkle_root(list)) :
              \E i \in 1..Len(list) : merkle_root(list)[p] = list[i]
<1> DEFINE n == Len(list)
           S == {list[i] : i \in 1..n}
           leaves == [k \in 1..n |-> <<list[k]>>]
           L == Levels(E, list)
           Body(f) == [i \in 0..n |-> IF i = 0 THEN leaves ELSE NextLevel(f[i-1])]
           level == CHOOSE f : f = Body(f)
           G == [i \in 1..n |-> [v \in L |-> NextLevel(v)]]
<1>1. n \in Nat /\ n >= 1
  BY LenProperties, EmptySeq
<1>2. leaves \in L
  <2>1. \A k \in 1..n : /\ <<list[k]>> \in Seq(E) /\ <<list[k]>> \in Seq(S)
                        /\ Len(<<list[k]>>) = 1 /\ <<list[k]>>[1] = list[k]
    <3> SUFFICES ASSUME NEW k \in 1..n
                 PROVE  /\ <<list[k]>> \in Seq(E) /\ <<list[k]>> \in Seq(S)
                        /\ Len(<<list[k]>>) = 1 /\ <<list[k]>>[1] = list[k]
      OBVIOUS
    <3>1. list[k] \in E /\ list[k] \in S
      BY ElementOfSeq
    <3> HIDE DEF S
    <3> QED BY <3>1
  <2>2. leaves \in Seq(Seq(E)) /\ Len(leaves) = n
    BY <1>1, <2>1
  <2>3. \A k \in 1..n : \A p \in 1..1 : (k - 1) * 1 + p = k /\ p = 1
    BY <1>1
  <2>4. Blocks(list, leaves, 1)
    <3>1. \A k \in 1..n : leaves[k] = <<list[k]>>
      OBVIOUS
    <3>2. n * 1 >= n
      BY <1>1
    <3> HIDE DEF leaves
    <3>3. ASSUME NEW k \in 1..n
          PROVE  /\ leaves[k] \in Seq(S) /\ Len(leaves[k]) = 1
                 /\ \A p \in 1..1 : (k - 1) * 1 + p <= n => leaves[k][p] = list[(k - 1) * 1 + p]
      <4> HIDE DEF S, n
      <4>1. leaves[k] = <<list[k]>>
        BY <3>1
      <4>2. \A p \in 1..1 : leaves[k][p] = list[(k - 1) * 1 + p]
        BY <2>1, <2>3, <4>1
      <4> QED BY <2>1, <4>1, <4>2
    <3> QED BY <2>2, <3>2, <3>3 DEF Blocks
  <2> HIDE DEF leaves
  <2> QED BY <1>1, <2>2, <2>4 DEF Levels
<1>3. \E f : f = Body(f)
  <2>1. StepsStayIn(G, n, L)
    <3>1. \A v \in L : NextLevel(v) \in L
      BY LevelStep
    <3> HIDE DEF L
    <3> QED BY <3>1 DEF StepsStayIn
  <2> HIDE DEF n, L, G, leaves
  <2>2. PICK f : IsStepwise(f, n, leaves, G) /\ StaysIn(f, n, L)
    BY <1>1, <1>2, <2>1, StepwiseFunction, Zenon
  <2>3. \A i \in 1..n : f[i-1] \in L
    BY <1>1, <2>2 DEF StaysIn
  <2>4. \A i \in 1..n : G[i][f[i-1]] = NextLevel(f[i-1])
    BY <2>3 DEF G
  <2>5. f = Body(f)
    BY <1>1, <2>2, <2>4 DEF IsStepwise
  <2> QED BY <2>5
<1>4. level = Body(level)
  <2> HIDE DEF Body
  <2> QED BY <1>3, Zenon
<1>5. merkle_root(list) = level[n][1]
  BY DEF merkle_root
<1> HIDE DEF level, L, leaves, n
<1>6. level[0] = leaves /\ \A i \in 1..n : level[i] = NextLevel(level[i-1])
  BY <1>1, <1>4
<1> DEFINE T == {i \in 0..n : level[i] \in L /\ (Len(level[i]) = 1 \/ Len(level[i]) <= n - i)}
<1>7. 0 \in T
  <2>1. Len(leaves) = n
    BY <1>1 DEF leaves
  <2> QED BY <1>1, <1>2, <1>6, <2>1
<1>8. \A i \in 1..n : i - 1 \in T => i \in T
  <2> SUFFICES ASSUME NEW i \in 1..n, level[i-1] \in L,
                      Len(level[i-1]) = 1 \/ Len(level[i-1]) <= n - (i - 1)
               PROVE  level[i] \in L /\ (Len(level[i]) = 1 \/ Len(level[i]) <= n - i)
    OBVIOUS
  <2> DEFINE v == level[i-1]
             u == level[i]
  <2>1. u = NextLevel(v)
    BY <1>6
  <2>2. /\ u \in L
        /\ Len(v) = 1 => Len(u) = 1
        /\ Len(v) > 1 => Len(u) < Len(v)
    BY <2>1, LevelStep DEF L
  <2>3. Len(v) \in Nat /\ Len(v) >= 1 /\ Len(u) \in Nat
    BY <2>2, LenProperties DEF L, Levels
  <2> HIDE DEF u, v
  <2>4. Len(v) = 1 \/ Len(v) <= n - (i - 1)
    BY DEF v
  <2>5. Len(u) = 1 \/ Len(u) <= n - i
    <3>1. i \in 1..n
      OBVIOUS
    <3>2. \A x, y \in Nat : (x = 1 => y = 1) /\ (x > 1 => y < x) /\ x >= 1
                            /\ (x = 1 \/ x <= n - (i - 1)) => y = 1 \/ y <= n - i
      BY <1>1, <3>1
    <3> QED BY <2>2, <2>3, <2>4, <3>2
  <2> QED BY <2>2, <2>5 DEF u
<1>9. n \in T
  <2> HIDE DEF T
  <2>1. 0..n \subseteq T
    BY <1>1, <1>7, <1>8, BoundedInduction, Zenon
  <2> QED BY <1>1, <2>1
<1> DEFINE last == level[n]
<1>10. last \in L /\ Len(last) = 1
  <2>1. last \in L /\ (Len(last) = 1 \/ Len(last) <= n - n)
    BY <1>9
  <2>2. Len(last) \in Nat /\ Len(last) >= 1
    BY <2>1, LenProperties DEF L, Levels
  <2> QED BY <1>1, <2>1, <2>2
<1> HIDE DEF last
<1>11. PICK w \in Nat \ {0} : Blocks(list, last, w)
  BY <1>10 DEF L, Levels
<1> DEFINE root == last[1]
<1>12. /\ 1 * w >= n
       /\ root \in Seq(S) /\ Len(root) = w
       /\ \A p \in 1..w : (1 - 1) * w + p <= n => root[p] = list[(1 - 1) * w + p]
  BY <1>10, <1>11 DEF Blocks, n
<1> HIDE DEF S, root
<1>13. w >= n /\ \A p \in 1..n : root[p] = list[p]
  <2>1. 1 * w = w /\ \A p \in Nat : (1 - 1) * w + p = p
    OBVIOUS
  <2> QED BY <1>1, <1>12, <2>1
<1>14. \A p \in 1..w : \E i \in 1..n : root[p] = list[i]
  <2>1. \A p \in 1..w : root[p] \in S
    BY <1>12, ElementOfSeq
  <2> QED BY <2>1 DEF S
<1>15. merkle_root(list) = root
  BY <1>5 DEF root, last
<1> QED BY <1>12, <1>13, <1>14, <1>15 DEF n

\* Two lists without repetitions and with the same root are the same: each is
\* the beginning of the root, and the longer would repeat one of its elements.
LEMMA MerkleInjective ==
  ASSUME NEW E, NEW s \in Seq(E), NEW t \in Seq(E), NoRepeats(s), NoRepeats(t),
         merkle_root(s) = merkle_root(t)
  PROVE  s = t
<1>1. Len(s) \in Nat /\ Len(t) \in Nat
  BY LenProperties
<1>2. \A l \in Seq(E) : l # << >> => Len(l) >= 1
  BY LenProperties, EmptySeq
<1>3. ASSUME NEW l \in Seq(E), l # << >> PROVE merkle_root(l) # << >>
  <2>1. Len(merkle_root(l)) >= Len(l) /\ Len(l) >= 1
    BY <1>2, <1>3, RootFacts
  <2>2. Len(l) \in Nat /\ Len(merkle_root(l)) \in Nat
    BY <1>3, RootFacts, LenProperties
  <2>3. Len(merkle_root(l)) # 0
    BY <2>1, <2>2
  <2> QED BY <2>3
<1>4. merkle_root(<< >>) = << >>
  BY DEF merkle_root
<1>5. CASE s = << >> \/ t = << >>
  BY <1>3, <1>4, <1>5
<1>6. CASE s # << >> /\ t # << >>
  <2> DEFINE root == merkle_root(s)
  <2>1. ASSUME NEW a \in Seq(E), NEW b \in Seq(E), a # << >>, b # << >>, NoRepeats(b),
               merkle_root(a) = root, merkle_root(b) = root
        PROVE  Len(b) <= Len(a)
    <3>1. Len(a) \in Nat /\ Len(b) \in Nat
      BY LenProperties
    <3> SUFFICES ASSUME Len(a) < Len(b) PROVE FALSE
      BY <3>1
    <3> DEFINE j == Len(a) + 1
    <3>2. j \in 1..Len(b)
      BY <3>1
    <3>3. /\ Len(root) \in Nat /\ Len(root) >= Len(b)
          /\ \A p \in 1..Len(b) : root[p] = b[p]
          /\ \A p \in 1..Len(a) : root[p] = a[p]
          /\ \A p \in 1..Len(root) : \E i \in 1..Len(a) : root[p] = a[i]
      <4>1. /\ Len(merkle_root(b)) \in Nat /\ Len(merkle_root(b)) >= Len(b)
            /\ \A p \in 1..Len(b) : merkle_root(b)[p] = b[p]
        BY <2>1, RootFacts
      <4>2. /\ \A p \in 1..Len(a) : merkle_root(a)[p] = a[p]
            /\ \A p \in 1..Len(merkle_root(a)) :
                 \E i \in 1..Len(a) : merkle_root(a)[p] = a[i]
        BY <2>1, RootFacts
      <4>3. merkle_root(a) = root /\ merkle_root(b) = root
        BY <2>1
      <4> HIDE DEF root
      <4> QED BY <4>1, <4>2, <4>3
    <3>4. j \in 1..Len(root)
      BY <3>1, <3>2, <3>3
    <3> HIDE DEF root, j
    <3>5. PICK i \in 1..Len(a) : root[j] = a[i]
      BY <3>3, <3>4
    <3>6. i \in 1..Len(b) /\ i # j
      BY <3>1 DEF j
    <3>7. b[j] = b[i]
      BY <3>2, <3>3, <3>5, <3>6
    <3>8. DOMAIN b = 1..Len(b)
      BY LenProperties
    <3> QED BY <2>1, <3>2, <3>6, <3>7, <3>8 DEF NoRepeats
  <2>2. Len(s) <= Len(t) /\ Len(t) <= Len(s)
    BY <1>6, <2>1
  <2>3. Len(s) = Len(t)
    BY <1>1, <2>2
  <2>4. \A p \in 1..Len(s) : s[p] = t[p]
    <3>1. \A p \in 1..Len(s) : root[p] = s[p]
      BY <1>6, RootFacts
    <3>2. \A p \in 1..Len(t) : root[p] = t[p]
      BY <1>6, RootFacts
    <3> QED BY <2>3, <3>1, <3>2
  <2> QED BY <2>3, <2>4, SeqEqual
<1> QED BY <1>5, <1>6

\* Different transaction lists of canonical blocks have different roots, for
\* any number of transactions.
THEOREM RootsDifferTheorem == AlgorithmsSpec => []RootsDiffer
<1>1. Lists \subseteq Seq(Leaves)
  <2> SUFFICES ASSUME NEW l \in Lists PROVE l \in Seq(Leaves)
    OBVIOUS
  <2>1. PICK n \in 0..Cardinality(Leaves) : l \in [1..n -> Leaves]
    BY DEF Lists
  <2>2. n \in Nat
    OBVIOUS
  <2> QED BY <2>1, <2>2
<1>2. AlgorithmsInit => RootsDiffer
  <2> SUFFICES ASSUME input \in MerkleInputs, NEW l \in Lists, NoRepeats(l),
                      l # input.list, merkle_root(l) = merkle_root(input.list)
               PROVE  FALSE
    BY DEF AlgorithmsInit, RootsDiffer, RetargetInputs, TargetInputs, MerkleInputs
  <2>1. input.list \in Lists /\ NoRepeats(input.list)
    BY DEF MerkleInputs
  <2> QED BY <1>1, <2>1, MerkleInjective
<1>3. RootsDiffer /\ [AlgorithmsNext]_input => RootsDiffer'
  BY DEF AlgorithmsNext, RootsDiffer, NoRepeats, Lists
<1> QED BY <1>2, <1>3, PTL DEF AlgorithmsSpec

=============================================================================
