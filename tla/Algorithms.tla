----------------------------- MODULE Algorithms -----------------------------
(***************************************************************************)
(* The pure functions of the consensus rules against what they are to      *)
(* compute, one state per input: retargeting, the 256-bit target, and the  *)
(* Merkle root of a transaction list.                                      *)
(***************************************************************************)
EXTENDS Difficulty, Merkle, FiniteSets

CONSTANTS Times,         \* target block times and observed times
          Difficulties,  \* difficulties
          Base, Digits,  \* the target is Digits digits of this base
          Leaves         \* transaction hashes

ASSUME DigitsAssumption == Base \in Nat \ {0, 1} /\ Digits \in Nat \ {0}

\* Both are u64, and no difficulty is 0: next_difficulty ends with `.max(1)`.
\* (A genesis that starts at 0 is left aside.)
ASSUME InputAssumption == Times \subseteq U64 /\ Difficulties \subseteq U64 \ {0}

-----------------------------------------------------------------------------
(* divide_be_by_u64: schoolbook division, most significant digit first.    *)

\* Mutation: the remainder of a digit is not carried to the next one.
divide_be_forgetting(num, divisor) == [i \in 1..Digits |-> num[i] \div divisor]

divide_be_by_u64(num, divisor) ==
  LET carry[i \in 0..Digits] ==
        IF i = 0 THEN 0 ELSE (carry[i-1] * Base + num[i]) % divisor
  IN  [i \in 1..Digits |-> ((carry[i-1] * Base + num[i]) \div divisor) % Base]

MAX_TARGET == [i \in 1..Digits |-> Base - 1]

target_for_difficulty(difficulty) ==
  divide_be_by_u64(MAX_TARGET, AtLeast(difficulty, 1))

\* What a big-endian number is worth.
Value(num) ==
  LET sum[i \in 0..Digits] == IF i = 0 THEN 0 ELSE sum[i-1] * Base + num[i]
  IN  sum[Digits]

-----------------------------------------------------------------------------

VARIABLE input

Lists == UNION {[1..n -> Leaves] : n \in 0..Cardinality(Leaves)}
NoRepeats(l) == \A i, j \in DOMAIN l : l[i] = l[j] => i = j

RetargetInputs ==
  [kind : {"retarget"}, prev : Difficulties, actual : Times, block_time : Times]
TargetInputs == [kind : {"target"}, difficulty : Difficulties]
MerkleInputs == [kind : {"merkle"}, list : {l \in Lists : NoRepeats(l)}]

AlgorithmsInit == input \in RetargetInputs \cup TargetInputs \cup MerkleInputs
AlgorithmsNext == UNCHANGED input
AlgorithmsSpec == AlgorithmsInit /\ [][AlgorithmsNext]_input

Retargeted(r) == next_difficulty(r.prev, r.actual, r.block_time, 1)

\* difficulty.rs: "a correction factor clamped to [1/4x, 4x]", where nothing
\* is rounded or truncated: the target time of the window is a multiple of
\* four, and four times either number is still a u64.  (A target time of 5
\* allows a factor of 5.)
RetargetClamped ==
  input.kind = "retarget" /\ input.block_time > 0 /\ input.block_time % 4 = 0
    /\ 4 * input.block_time <= MaxU64 /\ 4 * input.prev <= MaxU64
  => /\ Retargeted(input) <= 4 * input.prev
     /\ Retargeted(input) >= input.prev \div 4

\* Blocks that took longer never raise the difficulty above what faster ones
\* would have given, and blocks on time leave it alone.
RetargetMonotone ==
  input.kind = "retarget" /\ input.block_time > 0
    /\ 4 * input.block_time <= MaxU64
    /\ input.prev * input.block_time <= MaxU64
  => /\ \A t \in Times : t <= input.actual
          => Retargeted(input) <= Retargeted([input EXCEPT !.actual = t])
     /\ input.actual = input.block_time => Retargeted(input) = input.prev

\* The digit-by-digit division is the division of the whole number: the
\* target is the largest number whose product with the difficulty fits.
TargetIsQuotient ==
  input.kind = "target" =>
    Value(target_for_difficulty(input.difficulty))
      = Value(MAX_TARGET) \div AtLeast(input.difficulty, 1)

\* The header commits to the transactions: lists without repetitions, the
\* only ones a canonical block can hold, have different roots.
RootsDiffer ==
  input.kind = "merkle" =>
    \A l \in Lists : NoRepeats(l) /\ l # input.list
      => merkle_root(l) # merkle_root(input.list)

=============================================================================
