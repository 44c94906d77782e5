---------------------------- MODULE SetInduction ----------------------------
(***************************************************************************)
(* Induction over the naturals, stated for sets instead of predicates so   *)
(* that a first-order prover can instantiate it, and the facts on common   *)
(* prefixes and on sums over finite sets that rest on it.                  *)
(***************************************************************************)
EXTENDS Integers, Sequences, Functions, SequenceTheorems, FiniteSetTheorems,
        WellFoundedInduction, TLAPS

\* Every non-empty set of naturals has a least element.
LEMMA LeastNat ==
  ASSUME NEW S \in SUBSET Nat, S # {}
  PROVE  \E m \in S : \A n \in S : m <= n
<1>1. \E x \in S : \A y \in S : ~ (<<y, x>> \in OpToRel(<, Nat))
  BY NatLessThanWellFounded, WFMin, Zenon
<1>2. \A x \in S : \A y \in S : (y < x) => <<y, x>> \in OpToRel(<, Nat)
  BY DEF OpToRel
<1>3. \E x \in S : \A y \in S : ~ (y < x)
  BY <1>1, <1>2, Zenon
<1>4. \A x \in S : x \in Nat
  OBVIOUS
<1> QED BY ONLY <1>3, <1>4

\* A set that contains 0 and the successor of each of its elements up to a
\* bound contains everything up to that bound.
LEMMA BoundedInduction ==
  ASSUME NEW S, NEW n \in Nat, 0 \in S,
         \A i \in 1..n : i - 1 \in S => i \in S
  PROVE  0..n \subseteq S
<1> SUFFICES ASSUME (0..n) \ S # {} PROVE FALSE
  OBVIOUS
<1>1. (0..n) \ S \in SUBSET Nat
  OBVIOUS
<1>2. PICK m \in (0..n) \ S : \A k \in (0..n) \ S : m <= k
  BY <1>1, LeastNat, Zenon
<1>3. m \in 1..n /\ m - 1 \in 0..n /\ ~ (m <= m - 1)
  OBVIOUS
<1>4. m - 1 \in S
  BY <1>2, <1>3
<1> QED BY <1>2, <1>3, <1>4

\* Two sequences have a longest common prefix.
LEMMA CommonPrefixExists ==
  ASSUME NEW E, NEW s \in Seq(E), NEW t \in Seq(E)
  PROVE  \E k \in 0..Len(s) : /\ k <= Len(t)
                              /\ SubSeq(s, 1, k) = SubSeq(t, 1, k)
                              /\ \/ k = Len(s)
                                 \/ k = Len(t)
                                 \/ s[k+1] # t[k+1]
<1> DEFINE Stop == {k \in 0..Len(s) : k <= Len(t) /\ (\/ k = Len(s)
                                                      \/ k = Len(t)
                                                      \/ s[k+1] # t[k+1])}
<1>1. Len(s) \in Nat /\ Len(t) \in Nat
  BY LenProperties
<1>2. Stop \in SUBSET Nat
  BY <1>1
<1>3. Stop # {}
  <2>1. CASE Len(s) <= Len(t)
    <3>1. Len(s) \in Stop
      BY <1>1, <2>1
    <3> QED BY <3>1
  <2>2. CASE Len(t) < Len(s)
    <3>1. Len(t) \in Stop
      BY <1>1, <2>2
    <3> QED BY <3>1
  <2> QED BY <1>1, <2>1, <2>2
<1>4. PICK k \in Stop : \A j \in Stop : k <= j
  BY <1>2, <1>3, LeastNat, Zenon
<1>5. k \in 0..Len(s) /\ k <= Len(t)
  OBVIOUS
<1>6. \A j \in 1..k : s[j] = t[j]
  <2> SUFFICES ASSUME NEW j \in 1..k, s[j] # t[j] PROVE FALSE
    OBVIOUS
  <2>1. j - 1 \in 0..Len(s) /\ j - 1 <= Len(t) /\ (j - 1) + 1 = j
    BY <1>1, <1>5
  <2>2. j - 1 \in Stop
    BY <2>1
  <2>3. ~ (k <= j - 1)
    BY <1>1, <1>5
  <2> QED BY <1>4, <2>2, <2>3
<1>7. SubSeq(s, 1, k) = SubSeq(t, 1, k)
  <2>1. SubSeq(s, 1, k) = [i \in 1..k |-> s[i]] /\ SubSeq(t, 1, k) = [i \in 1..k |-> t[i]]
    BY <1>1, <1>5
  <2> QED BY <2>1, <1>6
<1> QED BY <1>4, <1>5, <1>7

\* A prefix of a prefix, and the prefixes of two sequences that share one.
LEMMA SharedPrefix ==
  ASSUME NEW E, NEW s \in Seq(E), NEW t \in Seq(E),
         NEW k \in 0..Len(s), k <= Len(t), SubSeq(s, 1, k) = SubSeq(t, 1, k),
         NEW j \in 0..k
  PROVE  SubSeq(s, 1, j) = SubSeq(t, 1, j)
<1>1. Len(s) \in Nat /\ Len(t) \in Nat
  BY LenProperties
<1>2. SubSeq(s, 1, k) = [i \in 1..k |-> s[i]] /\ SubSeq(t, 1, k) = [i \in 1..k |-> t[i]]
  BY <1>1
<1>3. \A i \in 1..k : s[i] = t[i]
  <2> TAKE i \in 1..k
  <2>1. SubSeq(s, 1, k)[i] = s[i] /\ SubSeq(t, 1, k)[i] = t[i]
    BY <1>2
  <2> QED BY <2>1
<1>4. SubSeq(s, 1, j) = [i \in 1..j |-> s[i]] /\ SubSeq(t, 1, j) = [i \in 1..j |-> t[i]]
  BY <1>1
<1> QED BY <1>3, <1>4


\* f is defined over 0..n from its previous value; the i-th step is the
\* function G[i].
IsStepwise(f, n, s0, G) == f = [i \in 0..n |-> IF i = 0 THEN s0 ELSE G[i][f[i-1]]]

StaysIn(f, n, S) == \A i \in 0..n : f[i] \in S

StepsStayIn(G, n, S) == \A i \in 1..n : \A s \in S : G[i][s] \in S

\* Such a function exists and takes its values where the steps do.
LEMMA StepwiseFunction ==
  ASSUME NEW n \in Nat, NEW S, NEW s0 \in S, NEW G, StepsStayIn(G, n, S)
  PROVE  \E f : IsStepwise(f, n, s0, G) /\ StaysIn(f, n, S)
<1> USE DEF StepsStayIn
<1> DEFINE Good(m, f) == f[0] = s0 /\ \A i \in 1..m : f[i] = G[i][f[i-1]]
           T == {m \in 0..n : \E f \in [0..m -> S] : Good(m, f)}
<1>1. 0 \in T
  <2>1. [i \in 0..0 |-> s0] \in [0..0 -> S] /\ Good(0, [i \in 0..0 |-> s0])
    OBVIOUS
  <2>2. 0 \in 0..n
    OBVIOUS
  <2> HIDE DEF Good
  <2> QED BY <2>1, <2>2
<1>2. ASSUME NEW m \in 1..n, m - 1 \in T PROVE m \in T
  <2>1. PICK f \in [0..(m-1) -> S] : Good(m - 1, f)
    BY <1>2
  <2> DEFINE g == [i \in 0..m |-> IF i = m THEN G[m][f[m-1]] ELSE f[i]]
  <2>2. g \in [0..m -> S]
    <3>1. f[m-1] \in S
      OBVIOUS
    <3>2. G[m][f[m-1]] \in S
      BY <3>1
    <3>3. \A i \in 0..m : i # m => f[i] \in S
      OBVIOUS
    <3> QED BY <3>2, <3>3
  <2>3. g[0] = s0
    BY <2>1
  <2>4. \A i \in 1..m : g[i] = G[i][g[i-1]]
    <3> TAKE i \in 1..m
    <3>1. g[i-1] = f[i-1]
      OBVIOUS
    <3>2. CASE i = m
      <4>1. g[m] = G[m][f[m-1]]
        OBVIOUS
      <4> HIDE DEF g
      <4> QED BY <3>1, <3>2, <4>1
    <3>3. CASE i # m
      BY <2>1, <3>1, <3>3
    <3> QED BY <3>2, <3>3
  <2>5. m \in 0..n
    OBVIOUS
  <2> HIDE DEF g
  <2>6. Good(m, g)
    BY <2>3, <2>4
  <2> HIDE DEF Good
  <2> QED BY <2>2, <2>5, <2>6
<1>3. n \in T
  <2> HIDE DEF T
  <2>1. 0..n \subseteq T
    BY <1>1, <1>2, BoundedInduction
  <2> QED BY <2>1
<1>4. PICK f \in [0..n -> S] : Good(n, f)
  BY <1>3
<1>5. IsStepwise(f, n, s0, G) /\ StaysIn(f, n, S)
  BY <1>4 DEF IsStepwise, StaysIn
<1> QED BY <1>5

\* A function whose first value lies in S and that never leaves S in a step.
LEMMA StepwiseType ==
  ASSUME NEW n \in Nat, NEW S, NEW f, f[0] \in S,
         \A i \in 1..n : f[i-1] \in S => f[i] \in S
  PROVE  StaysIn(f, n, S)
<1> DEFINE T == {i \in 0..n : f[i] \in S}
<1>1. 0 \in T
  OBVIOUS
<1>2. \A i \in 1..n : i - 1 \in T => i \in T
  OBVIOUS
<1> HIDE DEF T
<1>3. 0..n \subseteq T
  BY <1>1, <1>2, BoundedInduction, Zenon
<1> QED BY <1>3 DEF T, StaysIn

-----------------------------------------------------------------------------
(* Sums of a function over a finite set (SumFunctionOnSet).                *)

\* The element the fold takes first.
FirstOf(s) == CHOOSE x \in s : TRUE

\* g holds the sum of f over every subset of S.
IsSumOn(g, f, S) ==
  g = [s \in SUBSET S |-> IF s = {} THEN 0 ELSE f[FirstOf(s)] + g[s \ {FirstOf(s)}]]

LEMMA FirstFacts ==
  ASSUME NEW S, NEW s \in SUBSET S, IsFiniteSet(S), s # {}
  PROVE  /\ FirstOf(s) \in s /\ s \ {FirstOf(s)} \in SUBSET S
         /\ Cardinality(s) \in Nat \ {0}
         /\ Cardinality(s \ {FirstOf(s)}) = Cardinality(s) - 1
<1>1. FirstOf(s) \in s
  BY DEF FirstOf
<1>2. IsFiniteSet(s)
  BY FS_Subset
<1>3. Cardinality(s) \in Nat /\ Cardinality(s) # 0
  BY <1>2, FS_CardinalityType, FS_EmptySet
<1>4. Cardinality(s \ {FirstOf(s)}) = Cardinality(s) - 1
  BY <1>1, <1>2, FS_RemoveElement
<1> QED BY <1>1, <1>3, <1>4

\* Induction over the subsets of a finite set: what holds of a set whenever it
\* holds of all sets with one element less.
LEMMA SubsetInduction ==
  ASSUME NEW S, IsFiniteSet(S), NEW Q,
         \A s \in SUBSET S : (\A x \in s : s \ {x} \in Q) => s \in Q
  PROVE  SUBSET S \subseteq Q
<1> DEFINE n == Cardinality(S)
           T == {m \in 0..n : \A s \in SUBSET S : Cardinality(s) = m => s \in Q}
<1>1. n \in Nat
  BY FS_CardinalityType
<1>2. \A s \in SUBSET S : IsFiniteSet(s) /\ Cardinality(s) \in 0..n
  BY <1>1, FS_Subset, FS_CardinalityType
<1>3. 0 \in T
  BY <1>1, <1>2, FS_EmptySet
<1>4. ASSUME NEW m \in 1..n, m - 1 \in T PROVE m \in T
  <2> SUFFICES ASSUME NEW s \in SUBSET S, Cardinality(s) = m PROVE s \in Q
    OBVIOUS
  <2>1. \A x \in s : s \ {x} \in SUBSET S /\ Cardinality(s \ {x}) = m - 1
    BY <1>2, FS_RemoveElement
  <2> QED BY <1>4, <2>1
<1> HIDE DEF n, T
<1>5. 0..n \subseteq T
  BY <1>1, <1>3, <1>4, BoundedInduction
<1> QED BY <1>2, <1>5 DEF T

\* The fold's function exists: sets of m elements take their sum from those
\* of m - 1.
LEMMA SumExists ==
  ASSUME NEW S, IsFiniteSet(S), NEW f, \A x \in S : f[x] \in Int
  PROVE  \E g \in [SUBSET S -> Int] : IsSumOn(g, f, S)
<1> DEFINE n == Cardinality(S)
           Small(m) == {s \in SUBSET S : Cardinality(s) <= m}
           Sums(g, m) == \A s \in Small(m) :
              g[s] = IF s = {} THEN 0 ELSE f[FirstOf(s)] + g[s \ {FirstOf(s)}]
           T == {m \in 0..n : \E g \in [Small(m) -> Int] : Sums(g, m)}
<1>1. n \in Nat
  BY FS_CardinalityType
<1>2. \A s \in SUBSET S : IsFiniteSet(s) /\ Cardinality(s) \in 0..n
  BY <1>1, FS_Subset, FS_CardinalityType
<1>3. Small(n) = SUBSET S
  BY <1>1, <1>2
<1>4. 0 \in T
  <2> DEFINE g == [s \in Small(0) |-> 0]
  <2>1. \A s \in Small(0) : s = {}
    BY <1>2, FS_EmptySet
  <2>2. g \in [Small(0) -> Int]
    OBVIOUS
  <2>3. Sums(g, 0)
    BY <2>1
  <2> HIDE DEF g, Sums, Small
  <2> QED BY <1>1, <2>2, <2>3
<1>5. ASSUME NEW m \in 1..n, m - 1 \in T PROVE m \in T
  <2>1. PICK g \in [Small(m-1) -> Int] : Sums(g, m - 1)
    BY <1>5
  <2> DEFINE Val(s) == IF s = {} THEN 0 ELSE f[FirstOf(s)] + g[s \ {FirstOf(s)}]
             h == [s \in Small(m) |-> Val(s)]
  <2>2. \A s \in Small(m) : s # {} => s \ {FirstOf(s)} \in Small(m-1)
    <3> SUFFICES ASSUME NEW s \in Small(m), s # {} PROVE s \ {FirstOf(s)} \in Small(m-1)
      OBVIOUS
    <3>1. s \ {FirstOf(s)} \in SUBSET S /\ Cardinality(s \ {FirstOf(s)}) = Cardinality(s) - 1
      BY FirstFacts
    <3> QED BY <1>2, <3>1
  <2>3. \A s \in Small(m) : s # {} => FirstOf(s) \in S
    BY FirstFacts
  <2>4. h \in [Small(m) -> Int]
    <3>1. \A s \in Small(m) : Val(s) \in Int
      <4> HIDE DEF Small, Sums
      <4> QED BY <2>2, <2>3
    <3> QED BY <3>1
  <2>5. \A s \in Small(m-1) : s \in Small(m) /\ h[s] = g[s]
    <3> SUFFICES ASSUME NEW s \in Small(m-1) PROVE s \in Small(m) /\ h[s] = g[s]
      OBVIOUS
    <3>1. s \in Small(m)
      BY <1>2
    <3>2. g[s] = Val(s)
      BY <2>1
    <3> QED BY <3>1, <3>2
  <2>6. Sums(h, m)
    <3> SUFFICES ASSUME NEW s \in Small(m)
                 PROVE  h[s] = IF s = {} THEN 0 ELSE f[FirstOf(s)] + h[s \ {FirstOf(s)}]
      BY DEF Sums
    <3>1. s # {} => h[s \ {FirstOf(s)}] = g[s \ {FirstOf(s)}]
      BY <2>2, <2>5
    <3>2. h[s] = Val(s)
      OBVIOUS
    <3> HIDE DEF h
    <3> QED BY <3>1, <3>2
  <2> HIDE DEF h, Sums, Small
  <2> QED BY <2>4, <2>6
<1>6. n \in T
  <2> HIDE DEF n, T
  <2>1. 0..n \subseteq T
    BY <1>1, <1>4, <1>5, BoundedInduction
  <2> QED BY <1>1, <2>1
<1>7. PICK g \in [Small(n) -> Int] : Sums(g, n)
  BY <1>6
<1>8. g \in [SUBSET S -> Int]
  BY <1>3
<1>9. \A s \in SUBSET S : g[s] = IF s = {} THEN 0 ELSE f[FirstOf(s)] + g[s \ {FirstOf(s)}]
  BY <1>3, <1>7
<1> QED BY <1>8, <1>9 DEF IsSumOn

\* The sum over a set of which the first element is taken out.
LEMMA SumFirst ==
  ASSUME NEW S, IsFiniteSet(S), NEW f, \A x \in S : f[x] \in Int
  PROVE  /\ SumFunctionOnSet(f, S) \in Int
         /\ \A s \in SUBSET S :
              SumFunctionOnSet(f, s) =
                IF s = {} THEN 0 ELSE f[FirstOf(s)] + SumFunctionOnSet(f, s \ {FirstOf(s)})
<1> DEFINE Iter(s) == CHOOSE g : IsSumOn(g, f, s)
<1>1. \A s \in SUBSET S : SumFunctionOnSet(f, s) = Iter(s)[s]
  BY DEF SumFunctionOnSet, FoldFunctionOnSet, MapThenFoldSet, IsSumOn, FirstOf
<1>2. \A s \in SUBSET S : IsSumOn(Iter(s), f, s)
  <2> TAKE s \in SUBSET S
  <2>1. IsFiniteSet(s) /\ \A x \in s : f[x] \in Int
    BY FS_Subset
  <2>2. \E g : IsSumOn(g, f, s)
    BY <2>1, SumExists
  <2> QED BY <2>2
<1> HIDE DEF Iter
<1>0. \A s \in SUBSET S : \A u \in SUBSET s :
        Iter(s)[u] = IF u = {} THEN 0 ELSE f[FirstOf(u)] + Iter(s)[u \ {FirstOf(u)}]
  BY <1>2 DEF IsSumOn
<1>3. ASSUME NEW s \in SUBSET S, NEW t \in SUBSET s
      PROVE  Iter(s)[t] = Iter(t)[t]
  <2> DEFINE Q == {u \in SUBSET t : Iter(s)[u] = Iter(t)[u]}
  <2>1. IsFiniteSet(t)
    BY FS_Subset
  <2>3. ASSUME NEW u \in SUBSET t, \A x \in u : u \ {x} \in Q PROVE u \in Q
    <3>1. u \in SUBSET s
      OBVIOUS
    <3>0. CASE u = {}
      BY <1>0, <3>0, <3>1
    <3> SUFFICES ASSUME u # {} PROVE u \in Q
      BY <3>0
    <3>3. FirstOf(u) \in u
      BY <2>1, FirstFacts
    <3>2. /\ Iter(s)[u] = f[FirstOf(u)] + Iter(s)[u \ {FirstOf(u)}]
          /\ Iter(t)[u] = f[FirstOf(u)] + Iter(t)[u \ {FirstOf(u)}]
      BY <1>0, <2>3, <3>1
    <3> QED BY <2>3, <3>2, <3>3
  <2> HIDE DEF Q
  <2>4. SUBSET t \subseteq Q
    BY <2>1, <2>3, SubsetInduction
  <2> QED BY <2>4 DEF Q
<1>4. SumFunctionOnSet(f, S) \in Int
  <2> DEFINE Q == {u \in SUBSET S : Iter(S)[u] \in Int}
  <2>0. \A u \in SUBSET S :
          Iter(S)[u] = IF u = {} THEN 0 ELSE f[FirstOf(u)] + Iter(S)[u \ {FirstOf(u)}]
    <3>1. S \in SUBSET S
      OBVIOUS
    <3> QED BY <1>0, <3>1, Zenon
  <2>1. ASSUME NEW u \in SUBSET S, \A x \in u : u \ {x} \in Q PROVE u \in Q
    <3>1. CASE u = {}
      BY <2>0, <3>1
    <3>2. CASE u # {}
      <4>1. FirstOf(u) \in u
        BY <3>2, FirstFacts
      <4>2. Iter(S)[u] = f[FirstOf(u)] + Iter(S)[u \ {FirstOf(u)}]
        BY <2>0, <3>2
      <4>3. f[FirstOf(u)] \in Int /\ Iter(S)[u \ {FirstOf(u)}] \in Int
        BY <2>1, <4>1
      <4> QED BY <4>2, <4>3
    <3> QED BY <3>1, <3>2
  <2> HIDE DEF Q
  <2>2. S \in Q
    BY <2>1, SubsetInduction
  <2> QED BY <1>1, <2>2 DEF Q
<1>5. ASSUME NEW s \in SUBSET S
      PROVE  SumFunctionOnSet(f, s) =
               IF s = {} THEN 0 ELSE f[FirstOf(s)] + SumFunctionOnSet(f, s \ {FirstOf(s)})
  <2>1. Iter(s)[s] = IF s = {} THEN 0 ELSE f[FirstOf(s)] + Iter(s)[s \ {FirstOf(s)}]
    BY <1>2 DEF IsSumOn
  <2>2. s \ {FirstOf(s)} \in SUBSET s /\ s \ {FirstOf(s)} \in SUBSET S
    OBVIOUS
  <2>3. SumFunctionOnSet(f, s \ {FirstOf(s)}) = Iter(s)[s \ {FirstOf(s)}]
    BY <1>1, <1>3, <2>2
  <2> QED BY <1>1, <2>1, <2>3
<1> QED BY <1>4, <1>5

LEMMA SumEmpty == \A f : SumFunctionOnSet(f, {}) = 0
BY FS_EmptySet, SumFirst

\* Any element may be taken out first.
LEMMA SumRemove ==
  ASSUME NEW S, IsFiniteSet(S), NEW f, \A x \in S : f[x] \in Int, NEW x \in S
  PROVE  SumFunctionOnSet(f, S) = f[x] + SumFunctionOnSet(f, S \ {x})
<1> DEFINE Sum(s) == SumFunctionOnSet(f, s)
           Q == {s \in SUBSET S : \A y \in s : Sum(s) = f[y] + Sum(s \ {y})}
<1>1. \A s \in SUBSET S : Sum(s) \in Int
  <2> TAKE s \in SUBSET S
  <2>1. IsFiniteSet(s) /\ \A y \in s : f[y] \in Int
    BY FS_Subset
  <2> QED BY <2>1, SumFirst
<1>2. \A s \in SUBSET S : s # {} => Sum(s) = f[FirstOf(s)] + Sum(s \ {FirstOf(s)})
  BY SumFirst
<1> HIDE DEF Sum
<1>3. ASSUME NEW s \in SUBSET S, \A y \in s : s \ {y} \in Q PROVE s \in Q
  <2> SUFFICES ASSUME NEW y \in s PROVE Sum(s) = f[y] + Sum(s \ {y})
    OBVIOUS
  <2> DEFINE c == FirstOf(s)
  <2>1. c \in s /\ Sum(s) = f[c] + Sum(s \ {c})
    BY <1>2, FirstFacts
  <2> HIDE DEF c
  <2>2. CASE y = c
    BY <2>1, <2>2
  <2>3. CASE y # c
    <3>1. Sum(s \ {c}) = f[y] + Sum((s \ {c}) \ {y})
      BY <1>3, <2>1, <2>3
    <3>2. Sum(s \ {y}) = f[c] + Sum((s \ {y}) \ {c})
      BY <1>3, <2>1, <2>3
    <3>3. (s \ {c}) \ {y} = (s \ {y}) \ {c}
      OBVIOUS
    <3>4. c \in S /\ y \in S /\ (s \ {y}) \ {c} \in SUBSET S
      BY <2>1
    <3>5. f[c] \in Int /\ f[y] \in Int /\ Sum((s \ {y}) \ {c}) \in Int
      BY ONLY <1>1, <3>4, \A z \in S : f[z] \in Int
    <3> DEFINE rest == Sum((s \ {y}) \ {c})
    <3>6. Sum(s) = f[c] + (f[y] + rest)
      BY ONLY <2>1, <3>1, <3>3, Zenon
    <3>7. f[y] + Sum(s \ {y}) = f[y] + (f[c] + rest)
      BY ONLY <3>2, Zenon
    <3> HIDE DEF rest
    <3>8. f[c] + (f[y] + rest) = f[y] + (f[c] + rest)
      BY ONLY <3>5 DEF rest
    <3> QED BY ONLY <3>6, <3>7, <3>8
  <2> QED BY <2>2, <2>3
<1> HIDE DEF Q
<1>4. SUBSET S \subseteq Q
  BY <1>3, SubsetInduction
<1>5. S \in Q
  BY <1>4
<1> QED BY <1>5 DEF Q, Sum

\* Functions that agree on a set have the same sum over it.
LEMMA SumAgree ==
  ASSUME NEW S, IsFiniteSet(S), NEW f, NEW g,
         \A x \in S : f[x] \in Int /\ f[x] = g[x]
  PROVE  SumFunctionOnSet(f, S) = SumFunctionOnSet(g, S)
<1> DEFINE Q == {s \in SUBSET S : SumFunctionOnSet(f, s) = SumFunctionOnSet(g, s)}
<1>1. ASSUME NEW s \in SUBSET S, \A y \in s : s \ {y} \in Q PROVE s \in Q
  <2> DEFINE c == FirstOf(s)
  <2>0. CASE s = {}
    BY <2>0, SumFirst
  <2>1. CASE s # {}
    <3>1. c \in s
      BY <2>1, FirstFacts
    <3>2. /\ SumFunctionOnSet(f, s) = f[c] + SumFunctionOnSet(f, s \ {c})
          /\ SumFunctionOnSet(g, s) = g[c] + SumFunctionOnSet(g, s \ {c})
      BY <2>1, SumFirst
    <3> HIDE DEF c
    <3> QED BY <1>1, <3>1, <3>2
  <2> QED BY <2>0, <2>1
<1> HIDE DEF Q
<1>2. S \in Q
  BY <1>1, SubsetInduction
<1> QED BY <1>2 DEF Q

\* A sum of naturals is a natural, and at least each of its terms.
LEMMA SumNat ==
  ASSUME NEW S, IsFiniteSet(S), NEW f, \A x \in S : f[x] \in Nat
  PROVE  /\ SumFunctionOnSet(f, S) \in Nat
         /\ \A x \in S : f[x] <= SumFunctionOnSet(f, S)
<1> DEFINE Q == {s \in SUBSET S : SumFunctionOnSet(f, s) \in Nat}
<1>1. ASSUME NEW s \in SUBSET S, \A y \in s : s \ {y} \in Q PROVE s \in Q
  <2> DEFINE c == FirstOf(s)
  <2>0. CASE s = {}
    BY <2>0, SumEmpty
  <2>1. CASE s # {}
    <3>1. c \in s
      BY <2>1, FirstFacts
    <3>2. SumFunctionOnSet(f, s) = f[c] + SumFunctionOnSet(f, s \ {c})
      BY <2>1, SumFirst
    <3> HIDE DEF c
    <3> QED BY <1>1, <3>1, <3>2
  <2> QED BY <2>0, <2>1
<1> HIDE DEF Q
<1>2. SUBSET S \subseteq Q
  BY <1>1, SubsetInduction
<1>3. \A s \in SUBSET S : SumFunctionOnSet(f, s) \in Nat
  BY <1>2 DEF Q
<1>4. ASSUME NEW x \in S PROVE f[x] <= SumFunctionOnSet(f, S)
  <2>1. SumFunctionOnSet(f, S) = f[x] + SumFunctionOnSet(f, S \ {x})
    BY SumRemove
  <2>2. SumFunctionOnSet(f, S \ {x}) \in Nat
    BY <1>3
  <2> QED BY <2>1, <2>2
<1> QED BY <1>3, <1>4

\* The sums of two functions that differ at one point.
LEMMA SumChange ==
  ASSUME NEW S, IsFiniteSet(S), NEW f \in [S -> Int], NEW g \in [S -> Int],
         NEW x \in S, \A y \in S : y # x => g[y] = f[y]
  PROVE  /\ SumFunction(f) \in Int /\ SumFunction(g) \in Int
         /\ SumFunction(g) = SumFunction(f) - f[x] + g[x]
<1>1. /\ SumFunction(f) = f[x] + SumFunctionOnSet(f, S \ {x})
      /\ SumFunction(g) = g[x] + SumFunctionOnSet(g, S \ {x})
  BY SumRemove DEF SumFunction
<1>2. IsFiniteSet(S \ {x})
  BY FS_Subset
<1>3. SumFunctionOnSet(f, S \ {x}) = SumFunctionOnSet(g, S \ {x})
  BY <1>2, SumAgree
<1>4. SumFunctionOnSet(f, S \ {x}) \in Int
  BY <1>2, SumFirst
<1> QED BY <1>1, <1>3, <1>4

\* The sum of n + 1 terms is that of the first n and the last.
LEMMA SumExtend ==
  ASSUME NEW n \in Nat, NEW f \in [1..n -> Int], NEW g \in [1..(n + 1) -> Int],
         \A i \in 1..n : g[i] = f[i]
  PROVE  /\ SumFunction(f) \in Int /\ SumFunction(g) \in Int
         /\ SumFunction(g) = SumFunction(f) + g[n + 1]
<1>1. IsFiniteSet(1..n) /\ IsFiniteSet(1..(n+1))
  BY FS_Interval
<1>2. (1..(n+1)) \ {n+1} = 1..n
  OBVIOUS
<1>3. SumFunctionOnSet(g, 1..(n+1)) = g[n+1] + SumFunctionOnSet(g, 1..n)
  BY <1>1, <1>2, SumRemove
<1>4. SumFunctionOnSet(f, 1..n) = SumFunctionOnSet(g, 1..n)
  BY <1>1, SumAgree
<1>5. SumFunctionOnSet(f, 1..n) \in Int
  BY <1>1, SumFirst
<1> QED BY <1>3, <1>4, <1>5 DEF SumFunction

LEMMA SumNone ==
  ASSUME NEW f, DOMAIN f = {}
  PROVE  SumFunction(f) = 0
BY SumEmpty DEF SumFunction

=============================================================================
