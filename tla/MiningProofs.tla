---------------------------- MODULE MiningProofs ----------------------------
(***************************************************************************)
(* No payment a wallet was told is accepted goes missing, for any wallets, *)
(* payments, miners and restarts.                                          *)
(*                                                                         *)
(* The property itself is all but inductive: mempool_remove takes only     *)
(* what the canonical chain holds.  What it rests on is that a chain built *)
(* from its own templates never reorganises: a template whose parent is no *)
(* longer the tip carries the difficulty the parent's canonical child has, *)
(* so its branch has no more work than the tip and stays a side branch.    *)
(***************************************************************************)
EXTENDS Mining, SetInduction

-----------------------------------------------------------------------------
(* Difficulty.                                                             *)

\* Any numbers of the right width give a difficulty.
LEMMA NextDifficultyType ==
  ASSUME NEW prev \in Nat, NEW actual \in Nat, NEW time \in Nat, NEW window \in Nat
  PROVE  next_difficulty(prev, actual, time, window) \in U64
<1> DEFINE target == TargetTimespan(time, window)
           c == ClampedTimespan(actual, target)
           q == (prev * target) \div c
<1>1. MaxU64 \in Nat /\ MaxU64 >= 1
  BY MaxU64Assumption
<1>2. target \in Nat
  <2>1. time * window \in Nat
    OBVIOUS
  <2> QED BY <1>1, <2>1 DEF TargetTimespan, SatMul, AtMost, AtLeast
<1> HIDE DEF target
<1>3. \A x \in Nat : Wrap(x) \in 0..MaxU64
  BY <1>1 DEF Wrap
<1>4. c \in Nat \ {0}
  <2>1. target * 4 \in Nat /\ target \div 4 \in Nat
    BY <1>2
  <2>2. Wrap(target * 4) \in Nat
    BY <1>1, <1>3, <2>1
  <2> QED BY <2>1, <2>2 DEF ClampedTimespan, AtMost, AtLeast
<1> HIDE DEF c
<1>5. q \in Nat
  <2>1. prev * target \in Nat
    BY <1>2
  <2>2. \A a \in Nat, d \in Nat \ {0} : a \div d \in Nat
    OBVIOUS
  <2> QED BY <1>4, <2>1, <2>2
<1> HIDE DEF q
<1>6. next_difficulty(prev, actual, time, window) = AtLeast(Wrap(q), 1)
  BY DEF next_difficulty, q, c, target
<1>7. Wrap(q) \in 0..MaxU64
  BY <1>3, <1>5
<1> QED BY <1>1, <1>6, <1>7 DEF U64, AtLeast

\* expected_difficulty_after in any tree.
ExpectedIn(tree, h) ==
  IF tree[h].height + 1 <= Window THEN InitialDifficulty
  ELSE next_difficulty(tree[h].difficulty,
                       SatSub(tree[h].timestamp,
                              tree[block_ancestor(h, Window)].timestamp),
                       TargetBlockTime, Window)

LEMMA ExpectedIsExpectedIn ==
  \A h : expected_difficulty_after(h) = ExpectedIn(blocks, h)
BY DEF expected_difficulty_after, ExpectedIn

-----------------------------------------------------------------------------
(* A canonical chain without reorgs, as a predicate on the trees so that   *)
(* it can be stated before and after a step.                               *)

IsHeaderSeq(s) == s \in Seq({s[i] : i \in 1..Len(s)})

Line(tree, work, index, t) ==
  /\ IsHeaderSeq(t.hash)
  /\ t.height = Len(t.hash)
  /\ index = [k \in 0..t.height |-> SubSeq(t.hash, 1, k)]
  /\ \A k \in 0..t.height :
       /\ index[k] \in DOMAIN tree /\ index[k] \in DOMAIN work
       /\ tree[index[k]].height = k
       /\ tree[index[k]].difficulty \in U64 /\ tree[index[k]].timestamp \in U64
       /\ work[index[k]] \in Nat
       /\ k < t.height => work[index[k]] + ExpectedIn(tree, index[k]) <= work[t.hash]

\* The tip is the last of its line, and each entry's ancestors are entries.
LEMMA LineFacts ==
  ASSUME NEW tree, NEW work, NEW index, NEW t, Line(tree, work, index, t)
  PROVE  /\ t.height \in Nat /\ Len(t.hash) = t.height
         /\ index[t.height] = t.hash
         /\ \A k \in 0..t.height : \A d \in 0..k : block_ancestor(index[k], d) = index[k - d]
<1> DEFINE s == t.hash
           E == {s[i] : i \in 1..Len(s)}
<1>1. s \in Seq(E) /\ t.height = Len(s)
  BY DEF Line, IsHeaderSeq
<1>2. \A k \in 0..t.height : index[k] = SubSeq(s, 1, k)
  BY DEF Line
<1> HIDE DEF s, E
<1>3. Len(s) \in Nat
  BY <1>1, LenProperties
<1>4. SubSeq(s, 1, Len(s)) = s
  BY <1>1, SubSeqFull
<1>5. ASSUME NEW k \in 0..t.height, NEW d \in 0..k
      PROVE  block_ancestor(index[k], d) = index[k - d]
  <2> DEFINE u == SubSeq(s, 1, k)
  <2>1. u = [i \in 1..k |-> s[i]] /\ Len(u) = k
    BY <1>1, <1>3
  <2>2. k - d \in 0..t.height /\ k \in Nat /\ k - d \in 0..k
    BY <1>1, <1>3
  <2>3. SubSeq(u, 1, k - d) = [i \in 1..(k - d) |-> u[i]]
    BY <2>1, <2>2
  <2>4. SubSeq(s, 1, k - d) = [i \in 1..(k - d) |-> s[i]]
    BY <1>1, <1>3, <2>2
  <2>5. \A i \in 1..(k - d) : u[i] = s[i]
    BY <2>1, <2>2
  <2> HIDE DEF u
  <2>6. SubSeq(u, 1, k - d) = SubSeq(s, 1, k - d)
    BY <2>3, <2>4, <2>5
  <2> QED BY <1>2, <2>1, <2>2, <2>6 DEF u, block_ancestor
<1>6. index[t.height] = s
  BY <1>1, <1>2, <1>3, <1>4
<1> QED BY <1>1, <1>3, <1>5, <1>6 DEF s

\* What a block on the line expects of its child is a difficulty, and depends
\* on the line only.
LEMMA ExpectedOnLine ==
  ASSUME NEW tree, NEW work, NEW index, NEW t, Line(tree, work, index, t),
         NEW k \in 0..t.height
  PROVE  /\ ExpectedIn(tree, index[k]) \in U64
         /\ \A other : (\A j \in 0..t.height : other[index[j]] = tree[index[j]])
              => ExpectedIn(other, index[k]) = ExpectedIn(tree, index[k])
<1>1. Window \in Nat \ {0} /\ TargetBlockTime \in Nat /\ InitialDifficulty \in U64
  BY GenesisAssumption, MaxU64Assumption DEF Window, AtLeast, U64
<1>2. t.height \in Nat
  BY LineFacts
<1>3. \A j \in 0..t.height : /\ tree[index[j]].height = j
                             /\ tree[index[j]].difficulty \in Nat
                             /\ tree[index[j]].timestamp \in Nat
  BY MaxU64Assumption DEF Line, U64
<1>4. CASE k + 1 <= Window
  BY <1>1, <1>3, <1>4 DEF ExpectedIn
<1>5. CASE ~ (k + 1 <= Window)
  <2>1. Window \in 0..k /\ k - Window \in 0..t.height
    BY <1>1, <1>2, <1>5
  <2>2. block_ancestor(index[k], Window) = index[k - Window]
    BY <2>1, LineFacts
  <2> DEFINE E(v) == next_difficulty(v[index[k]].difficulty,
                       SatSub(v[index[k]].timestamp, v[index[k - Window]].timestamp),
                       TargetBlockTime, Window)
  <2>3. ExpectedIn(tree, index[k]) = E(tree)
    BY <1>3, <1>5, <2>2 DEF ExpectedIn
  <2>4. E(tree) \in U64
    <3>1. SatSub(tree[index[k]].timestamp, tree[index[k - Window]].timestamp) \in Nat
      BY <1>3, <2>1 DEF SatSub, AtLeast
    <3> QED BY <1>1, <1>3, <3>1, NextDifficultyType
  <2>5. ASSUME NEW other, \A j \in 0..t.height : other[index[j]] = tree[index[j]]
        PROVE  ExpectedIn(other, index[k]) = E(tree)
    <3>1. other[index[k]] = tree[index[k]] /\ other[index[k - Window]] = tree[index[k - Window]]
      BY <2>1, <2>5
    <3> QED BY <1>3, <1>5, <2>2, <3>1 DEF ExpectedIn
  <2> QED BY <2>3, <2>4, <2>5
<1> QED BY <1>4, <1>5

\* The transactions of a branch, in any tree.
LineTxs(tree, h) == TxsOf(BlocksAt(tree, PathTo(h)))

TxsHeld(b) == {b.transactions[j] : j \in DOMAIN b.transactions}

LEMMA LineTxsAt ==
  \A tree, h : LineTxs(tree, h) = UNION {TxsHeld(tree[SubSeq(h, 1, k)]) : k \in 1..Len(h)}
<1> TAKE tree, h
<1> DEFINE bs == BlocksAt(tree, PathTo(h))
<1>1. DOMAIN bs = 1..Len(h) /\ \A k \in 1..Len(h) : bs[k] = tree[SubSeq(h, 1, k)]
  BY DEF BlocksAt, PathTo
<1> HIDE DEF bs
<1>2. TxsOf(bs) = UNION {TxsHeld(bs[i]) : i \in DOMAIN bs}
  BY DEF TxsOf, TxsHeld
<1>3. {TxsHeld(bs[i]) : i \in DOMAIN bs} = {TxsHeld(tree[SubSeq(h, 1, k)]) : k \in 1..Len(h)}
  BY <1>1
<1> QED BY <1>2, <1>3 DEF LineTxs, bs

\* Storing a block that is not there yet changes nothing on the line.
LEMMA StoreBeside ==
  ASSUME NEW tree, NEW work, NEW index, NEW t, Line(tree, work, index, t),
         NEW n, n \notin DOMAIN tree, NEW b, NEW w
  PROVE  /\ \A k \in 0..t.height : /\ Insert(tree, n, b)[index[k]] = tree[index[k]]
                                   /\ Insert(work, n, w)[index[k]] = work[index[k]]
                                   /\ index[k] \in DOMAIN Insert(tree, n, b)
                                   /\ index[k] \in DOMAIN Insert(work, n, w)
         /\ LineTxs(Insert(tree, n, b), t.hash) = LineTxs(tree, t.hash)
<1>1. \A k \in 0..t.height : index[k] \in DOMAIN tree /\ index[k] \in DOMAIN work
  BY DEF Line
<1>2. \A k \in 0..t.height : /\ Insert(tree, n, b)[index[k]] = tree[index[k]]
                             /\ Insert(work, n, w)[index[k]] = work[index[k]]
                             /\ index[k] \in DOMAIN Insert(tree, n, b)
                             /\ index[k] \in DOMAIN Insert(work, n, w)
  <2> SUFFICES ASSUME NEW k \in 0..t.height
               PROVE  /\ Insert(tree, n, b)[index[k]] = tree[index[k]]
                      /\ Insert(work, n, w)[index[k]] = work[index[k]]
                      /\ index[k] \in DOMAIN Insert(tree, n, b)
                      /\ index[k] \in DOMAIN Insert(work, n, w)
    OBVIOUS
  <2>1. index[k] # n /\ index[k] \in DOMAIN tree /\ index[k] \in DOMAIN work
    BY <1>1
  <2> QED BY <2>1 DEF Insert
<1>3. BlocksAt(Insert(tree, n, b), PathTo(t.hash)) = BlocksAt(tree, PathTo(t.hash))
  <2>1. \A k \in DOMAIN PathTo(t.hash) : k \in 0..t.height /\ PathTo(t.hash)[k] = index[k]
    <3>1. DOMAIN PathTo(t.hash) = 1..t.height
          /\ \A k \in 1..t.height : PathTo(t.hash)[k] = SubSeq(t.hash, 1, k)
      BY LineFacts DEF PathTo
    <3>2. \A k \in 0..t.height : index[k] = SubSeq(t.hash, 1, k)
      BY DEF Line
    <3> QED BY <3>1, <3>2
  <2>2. \A k \in DOMAIN PathTo(t.hash) :
          Insert(tree, n, b)[PathTo(t.hash)[k]] = tree[PathTo(t.hash)[k]]
    BY <1>2, <2>1
  <2> QED BY <2>2 DEF BlocksAt
<1> QED BY <1>2, <1>3 DEF LineTxs

LEMMA LineKept ==
  ASSUME NEW tree, NEW work, NEW index, NEW t, Line(tree, work, index, t),
         NEW n, n \notin DOMAIN tree, NEW b, NEW w
  PROVE  Line(Insert(tree, n, b), Insert(work, n, w), index, t)
<1> DEFINE tree2 == Insert(tree, n, b)
           work2 == Insert(work, n, w)
<1>1. \A k \in 0..t.height : /\ tree2[index[k]] = tree[index[k]]
                             /\ work2[index[k]] = work[index[k]]
                             /\ index[k] \in DOMAIN tree2
                             /\ index[k] \in DOMAIN work2
  BY StoreBeside
<1> HIDE DEF tree2, work2
<1>2. \A k \in 0..t.height : ExpectedIn(tree2, index[k]) = ExpectedIn(tree, index[k])
  BY <1>1, ExpectedOnLine
<1>3. work2[t.hash] = work[t.hash]
  <2>1. t.height \in 0..t.height /\ index[t.height] = t.hash
    BY LineFacts
  <2> QED BY <1>1, <2>1
<1>4. Line(tree2, work2, index, t)
  BY <1>1, <1>2, <1>3 DEF Line
<1> QED BY <1>4 DEF tree2, work2

\* A block on the tip: the branches part at the tip itself, so reconsider_tip
\* undoes nothing and indexes one height.
LEMMA ForkAtTip ==
  ASSUME NEW E, NEW s \in Seq(E), NEW x \in E
  PROVE  /\ ForkHeight(s, Append(s, x)) = Len(s)
         /\ Len(Append(s, x)) = Len(s) + 1
         /\ SubSeq(Append(s, x), 1, Len(s) + 1) = Append(s, x)
         /\ \A k \in 0..Len(s) : SubSeq(Append(s, x), 1, k) = SubSeq(s, 1, k)
<1> DEFINE u == Append(s, x)
           P(k) == /\ k <= Len(u)
                   /\ SubSeq(s, 1, k) = SubSeq(u, 1, k)
                   /\ \/ k = Len(s)
                      \/ k = Len(u)
                      \/ s[k+1] # u[k+1]
<1>1. /\ u \in Seq(E) /\ Len(s) \in Nat /\ Len(u) = Len(s) + 1
      /\ \A i \in 1..Len(s) : u[i] = s[i]
  OBVIOUS
<1>2. \A k \in 0..Len(s) : SubSeq(u, 1, k) = SubSeq(s, 1, k)
  OBVIOUS
<1>3. SubSeq(u, 1, Len(s) + 1) = u
  BY <1>1, SubSeqFull
<1>4. \E k \in 0..Len(s) : P(k)
  <2> HIDE DEF u
  <2> QED BY <1>1, CommonPrefixExists, Zenon
<1>5. ForkHeight(s, u) = CHOOSE k \in 0..Len(s) : P(k)
  BY Zenon DEF ForkHeight
<1> HIDE DEF P
<1>6. ForkHeight(s, u) \in 0..Len(s) /\ P(ForkHeight(s, u))
  BY <1>4, <1>5, Zenon
<1> HIDE DEF u
<1>7. ForkHeight(s, u) = Len(s)
  <2> DEFINE f == ForkHeight(s, u)
  <2> HIDE DEF f
  <2>1. f \in 0..Len(s) /\ (f = Len(s) \/ f = Len(u) \/ s[f+1] # u[f+1])
    BY <1>6 DEF P, f
  <2>2. f = Len(s)
    <3> SUFFICES ASSUME f < Len(s) PROVE FALSE
      BY <1>1, <2>1
    <3>1. f + 1 \in 1..Len(s) /\ f # Len(s) /\ f # Len(u)
      BY <1>1, <2>1
    <3> QED BY <1>1, <2>1, <3>1
  <2> QED BY <2>2 DEF f
<1> QED BY <1>1, <1>2, <1>3, <1>7 DEF u

\* What the line becomes when b, with hash n and work w, is stored on its tip.
LineExtension(tree, work, index, t, n, b, w) ==
  LET index2 == [k \in 0..Len(n) |-> SubSeq(n, 1, k)]
  IN  /\ Line(Insert(tree, n, b), Insert(work, n, w), index2,
              [height |-> b.height, hash |-> n])
      /\ \A k \in 0..t.height : index2[k] = index[k]
      /\ t.height <= b.height
      /\ LineTxs(tree, t.hash) \subseteq LineTxs(Insert(tree, n, b), n)
      /\ TxsOf(<<b>>) \subseteq LineTxs(Insert(tree, n, b), n)

LEMMA LineExtended ==
  ASSUME NEW tree, NEW work, NEW index, NEW t, Line(tree, work, index, t),
         NEW x, NEW n, n = Append(t.hash, x), n \notin DOMAIN tree,
         NEW b, tree[t.hash].height + 1 = b.height, b.timestamp \in U64,
         b.difficulty = ExpectedIn(tree, t.hash),
         NEW w, w = work[t.hash] + b.difficulty
  PROVE  LineExtension(tree, work, index, t, n, b, w)
<1> DEFINE s == t.hash
           E == {s[i] : i \in 1..Len(s)} \cup {x}
           m == t.height
           tree2 == Insert(tree, n, b)
           work2 == Insert(work, n, w)
           index2 == [k \in 0..Len(n) |-> SubSeq(n, 1, k)]
           t2 == [height |-> b.height, hash |-> n]
<1>1. s \in Seq(E) /\ x \in E
  BY DEF Line, IsHeaderSeq
<1>2. m \in Nat /\ Len(s) = m /\ index[m] = s /\ m \in 0..m
  BY LineFacts
<1>3. /\ Len(n) = m + 1
      /\ SubSeq(n, 1, m + 1) = n
      /\ \A k \in 0..m : SubSeq(n, 1, k) = SubSeq(s, 1, k)
  <2> HIDE DEF E, s
  <2> QED BY <1>1, <1>2, ForkAtTip DEF s
<1>4. \A k \in 0..m : index[k] = SubSeq(s, 1, k)
  BY DEF Line
<1>5. /\ \A k \in 0..m : index2[k] = index[k]
      /\ index2[m + 1] = n
  <2>1. \A k \in 0..(m + 1) : index2[k] = SubSeq(n, 1, k)
    BY <1>3
  <2>2. m + 1 \in 0..(m + 1) /\ \A k \in 0..m : k \in 0..(m + 1)
    BY <1>2
  <2> HIDE DEF index2, s
  <2> QED BY <1>3, <1>4, <2>1, <2>2
<1>6. b.height = m + 1
  <2>1. tree[index[m]].height = m
    BY <1>2 DEF Line
  <2> QED BY <1>2, <2>1
<1>7. IsHeaderSeq(n)
  <2>1. n \in Seq(E) /\ Len(n) \in Nat /\ \A i \in 1..Len(n) : n[i] \in E
    <3> HIDE DEF E
    <3> QED BY <1>1
  <2>2. n = [i \in 1..Len(n) |-> n[i]]
    BY <2>1
  <2> DEFINE R == {n[i] : i \in 1..Len(n)}
  <2>3. \A i \in 1..Len(n) : n[i] \in R
    OBVIOUS
  <2> HIDE DEF R
  <2>4. [i \in 1..Len(n) |-> n[i]] \in Seq(R)
    BY <2>1, <2>3
  <2> QED BY <2>2, <2>4 DEF R, IsHeaderSeq
<1>8. \A k \in 0..m : /\ tree2[index[k]] = tree[index[k]]
                      /\ work2[index[k]] = work[index[k]]
                      /\ index[k] \in DOMAIN tree2
                      /\ index[k] \in DOMAIN work2
  BY StoreBeside
<1>9. n \in DOMAIN tree2 /\ n \in DOMAIN work2 /\ tree2[n] = b /\ work2[n] = w
  BY DEF Insert
<1>10. \A k \in 0..m : /\ ExpectedIn(tree2, index[k]) = ExpectedIn(tree, index[k])
                       /\ ExpectedIn(tree, index[k]) \in Nat
  <2>1. \A k \in 0..m : /\ ExpectedIn(tree2, index[k]) = ExpectedIn(tree, index[k])
                        /\ ExpectedIn(tree, index[k]) \in U64
    <3> HIDE DEF tree2
    <3> QED BY <1>8, ExpectedOnLine
  <2> QED BY <2>1, MaxU64Assumption DEF U64
<1>11. b.difficulty \in U64 /\ b.difficulty \in Nat /\ work[s] \in Nat
  <2>1. ExpectedIn(tree, index[m]) \in U64 /\ work[index[m]] \in Nat
    BY <1>2, ExpectedOnLine DEF Line
  <2> QED BY <1>2, <2>1, MaxU64Assumption DEF U64
<1> HIDE DEF tree2, work2, index2, E
<1>12. ASSUME NEW k \in 0..(m + 1)
       PROVE  /\ index2[k] \in DOMAIN tree2 /\ index2[k] \in DOMAIN work2
              /\ tree2[index2[k]].height = k
              /\ tree2[index2[k]].difficulty \in U64 /\ tree2[index2[k]].timestamp \in U64
              /\ work2[index2[k]] \in Nat
              /\ k < m + 1 => work2[index2[k]] + ExpectedIn(tree2, index2[k]) <= work2[n]
  <2>1. CASE k = m + 1
    <3>1. index2[k] = n
      BY <1>5, <2>1
    <3>2. w \in Nat
      BY <1>11
    <3>3. ~ (k < m + 1)
      BY <1>2, <2>1
    <3> QED BY <1>6, <1>9, <1>11, <2>1, <3>1, <3>2, <3>3
  <2>2. CASE k # m + 1
    <3>1. k \in 0..m
      BY <1>2, <2>2
    <3>2. index2[k] = index[k] /\ tree2[index[k]] = tree[index[k]]
          /\ work2[index[k]] = work[index[k]]
          /\ index[k] \in DOMAIN tree2 /\ index[k] \in DOMAIN work2
      BY <1>5, <1>8, <3>1
    <3>3. /\ tree[index[k]].height = k
          /\ tree[index[k]].difficulty \in U64 /\ tree[index[k]].timestamp \in U64
          /\ work[index[k]] \in Nat
          /\ k < m => work[index[k]] + ExpectedIn(tree, index[k]) <= work[s]
      BY <3>1 DEF Line
    <3>4. work[index[k]] + ExpectedIn(tree, index[k]) <= w
      <4>1. ExpectedIn(tree, index[k]) \in Nat
        BY <1>10, <3>1
      <4>2. CASE k < m
        BY <1>11, <3>3, <4>1, <4>2
      <4>3. CASE k = m
        <5>1. work[index[k]] + ExpectedIn(tree, index[k]) = w /\ w \in Nat
          BY <1>2, <1>11, <4>3
        <5> QED BY <5>1
      <4>4. k < m \/ k = m
        BY <1>2, <3>1
      <4> QED BY <4>2, <4>3, <4>4
    <3>5. ExpectedIn(tree2, index[k]) = ExpectedIn(tree, index[k])
      BY <1>10, <3>1
    <3> QED BY <1>9, <3>2, <3>3, <3>4, <3>5
  <2> QED BY <2>1, <2>2
<1>13. Line(tree2, work2, index2, t2)
  <2>1. t2.hash = n /\ t2.height = m + 1
    BY <1>6
  <2>2. index2 = [k \in 0..(m + 1) |-> SubSeq(n, 1, k)]
    BY <1>3 DEF index2
  <2> HIDE DEF t2
  <2> QED BY <1>3, <1>7, <1>12, <2>1, <2>2 DEF Line
<1>14. m <= b.height
  BY <1>2, <1>6
<1>15. LineTxs(tree2, n) = UNION {TxsHeld(tree2[SubSeq(n, 1, k)]) : k \in 1..(m + 1)}
  BY <1>3, LineTxsAt
<1>16. LineTxs(tree, s) = UNION {TxsHeld(tree[SubSeq(s, 1, k)]) : k \in 1..m}
  BY <1>2, LineTxsAt
<1>17. LineTxs(tree, s) \subseteq LineTxs(tree2, n)
  <2>1. \A k \in 1..m : /\ k \in 1..(m + 1)
                        /\ tree2[SubSeq(n, 1, k)] = tree[SubSeq(s, 1, k)]
    <3> TAKE k \in 1..m
    <3>1. k \in 0..m /\ k \in 1..(m + 1)
      BY <1>2
    <3>2. SubSeq(n, 1, k) = SubSeq(s, 1, k) /\ index[k] = SubSeq(s, 1, k)
      BY <1>3, <1>4, <3>1, Zenon
    <3>3. tree2[index[k]] = tree[index[k]]
      BY <1>8, <3>1, Zenon
    <3> QED BY <3>1, <3>2, <3>3, Zenon
  <2> QED BY <1>15, <1>16, <2>1
<1>18. TxsOf(<<b>>) \subseteq LineTxs(tree2, n)
  <2>1. m + 1 \in 1..(m + 1) /\ tree2[SubSeq(n, 1, m + 1)] = b
    <3>1. m + 1 \in 1..(m + 1)
      BY <1>2
    <3> QED BY <1>3, <1>9, <3>1, Zenon
  <2>2. TxsOf(<<b>>) = TxsHeld(b)
    BY DEF TxsOf, TxsHeld
  <2> QED BY <1>15, <2>1, <2>2
<1> QED BY <1>5, <1>13, <1>14, <1>17, <1>18 DEF tree2, work2, index2, LineExtension

-----------------------------------------------------------------------------
(* The invariant.                                                          *)

LineInv == Line(blocks, chainwork, heights, tip)

\* A template's parent is on the line, whenever it was handed out; what is
\* being removed from the mempool was executed.
RequestsOK ==
  /\ DOMAIN request = Miner
  /\ \A m \in Miner :
       /\ request[m].pc = "mining" =>
            /\ request[m].block.timestamp = GenesisTimestamp
            /\ \E k \in 0..tip.height : request[m].block.prev_hash = heights[k]
       /\ request[m].pc = "prune" => TxsOf(<<request[m].block>>) \subseteq CanonicalTxs

MiningInv == LineInv /\ RequestsOK /\ NothingConfirmedMissing

\* What a step does to the line: it grows, and with it what was executed.
LineGrows ==
  /\ LineInv'
  /\ tip.height <= tip'.height
  /\ \A k \in 0..tip.height : heights'[k] = heights[k]
  /\ CanonicalTxs \subseteq CanonicalTxs'

LEMMA CanonicalIsLine ==
  /\ CanonicalTxs = LineTxs(blocks, tip.hash)
  /\ CanonicalTxs' = LineTxs(blocks', tip'.hash)
BY DEF CanonicalTxs, BranchOf, LineTxs

LEMMA SameStore ==
  ASSUME LineInv, UNCHANGED <<blocks, chainwork, heights, tip>>
  PROVE  LineGrows
<1>1. tip.height <= tip'.height
  BY LineFacts DEF LineInv
<1>2. LineInv'
  BY DEF LineInv
<1>3. CanonicalTxs' = CanonicalTxs
  BY CanonicalIsLine
<1> QED BY <1>1, <1>2, <1>3 DEF LineGrows

\* submit_block with a template of this node: a block on an older tip has at
\* most the work of the tip and stays aside; one on the tip extends the line.
LEMMA SubmitOnLine ==
  ASSUME LineInv, NEW b, NEW k \in 0..tip.height, b.prev_hash = heights[k],
         b.timestamp \in U64, submit_block(b)
  PROVE  LineGrows /\ (outcome'.kind = "Accepted" => TxsOf(<<b>>) \subseteq CanonicalTxs')
<1> USE DEF LineInv
<1>1. CASE \/ RejectBeforeHash(b) \/ ReturnAlreadyKnown(b) \/ RejectStateless(b)
           \/ ReturnOrphan(b) \/ RejectContext(b)
  <2>1. UNCHANGED <<blocks, chainwork, heights, tip>> /\ outcome'.kind # "Accepted"
    BY <1>1 DEF RejectBeforeHash, ReturnAlreadyKnown, RejectStateless, ReturnOrphan,
       RejectContext, StoreUnchanged
  <2> QED BY <2>1, SameStore
<1>2. CASE StoreSideBranch(b) \/ StoreThenFail(b)
  <2>1. /\ id(b) \notin DOMAIN blocks
        /\ blocks' = Insert(blocks, id(b), b)
        /\ chainwork' = Insert(chainwork, id(b), ThisWork(b))
        /\ heights' = heights /\ tip' = tip
        /\ outcome'.kind # "Accepted"
    BY <1>2 DEF StoreSideBranch, StoreThenFail, Storable, Fresh, StoreBlock
  <2>2. LineInv'
    BY <2>1, LineKept
  <2>3. CanonicalTxs' = CanonicalTxs
    BY <2>1, StoreBeside, CanonicalIsLine
  <2>4. tip.height <= tip'.height
    BY <2>1, LineFacts
  <2> QED BY <2>1, <2>2, <2>3, <2>4 DEF LineGrows
<1>3. CASE StoreAndAdopt(b)
  <2>1. /\ id(b) \notin DOMAIN blocks
        /\ blocks' = Insert(blocks, id(b), b)
        /\ chainwork' = Insert(chainwork, id(b), ThisWork(b))
        /\ heights' = ReindexedHeights(tip.hash, id(b))
        /\ tip' = [height |-> b.height, hash |-> id(b)]
        /\ blocks[b.prev_hash].height + 1 = b.height
        /\ b.difficulty = ExpectedIn(blocks, b.prev_hash)
        /\ ThisWork(b) = chainwork[b.prev_hash] + b.difficulty
        /\ ThisWork(b) > chainwork[tip.hash]
    BY <1>3, ExpectedIsExpectedIn DEF StoreAndAdopt, Storable, Fresh, FollowsParent,
       StoreBlock, OutworksTip, ThisWork, block_work
  <2>2. tip.height \in Nat /\ Len(tip.hash) = tip.height /\ heights[tip.height] = tip.hash
    BY LineFacts
  <2>3. b.prev_hash = tip.hash
    <3>1. k < tip.height => chainwork[heights[k]] + ExpectedIn(blocks, heights[k])
                              <= chainwork[tip.hash]
      BY DEF Line
    <3>2. chainwork[heights[k]] \in Nat /\ chainwork[tip.hash] \in Nat
      <4>1. tip.height \in 0..tip.height
        BY <2>2
      <4> QED BY <2>2, <4>1 DEF Line
    <3>3. ExpectedIn(blocks, heights[k]) \in Nat
      <4>1. ExpectedIn(blocks, heights[k]) \in U64
        BY ExpectedOnLine
      <4> QED BY <4>1, MaxU64Assumption DEF U64
    <3>4. ~ (k < tip.height)
      BY <2>1, <3>1, <3>2, <3>3
    <3>5. k = tip.height
      BY <2>2, <3>4
    <3> QED BY <2>2, <3>5
  <2> DEFINE n == id(b)
             x == [height |-> b.height, tx_root |-> b.tx_root,
                   timestamp |-> b.timestamp, difficulty |-> b.difficulty,
                   miner |-> b.miner, nonce |-> b.nonce]
             index2 == [j \in 0..Len(n) |-> SubSeq(n, 1, j)]
  <2>4. n = Append(tip.hash, x)
    BY <2>3 DEF id
  <2> HIDE DEF x, n
  <2>5. /\ Line(blocks', chainwork', index2, tip')
        /\ \A j \in 0..tip.height : index2[j] = heights[j]
        /\ tip.height <= b.height
        /\ LineTxs(blocks, tip.hash) \subseteq LineTxs(blocks', n)
        /\ TxsOf(<<b>>) \subseteq LineTxs(blocks', n)
    <3> DEFINE w == ThisWork(b)
               t2 == [height |-> b.height, hash |-> n]
    <3>1. /\ n \notin DOMAIN blocks
          /\ blocks' = Insert(blocks, n, b) /\ chainwork' = Insert(chainwork, n, w)
          /\ tip' = t2
      BY <2>1 DEF n
    <3>2. /\ blocks[tip.hash].height + 1 = b.height
          /\ b.difficulty = ExpectedIn(blocks, tip.hash)
          /\ w = chainwork[tip.hash] + b.difficulty
      BY <2>1, <2>3, Zenon
    <3> HIDE DEF w, t2
    <3>3. /\ Line(Insert(blocks, n, b), Insert(chainwork, n, w), index2,
                  [height |-> b.height, hash |-> n])
          /\ \A j \in 0..tip.height : index2[j] = heights[j]
          /\ tip.height <= b.height
          /\ LineTxs(blocks, tip.hash) \subseteq LineTxs(Insert(blocks, n, b), n)
          /\ TxsOf(<<b>>) \subseteq LineTxs(Insert(blocks, n, b), n)
      <4> HIDE DEF LineInv
      <4>1. Line(blocks, chainwork, heights, tip)
        BY DEF LineInv
      <4>2. b.timestamp \in U64
        OBVIOUS
      <4>3. LineExtension(blocks, chainwork, heights, tip, n, b, w)
        BY ONLY <2>4, <3>1, <3>2, <4>1, <4>2, LineExtended, Zenon
      <4> QED BY <4>3, Zenon DEF LineExtension
    <3> QED BY <3>1, <3>3, Zenon DEF t2
  <2>6. heights' = index2
    <3> DEFINE s == tip.hash
               E == {s[i] : i \in 1..Len(s)} \cup {x}
    <3>1. s \in Seq(E) /\ x \in E
      BY DEF Line, IsHeaderSeq
    <3> HIDE DEF s, E
    <3>2. /\ ForkHeight(s, n) = Len(s) /\ Len(n) = Len(s) + 1
          /\ SubSeq(n, 1, Len(s) + 1) = n /\ Len(s) \in Nat
      <4>1. n = Append(s, x)
        BY <2>4 DEF s
      <4> QED BY <3>1, <4>1, ForkAtTip, LenProperties
    <3>3. undo_list(s, n) = [i \in 1..0 |-> block_ancestor(s, i - 1)]
      BY <3>2 DEF undo_list
    <3>4. /\ DOMAIN apply_list(s, n) = {1}
          /\ apply_list(s, n)[1] = n
      BY <3>2 DEF apply_list
    <3>5. {Len(s) + 1 - i : i \in DOMAIN undo_list(s, n)} = {}
      BY <3>3
    <3>6. {Len(apply_list(s, n)[i]) : i \in DOMAIN apply_list(s, n)} = {Len(s) + 1}
      BY <3>2, <3>4
    <3>7. ReindexedHeights(s, n)
            = [j \in (DOMAIN heights \ {}) \cup {Len(s) + 1} |->
                 IF j \in {Len(s) + 1} THEN SubSeq(n, 1, j) ELSE heights[j]]
      BY <3>5, <3>6 DEF ReindexedHeights
    <3>8. DOMAIN heights = 0..Len(s)
      BY <2>2 DEF Line, s
    <3>9. (DOMAIN heights \ {}) \cup {Len(s) + 1} = 0..Len(n)
      BY <3>2, <3>8
    <3>10. \A j \in 0..Len(n) : j \notin {Len(s) + 1} => heights[j] = SubSeq(n, 1, j)
      <4>1. \A j \in 0..Len(n) : j \notin {Len(s) + 1} => j \in 0..tip.height
        BY <2>2, <3>2 DEF s
      <4> QED BY <2>5, <4>1
    <3>11. ReindexedHeights(s, n) = index2
      BY <3>7, <3>9, <3>10
    <3> QED BY <2>1, <3>11 DEF s, n
  <2>7. LineInv'
    BY <2>5, <2>6
  <2>8. CanonicalTxs \subseteq CanonicalTxs' /\ TxsOf(<<b>>) \subseteq CanonicalTxs'
    BY <2>1, <2>5, CanonicalIsLine DEF n
  <2>9. tip.height <= tip'.height /\ \A j \in 0..tip.height : heights'[j] = heights[j]
    BY <2>1, <2>5, <2>6
  <2> QED BY <2>7, <2>8, <2>9 DEF LineGrows
<1> QED BY <1>1, <1>2, <1>3 DEF submit_block
-----------------------------------------------------------------------------
(* The invariant holds at the start and every step keeps it.               *)

LEMMA MiningInvInit == MiningInit => MiningInv
<1> SUFFICES ASSUME MiningInit PROVE MiningInv
  OBVIOUS
<1>1. /\ blocks = [h \in {<< >>} |-> GenesisBlock]
      /\ chainwork = [h \in {<< >>} |-> InitialDifficulty]
      /\ heights = [k \in {0} |-> << >>]
      /\ tip = [height |-> 0, hash |-> << >>]
  BY DEF MiningInit, Init, genesis_block_hash, block_work
<1>2. LineInv
  <2>1. \A k \in 0..0 : k = 0
    OBVIOUS
  <2>2. InitialDifficulty \in U64 /\ InitialDifficulty \in Nat /\ GenesisTimestamp \in U64
    BY GenesisAssumption, MaxU64Assumption DEF U64
  <2>3. IsHeaderSeq(<< >>)
    BY DEF IsHeaderSeq
  <2>4. /\ tip.height = 0 /\ tip.hash = << >>
        /\ heights[0] = << >> /\ blocks[<< >>] = GenesisBlock
        /\ << >> \in DOMAIN blocks /\ << >> \in DOMAIN chainwork
        /\ chainwork[<< >>] = InitialDifficulty
    BY <1>1
  <2>5. heights = [k \in 0..0 |-> SubSeq(<< >>, 1, k)]
    <3>1. 0..0 = {0} /\ SubSeq(<< >>, 1, 0) = << >>
      OBVIOUS
    <3> QED BY <1>1, <3>1
  <2>6. /\ GenesisBlock.height = 0 /\ GenesisBlock.difficulty = InitialDifficulty
        /\ GenesisBlock.timestamp = GenesisTimestamp
    BY DEF GenesisBlock
  <2>7. \A k \in 0..tip.height :
          /\ heights[k] \in DOMAIN blocks /\ heights[k] \in DOMAIN chainwork
          /\ blocks[heights[k]].height = k
          /\ blocks[heights[k]].difficulty \in U64 /\ blocks[heights[k]].timestamp \in U64
          /\ chainwork[heights[k]] \in Nat
          /\ ~ (k < tip.height)
    <3> TAKE k \in 0..tip.height
    <3>1. k = 0 /\ tip.height = 0
      BY <2>1, <2>4
    <3> QED BY <2>2, <2>4, <2>6, <3>1
  <2>8. Len(tip.hash) = 0 /\ tip.height = 0
    BY <2>4
  <2>9. heights = [k \in 0..tip.height |-> SubSeq(tip.hash, 1, k)]
    BY <2>4, <2>5, Zenon
  <2> QED BY <2>3, <2>4, <2>7, <2>8, <2>9 DEF LineInv, Line
<1>3. RequestsOK
  BY DEF MiningInit, RequestsOK, NoRequest
<1>4. NothingConfirmedMissing
  BY DEF MiningInit, NothingConfirmedMissing
<1> QED BY <1>2, <1>3, <1>4 DEF MiningInv

\* Requests that a step leaves alone stay right while the line grows.
LEMMA RequestKept ==
  ASSUME RequestsOK, LineInv, LineGrows, NEW m \in Miner, request'[m] = request[m]
  PROVE  /\ request'[m].pc = "mining" =>
              /\ request'[m].block.timestamp = GenesisTimestamp
              /\ \E k \in 0..tip'.height : request'[m].block.prev_hash = heights'[k]
         /\ request'[m].pc = "prune" => TxsOf(<<request'[m].block>>) \subseteq CanonicalTxs'
<1>1. tip.height \in Nat /\ tip'.height \in Nat
  BY LineFacts DEF LineInv, LineGrows
<1>2. /\ tip.height <= tip'.height
      /\ \A k \in 0..tip.height : heights'[k] = heights[k]
      /\ CanonicalTxs \subseteq CanonicalTxs'
  BY DEF LineGrows
<1>3. request[m].pc = "mining" => /\ request[m].block.timestamp = GenesisTimestamp
                                  /\ \E k \in 0..tip.height : request[m].block.prev_hash = heights[k]
  BY DEF RequestsOK
<1>4. request[m].pc = "prune" => TxsOf(<<request[m].block>>) \subseteq CanonicalTxs
  BY DEF RequestsOK
<1>5. ASSUME NEW k \in 0..tip.height, request[m].block.prev_hash = heights[k]
      PROVE  \E j \in 0..tip'.height : request'[m].block.prev_hash = heights'[j]
  <2>1. k \in 0..tip'.height
    BY <1>1, <1>2
  <2>2. request'[m].block.prev_hash = heights'[k]
    BY <1>2, <1>5
  <2> QED BY <2>1, <2>2
<1> QED BY <1>2, <1>3, <1>4, <1>5

\* A step that changes at most one request, to one that is idle or has only
\* read the mempool.
LEMMA RequestChanged ==
  ASSUME RequestsOK, LineInv, LineGrows, NEW m \in Miner, NEW r,
         r.pc # "mining", r.pc # "prune",
         request' = [request EXCEPT ![m] = r]
  PROVE  RequestsOK'
<1>1. DOMAIN request' = Miner /\ request'[m] = r
      /\ \A o \in Miner : o # m => request'[o] = request[o]
  BY DEF RequestsOK
<1>2. ASSUME NEW o \in Miner
      PROVE  /\ request'[o].pc = "mining" =>
                  /\ request'[o].block.timestamp = GenesisTimestamp
                  /\ \E k \in 0..tip'.height : request'[o].block.prev_hash = heights'[k]
             /\ request'[o].pc = "prune" => TxsOf(<<request'[o].block>>) \subseteq CanonicalTxs'
  <2>1. CASE o = m
    BY <1>1, <2>1
  <2>2. CASE o # m
    BY <1>1, <2>2, RequestKept
  <2> QED BY <2>1, <2>2
<1> QED BY <1>1, <1>2 DEF RequestsOK

\* A step that leaves every request alone.
LEMMA RequestsKept ==
  ASSUME RequestsOK, LineInv, LineGrows, request' = request
  PROVE  RequestsOK'
<1>1. \A m \in Miner : request'[m] = request[m]
  OBVIOUS
<1>2. ASSUME NEW o \in Miner
      PROVE  /\ request'[o].pc = "mining" =>
                  /\ request'[o].block.timestamp = GenesisTimestamp
                  /\ \E k \in 0..tip'.height : request'[o].block.prev_hash = heights'[k]
             /\ request'[o].pc = "prune" => TxsOf(<<request'[o].block>>) \subseteq CanonicalTxs'
  BY <1>1, RequestKept
<1> QED BY <1>2 DEF RequestsOK

\* The core is left as it is, the mempool may grow and requests are only read.
LEMMA QuietMiningStep ==
  ASSUME MiningInv, UNCHANGED <<blocks, chainwork, heights, tip>>,
         UNCHANGED <<forgotten, request>>,
         mempool \subseteq mempool',
         confirmed' \subseteq confirmed \cup mempool'
  PROVE  MiningInv'
<1>1. LineGrows
  BY SameStore DEF MiningInv
<1>2. RequestsOK'
  BY <1>1, RequestsKept DEF MiningInv
<1>3. NothingConfirmedMissing'
  <2>1. CanonicalTxs' = CanonicalTxs
    BY CanonicalIsLine
  <2> QED BY <2>1 DEF MiningInv, NothingConfirmedMissing
<1> QED BY <1>1, <1>2, <1>3 DEF MiningInv, LineGrows

LEMMA WalletStep ==
  ASSUME MiningInv, NEW w \in Address, fetch_account(w) \/ submit_tx(w)
  PROVE  MiningInv'
<1>1. CASE fetch_account(w)
  BY <1>1, QuietMiningStep DEF fetch_account, vars
<1>2. CASE submit_tx(w)
  BY <1>2, QuietMiningStep DEF submit_tx, Buffered, vars
<1> QED BY <1>1, <1>2

LEMMA FlushStep == MiningInv /\ Flush => MiningInv'
BY QuietMiningStep DEF Flush, vars

LEMMA ReadStep ==
  ASSUME MiningInv, NEW m \in Miner, mempool_all(m)
  PROVE  MiningInv'
<1> DEFINE r == [pc |-> "pending", txs |-> SelectSeq(KeyOrder, LAMBDA tx : tx \in mempool)]
<1>1. request' = [request EXCEPT ![m] = r] /\ r.pc = "pending"
  BY DEF mempool_all
<1> HIDE DEF r
<1>2. LineGrows
  BY SameStore DEF MiningInv, mempool_all, vars
<1>3. RequestsOK'
  BY <1>1, <1>2, RequestChanged DEF MiningInv
<1>4. CanonicalTxs' = CanonicalTxs
  BY CanonicalIsLine DEF mempool_all, vars
<1> QED BY <1>2, <1>3, <1>4 DEF MiningInv, NothingConfirmedMissing, LineGrows, mempool_all

\* The template is built on the tip, which is on the line.
LEMMA TemplateStep ==
  ASSUME MiningInv, NEW m \in Miner, get_work(m)
  PROVE  MiningInv'
<1> DEFINE r == [pc |-> "mining", block |-> Template(m)]
<1>1. /\ request' = [request EXCEPT ![m] = r] /\ r.pc = "mining"
      /\ r.block.timestamp = GenesisTimestamp /\ r.block.prev_hash = tip.hash
  BY DEF get_work, Template
<1> HIDE DEF r
<1>2. UNCHANGED <<blocks, chainwork, heights, tip>>
  BY DEF get_work, work_template, StoreUnchanged
<1>3. LineGrows
  BY <1>2, SameStore DEF MiningInv
<1>4. tip.height \in 0..tip.height /\ heights[tip.height] = tip.hash
  BY LineFacts DEF MiningInv, LineInv
<1>5. DOMAIN request' = Miner /\ request'[m] = r
      /\ \A o \in Miner : o # m => request'[o] = request[o]
  BY <1>1 DEF MiningInv, RequestsOK
<1>6. ASSUME NEW o \in Miner
      PROVE  /\ request'[o].pc = "mining" =>
                  /\ request'[o].block.timestamp = GenesisTimestamp
                  /\ \E k \in 0..tip'.height : request'[o].block.prev_hash = heights'[k]
             /\ request'[o].pc = "prune" => TxsOf(<<request'[o].block>>) \subseteq CanonicalTxs'
  <2>1. CASE o = m
    <3>1. \E k \in 0..tip'.height : request'[o].block.prev_hash = heights'[k]
      BY <1>1, <1>2, <1>4, <1>5, <2>1
    <3> QED BY <1>1, <1>5, <2>1, <3>1
  <2>2. CASE o # m
    BY <1>3, <1>5, <2>2, RequestKept DEF MiningInv
  <2> QED BY <2>1, <2>2
<1>7. RequestsOK'
  BY <1>5, <1>6 DEF RequestsOK
<1>8. CanonicalTxs' = CanonicalTxs
  BY <1>2, CanonicalIsLine
<1> QED BY <1>3, <1>7, <1>8 DEF MiningInv, NothingConfirmedMissing, LineGrows, get_work

\* An accepted block is on the line, and its transactions are executed.
LEMMA SubmitStep ==
  ASSUME MiningInv, NEW m \in Miner, PostBlock(m)
  PROVE  MiningInv'
<1> DEFINE b == request[m].block
<1>1. request[m].pc = "mining" /\ submit_block(b)
  BY DEF PostBlock
<1>2. PICK k \in 0..tip.height : b.prev_hash = heights[k]
  BY <1>1 DEF MiningInv, RequestsOK
<1>3. b.timestamp \in U64
  BY <1>1, GenesisAssumption DEF MiningInv, RequestsOK
<1> HIDE DEF b
<1>4. LineGrows /\ (outcome'.kind = "Accepted" => TxsOf(<<b>>) \subseteq CanonicalTxs')
  BY <1>1, <1>2, <1>3, SubmitOnLine DEF MiningInv
<1>5. RequestsOK'
  <2>1. CASE outcome'.kind = "Accepted"
    <3> DEFINE r == [pc |-> "prune", block |-> b]
    <3>1. DOMAIN request' = Miner /\ request'[m] = r
          /\ \A o \in Miner : o # m => request'[o] = request[o]
      BY <2>1 DEF MiningInv, RequestsOK, PostBlock, b
    <3>2. ASSUME NEW o \in Miner
          PROVE  /\ request'[o].pc = "mining" =>
                      /\ request'[o].block.timestamp = GenesisTimestamp
                      /\ \E j \in 0..tip'.height : request'[o].block.prev_hash = heights'[j]
                 /\ request'[o].pc = "prune" =>
                      TxsOf(<<request'[o].block>>) \subseteq CanonicalTxs'
      <4>1. CASE o = m
        BY <1>4, <2>1, <3>1, <4>1
      <4>2. CASE o # m
        BY <1>4, <3>1, <4>2, RequestKept DEF MiningInv
      <4> QED BY <4>1, <4>2
    <3> QED BY <3>1, <3>2 DEF RequestsOK
  <2>2. CASE outcome'.kind # "Accepted"
    <3>1. request' = [request EXCEPT ![m] = NoRequest]
      BY <2>2 DEF PostBlock
    <3> QED BY <1>4, <3>1, RequestChanged DEF MiningInv, NoRequest
  <2> QED BY <2>1, <2>2
<1>6. UNCHANGED <<mempool, confirmed, forgotten>>
  BY DEF PostBlock
<1> QED BY <1>4, <1>5, <1>6 DEF MiningInv, NothingConfirmedMissing, LineGrows

\* mempool_remove takes only what was executed.
LEMMA PruneStep ==
  ASSUME MiningInv, NEW m \in Miner, Prune(m)
  PROVE  MiningInv'
<1>1. LineGrows
  BY SameStore DEF MiningInv, Prune, vars
<1>2. request' = [request EXCEPT ![m] = NoRequest]
  BY DEF Prune
<1>3. RequestsOK'
  BY <1>1, <1>2, RequestChanged DEF MiningInv, NoRequest
<1>4. CanonicalTxs' = CanonicalTxs
  BY CanonicalIsLine DEF Prune, vars
<1>5. /\ mempool' = mempool \ TxsOf(<<request[m].block>>)
      /\ UNCHANGED <<confirmed, forgotten>>
      /\ TxsOf(<<request[m].block>>) \subseteq CanonicalTxs
  BY DEF Prune, Buffered, MiningInv, RequestsOK
<1> QED BY <1>1, <1>3, <1>4, <1>5 DEF MiningInv, NothingConfirmedMissing, LineGrows

\* A restart counts what it takes out of the mempool as forgotten.
LEMMA RestartStep == MiningInv /\ RestartNode => MiningInv'
<1> SUFFICES ASSUME MiningInv, RestartNode PROVE MiningInv'
  OBVIOUS
<1>1. LineGrows
  BY SameStore DEF MiningInv, RestartNode, Restart, StoreUnchanged
<1>2. CanonicalTxs' = CanonicalTxs
  BY CanonicalIsLine DEF RestartNode, Restart, StoreUnchanged
<1>3. request' = [m \in Miner |-> IF request[m].pc = "mining" THEN request[m] ELSE NoRequest]
  BY DEF RestartNode
<1>4. ASSUME NEW o \in Miner
      PROVE  /\ request'[o].pc = "mining" =>
                  /\ request'[o].block.timestamp = GenesisTimestamp
                  /\ \E k \in 0..tip'.height : request'[o].block.prev_hash = heights'[k]
             /\ request'[o].pc = "prune" => TxsOf(<<request'[o].block>>) \subseteq CanonicalTxs'
  <2>1. CASE request[o].pc = "mining"
    <3>1. request'[o] = request[o]
      BY <1>3, <2>1
    <3> QED BY <1>1, <3>1, RequestKept DEF MiningInv
  <2>2. CASE request[o].pc # "mining"
    BY <1>3, <2>2 DEF NoRequest
  <2> QED BY <2>1, <2>2
<1>5. RequestsOK'
  BY <1>3, <1>4 DEF RequestsOK
<1>6. /\ forgotten' = forgotten \cup ((mempool \ mempool') \ CanonicalTxs)
      /\ confirmed' = confirmed
  BY DEF RestartNode
<1> QED BY <1>1, <1>2, <1>5, <1>6 DEF MiningInv, NothingConfirmedMissing, LineGrows

LEMMA MiningInvNext == MiningInv /\ [MiningNext]_mining_vars => MiningInv'
<1> SUFFICES ASSUME MiningInv, [MiningNext]_mining_vars PROVE MiningInv'
  OBVIOUS
<1>1. CASE \E w \in Address : fetch_account(w) \/ submit_tx(w)
  BY <1>1, WalletStep
<1>2. CASE \E m \in Miner : MinerStep(m)
  BY <1>2, ReadStep, TemplateStep, SubmitStep, PruneStep DEF MinerStep
<1>3. CASE Flush
  BY <1>3, FlushStep
<1>4. CASE RestartNode
  BY <1>4, RestartStep
<1>5. CASE UNCHANGED mining_vars
  BY <1>5, QuietMiningStep DEF mining_vars, node_state, vars, MiningInv, NothingConfirmedMissing
<1> QED BY <1>1, <1>2, <1>3, <1>4, <1>5 DEF MiningNext

-----------------------------------------------------------------------------
(* The theorem.                                                            *)

\* Whatever wallets pay, however the requests of the miners overlap and
\* whenever the node restarts, a payment that POST /tx/submit accepted is
\* pending or executed unless a restart forgot it: neither a template that
\* never becomes a block (get_work leaves the mempool alone) nor
\* mempool_remove for another block takes it away.
THEOREM NothingConfirmedMissingTheorem == MiningSpec => []NothingConfirmedMissing
<1>1. MiningInv => NothingConfirmedMissing
  BY DEF MiningInv
<1> QED BY <1>1, MiningInvInit, MiningInvNext, PTL DEF MiningSpec

=============================================================================
