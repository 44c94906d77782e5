----------------------------- MODULE MinerProofs -----------------------------
(***************************************************************************)
(* What a miner submits solves its template, for any number of threads,    *)
(* batch size, nonce space and sequence of templates and epochs; and where *)
(* the threads divide the nonce space, no nonce is tried by two of them.   *)
(***************************************************************************)
EXTENDS Miner, TLAPS

\* A template is in hand from the answer of the node to the submission.
WorkInHand ==
  phase \in {"prepare", "mine", "submit"} => \E w \in Template : work = Some(w)

\* The dataset kept is that of a template seen, and during a search that of
\* the present one.
DatasetCurrent ==
  /\ cached_dataset = None \/ \E w \in Template : cached_dataset = Some(Generate(w))
  /\ phase \in {"mine", "submit"} => \A w \in work : cached_dataset = Some(Generate(w))

\* A result solves the template, and there is one before the flag is up and
\* before anything is submitted.
ResultSolves ==
  /\ phase \in {"mine", "submit"} =>
       \A w \in work, n \in result : Solves(n, w, Generate(w))
  /\ phase = "mine" =>
       /\ found => result # None
       /\ \A t \in Thread : pc[t] = "flag" => result # None
  /\ phase = "submit" => result # None

\* The inductive invariant behind SubmittedSolves: mine_block sets the result
\* before the flag, and datasets are replaced when the epoch changes.
MinerInv ==
  /\ pc \in [Thread -> {"search", "flag", "done"}]
  /\ WorkInHand /\ DatasetCurrent /\ ResultSolves

-----------------------------------------------------------------------------

\* The dataset chosen for a template is the template's own: the epoch decides
\* (lines 68-81 of the CPU miner, 258-268 of the GPU miner).
LEMMA DatasetForFacts ==
  ASSUME NEW w \in Template,
         cached_dataset = None \/ \E v \in Template : cached_dataset = Some(Generate(v))
  PROVE  DatasetFor(w) = Some(Generate(w))
<1>1. CASE \E d \in cached_dataset : d.epoch = epoch[w]
  <2>1. PICK v \in Template : cached_dataset = Some(Generate(v))
    BY <1>1 DEF None
  <2>2. epoch[v] = epoch[w]
    BY <1>1, <2>1 DEF Some, Generate
  <2>3. Generate(v) = Generate(w)
    BY <2>2, OneBoundary DEF Generate
  <2> QED
    BY <1>1, <2>1, <2>3 DEF DatasetFor
<1>2. CASE ~ \E d \in cached_dataset : d.epoch = epoch[w]
  BY <1>2 DEF DatasetFor
<1> QED
  BY <1>1, <1>2

\* A reported nonce becomes the result only if the host's own hash of it, with
\* its own dataset, meets the target (mine_block_gpu).
LEMMA RecheckFacts ==
  ASSUME MinerInv, phase = "mine", NEW n, Recheck(n)
  PROVE  \/ /\ phase' = "mine" /\ result' = result
         \/ /\ phase' = "submit" /\ result' = Some(n)
            /\ \A w \in work : Solves(n, w, Generate(w))
<1>1. PICK w \in Template : work = Some(w)
  BY DEF MinerInv, WorkInHand
<1>2. cached_dataset = Some(Generate(w))
  BY <1>1 DEF MinerInv, DatasetCurrent, Some
<1> QED
  BY <1>1, <1>2 DEF Recheck, Some

\* A miner starts without work, dataset and result.
LEMMA MinerInvInit == MinerInit => MinerInv
BY DEF MinerInit, MinerInv, WorkInHand, DatasetCurrent, ResultSolves, None

\* Every step of a thread, of the device or of the outer loop keeps the
\* invariant.
LEMMA MinerInvNext == MinerInv /\ [MinerNext]_miner_vars => MinerInv'
<1> SUFFICES ASSUME MinerInv, [MinerNext]_miner_vars
             PROVE  MinerInv'
  OBVIOUS
<1> USE DEF MinerInv
<1>1. CASE \E w \in Template : Fetch(w)
  BY <1>1 DEF Fetch, WorkInHand, DatasetCurrent, ResultSolves
<1>2. CASE Prepare
  <2>1. PICK w \in Template : work = Some(w)
    BY <1>2 DEF Prepare, WorkInHand
  <2>2. cached_dataset' = Some(Generate(w))
    BY <1>2, <2>1, DatasetForFacts DEF Prepare, DatasetCurrent, Some
  <2>3. /\ phase' = "mine" /\ work' = Some(w) /\ result' = None /\ found' = FALSE
        /\ pc' = [t \in Thread |-> "search"]
    BY <1>2, <2>1 DEF Prepare
  <2> QED
    BY <2>1, <2>2, <2>3 DEF WorkInHand, DatasetCurrent, ResultSolves, Some, None
<1>3. CASE Submit
  BY <1>3 DEF Submit, WorkInHand, DatasetCurrent, ResultSolves
<1>4. CASE Exit
  BY <1>4 DEF Exit, WorkInHand, DatasetCurrent, ResultSolves
<1>5. ASSUME NEW t \in Thread, TryNonce(t)
      PROVE  MinerInv'
  <2>1. PICK w \in Template : work = Some(w)
    BY <1>5 DEF TryNonce, Mining, WorkInHand
  <2>2. cached_dataset = Some(Generate(w))
    BY <1>5, <2>1 DEF TryNonce, Mining, DatasetCurrent, Some
  <2>3. /\ phase = "mine" /\ phase' = "mine" /\ work' = work /\ found' = found
        /\ cached_dataset' = cached_dataset
    BY <1>5 DEF TryNonce, Mining
  <2>4. CASE Solves(nonce[t], w, Generate(w))
    <3>1. result' = Some(nonce[t]) /\ pc' = [pc EXCEPT ![t] = "flag"]
      BY <1>5, <2>1, <2>2, <2>4 DEF TryNonce, Some
    <3> QED
      BY <2>1, <2>2, <2>3, <2>4, <3>1
         DEF WorkInHand, DatasetCurrent, ResultSolves, Some, None, Solves
  <2>5. CASE ~ Solves(nonce[t], w, Generate(w))
    <3>1. result' = result /\ pc' = pc
      BY <1>5, <2>1, <2>2, <2>5 DEF TryNonce, Some
    <3> QED
      BY <2>1, <2>2, <2>3, <3>1 DEF WorkInHand, DatasetCurrent, ResultSolves, Solves
  <2> QED
    BY <2>4, <2>5
<1>6. ASSUME NEW t \in Thread, RaiseFlag(t)
      PROVE  MinerInv'
  <2>1. phase = "mine" /\ pc[t] = "flag" /\ result # None
    BY <1>6 DEF RaiseFlag, Mining, ResultSolves
  <2> QED
    BY <1>6, <2>1 DEF RaiseFlag, WorkInHand, DatasetCurrent, ResultSolves, Solves
<1>7. ASSUME NEW t \in Thread, SeeFlag(t)
      PROVE  MinerInv'
  BY <1>7 DEF SeeFlag, Mining, WorkInHand, DatasetCurrent, ResultSolves, Solves
<1>8. CASE Join
  BY <1>8 DEF Join, Mining, WorkInHand, DatasetCurrent, ResultSolves, Solves
<1>9. ASSUME phase = "mine", NEW n, Recheck(n),
             UNCHANGED <<work, cached_dataset, pc, found>>
      PROVE  MinerInv'
  <2>1. CASE phase' = "mine" /\ result' = result
    BY <1>9, <2>1 DEF WorkInHand, DatasetCurrent, ResultSolves, Solves
  <2>2. CASE /\ phase' = "submit" /\ result' = Some(n)
             /\ \A w \in work : Solves(n, w, Generate(w))
    BY <1>9, <2>2 DEF WorkInHand, DatasetCurrent, ResultSolves, Some, None, Solves
  <2> QED
    BY <1>9, <2>1, <2>2, RecheckFacts
<1>10. CASE TryBatch
  <2>1. phase = "mine" /\ UNCHANGED <<work, cached_dataset, pc, found>>
    BY <1>10 DEF TryBatch, Mining
  <2>2. CASE \E n : Recheck(n)
    BY <2>1, <2>2, <1>9
  <2>3. CASE UNCHANGED <<result, phase>>
    BY <2>1, <2>3 DEF WorkInHand, DatasetCurrent, ResultSolves, Solves
  <2> QED
    BY <1>10, <2>2, <2>3 DEF TryBatch
<1>11. CASE Glitch
  BY <1>11, <1>9 DEF Glitch, Mining
<1>12. CASE UNCHANGED miner_vars
  BY <1>12 DEF miner_vars, WorkInHand, DatasetCurrent, ResultSolves, Solves
<1> QED
  BY <1>1, <1>2, <1>3, <1>4, <1>5, <1>6, <1>7, <1>8, <1>10, <1>11, <1>12
     DEF MinerNext, ThreadStep

\* Whatever the threads, batches, epochs and wrong reports of the device,
\* both miners submit only nonces that solve the block with the dataset of
\* its own epoch, and the `expect` in mine_block never panics.
THEOREM SubmittedSolvesTheorem == MinerSpec => []SubmittedSolves
<1>1. MinerInv => SubmittedSolves
  <2> SUFFICES ASSUME MinerInv, phase = "submit"
               PROVE  \E w \in work, n \in result : Solves(n, w, Generate(w))
    BY DEF SubmittedSolves
  <2>1. PICK w \in Template : work = Some(w)
    BY DEF MinerInv, WorkInHand
  <2>2. PICK n \in result : TRUE
    BY DEF MinerInv, ResultSolves, None
  <2> QED
    BY <2>1, <2>2 DEF MinerInv, ResultSolves, Some
<1> QED
  BY <1>1, MinerInvInit, MinerInvNext, PTL DEF MinerSpec

-----------------------------------------------------------------------------
(* The split of the nonce space.                                           *)

\* What thread t is to try: t, t + threads, t + 2*threads, ...
Stride(t) == {q * Threads + t : q \in Nat}

SplitInv ==
  /\ nonce \in [Thread -> Int]
  /\ tried \in [Thread -> SUBSET Int]
  /\ \A t \in Thread : tried[t] \subseteq Stride(t)
  /\ Mining("cpu") => \A t \in Thread : nonce[t] \in Stride(t) \cap Nonce

\* Two strides have no nonce in common.
LEMMA StridesApart ==
  ASSUME NEW t \in Thread, NEW u \in Thread, t # u
  PROVE  Stride(t) \cap Stride(u) = {}
<1>1. Threads \in Nat
  BY MinerAssumption
<1>2. SUFFICES ASSUME NEW q \in Nat, NEW r \in Nat, q * Threads + t = r * Threads + u
               PROVE  FALSE
  BY DEF Stride
<1>3. t \in Int /\ u \in Int /\ 0 <= t /\ t < Threads /\ 0 <= u /\ u < Threads
  BY <1>1 DEF Thread
<1>4. (q - r) * Threads = u - t
  <2>1. (q - r) * Threads = q * Threads - r * Threads
    BY <1>1
  <2>2. q * Threads \in Int /\ r * Threads \in Int
    BY <1>1
  <2> QED BY <1>2, <1>3, <2>1, <2>2
<1>5. CASE q = r
  <2>1. q * Threads \in Int
    BY <1>1
  <2> QED BY <1>2, <1>3, <1>5, <2>1
<1>6. CASE q > r
  <2>1. (q - r) * Threads >= Threads
    <3> DEFINE d == q - r
    <3>1. d \in Nat /\ d >= 1
      BY <1>6
    <3> HIDE DEF d
    <3>2. d * Threads >= Threads
      BY <1>1, <3>1
    <3> QED BY <3>2 DEF d
  <2> QED BY <1>1, <1>3, <1>4, <2>1
<1>7. CASE q < r
  <2>1. (r - q) * Threads >= Threads
    <3> DEFINE d == r - q
    <3>1. d \in Nat /\ d >= 1
      BY <1>7
    <3> HIDE DEF d
    <3>2. d * Threads >= Threads
      BY <1>1, <3>1
    <3> QED BY <3>2 DEF d
  <2>2. (r - q) * Threads = t - u
    BY <1>1, <1>2, <1>3
  <2> QED BY <1>1, <1>3, <2>1, <2>2
<1> QED BY <1>5, <1>6, <1>7

\* A wrapping step stays in its stride where the threads divide the space.
LEMMA StrideWraps ==
  ASSUME NEW K \in Nat \ {0}, NonceSpace = K * Threads,
         NEW t \in Thread, NEW n \in Stride(t) \cap Nonce
  PROVE  (n + Threads) % NonceSpace \in Stride(t) \cap Nonce
<1>1. Threads \in Nat /\ Threads > 0 /\ NonceSpace \in Nat /\ NonceSpace > 0
  BY MinerAssumption
<1>2. PICK q \in Nat : n = q * Threads + t
  BY DEF Stride
<1>3. t \in Int /\ 0 <= t /\ t < Threads /\ n \in Int /\ 0 <= n /\ n < NonceSpace
  BY <1>1 DEF Thread, Nonce
<1>4. Threads <= NonceSpace
  BY <1>1
<1>5. CASE n + Threads < NonceSpace
  <2>1. (n + Threads) % NonceSpace = n + Threads
    BY <1>1, <1>3, <1>5
  <2>2. n + Threads = (q + 1) * Threads + t
    BY <1>1, <1>2, <1>3
  <2>3. n + Threads \in Stride(t)
    BY <2>2 DEF Stride
  <2>4. n + Threads \in Nonce
    BY <1>1, <1>3, <1>5 DEF Nonce
  <2> QED BY <2>1, <2>3, <2>4
<1>6. CASE n + Threads >= NonceSpace
  <2> DEFINE m == n + Threads - NonceSpace
  <2>1. m \in Int /\ 0 <= m /\ m < NonceSpace
    BY <1>1, <1>3, <1>4, <1>6
  <2>2. (n + Threads) % NonceSpace = m
    <3>1. n + Threads = NonceSpace + m
      BY <1>1, <1>3
    <3> HIDE DEF m
    <3> QED BY <1>1, <2>1, <3>1
  <2>3. m = (q + 1 - K) * Threads + t
    BY <1>1, <1>2, <1>3
  <2>4. q + 1 - K \in Nat
    <3>1. CASE q + 1 < K
      <4> DEFINE d == K - (q + 1)
      <4>1. d \in Nat /\ d >= 1
        BY <3>1
      <4>2. m = t - d * Threads
        BY <1>1, <1>3, <2>3
      <4> HIDE DEF d, m
      <4>3. d * Threads >= Threads
        BY <1>1, <4>1
      <4> QED BY <1>1, <1>3, <2>1, <4>1, <4>2, <4>3
    <3> QED BY <3>1
  <2> HIDE DEF m
  <2>5. m \in Stride(t)
    BY <2>3, <2>4 DEF Stride
  <2>6. m \in Nonce
    BY <1>1, <2>1 DEF Nonce
  <2> QED BY <2>2, <2>5, <2>6
<1> QED BY <1>1, <1>3, <1>5, <1>6

LEMMA SplitInvNext ==
  ASSUME NEW K \in Nat \ {0}, NonceSpace = K * Threads
  PROVE  SplitInv /\ [MinerNext]_miner_vars => SplitInv'
<1> SUFFICES ASSUME SplitInv, [MinerNext]_miner_vars PROVE SplitInv'
  OBVIOUS
<1>0. Threads \in Nat \ {0} /\ NonceSpace \in Nat \ {0} /\ BatchSize \in Nat
  BY MinerAssumption
<1>1. CASE Prepare
  <2>1. \A t \in Thread : t \in Stride(t) \cap Nonce
    <3> TAKE t \in Thread
    <3>1. t = 0 * Threads + t /\ Threads <= NonceSpace
      BY <1>0 DEF Thread
    <3> QED BY <1>0, <3>1 DEF Stride, Nonce, Thread
  <2>2. nonce' = [t \in Thread |-> t] /\ tried' = [t \in Thread |-> {}]
    BY <1>1 DEF Prepare, StartNonce
  <2> QED BY <1>0, <2>1, <2>2 DEF SplitInv, Thread
<1>2. ASSUME NEW t \in Thread, TryNonce(t) PROVE SplitInv'
  <2>1. Mining("cpu") /\ nonce[t] \in Stride(t) \cap Nonce /\ nonce[t] \in Int
    BY <1>2 DEF TryNonce, SplitInv
  <2>2. tried' = [tried EXCEPT ![t] = @ \cup {nonce[t]}]
    BY <1>2 DEF TryNonce
  <2>3. nonce' = nonce \/ nonce' = [nonce EXCEPT ![t] = (nonce[t] + Threads) % NonceSpace]
    BY <1>2 DEF TryNonce
  <2>4. (nonce[t] + Threads) % NonceSpace \in Stride(t) \cap Nonce
    BY <2>1, StrideWraps
  <2>5. (nonce[t] + Threads) % NonceSpace \in Int
    BY <1>0, <2>1
  <2>6. nonce' \in [Thread -> Int] /\ tried' \in [Thread -> SUBSET Int]
    BY <2>1, <2>2, <2>3, <2>5 DEF SplitInv
  <2>7. \A u \in Thread : tried'[u] \subseteq Stride(u)
    BY <2>1, <2>2 DEF SplitInv
  <2>8. \A u \in Thread : nonce'[u] \in Stride(u) \cap Nonce
    BY <2>1, <2>3, <2>4 DEF SplitInv
  <2> QED BY <2>6, <2>7, <2>8 DEF SplitInv
<1>3. CASE TryBatch \/ Glitch
  <2>1. device' = "gpu" /\ tried' = tried
    BY <1>3 DEF TryBatch, Glitch, Mining
  <2>2. nonce' = nonce \/ nonce' = [nonce EXCEPT ![0] = (nonce[0] + BatchSize) % NonceSpace]
    BY <1>3 DEF TryBatch, Glitch, Recheck
  <2>3. nonce' \in [Thread -> Int]
    <3>1. 0 \in Thread
      BY <1>0 DEF Thread
    <3>2. (nonce[0] + BatchSize) % NonceSpace \in Int
      BY <1>0, <3>1 DEF SplitInv
    <3> QED BY <2>2, <3>2 DEF SplitInv
  <2> QED BY <2>1, <2>3 DEF SplitInv, Mining
<1>4. CASE UNCHANGED <<nonce, tried>> /\ (Mining("cpu")' => Mining("cpu"))
  BY <1>4 DEF SplitInv
<1>5. (\E w \in Template : Fetch(w)) \/ Submit \/ Exit \/ Join \/ UNCHANGED miner_vars
        => UNCHANGED <<nonce, tried>> /\ (Mining("cpu")' => Mining("cpu"))
  BY DEF Fetch, Submit, Exit, Join, miner_vars, Mining
<1>6. \A t \in Thread : RaiseFlag(t) \/ SeeFlag(t) =>
        UNCHANGED <<nonce, tried>> /\ (Mining("cpu")' => Mining("cpu"))
  BY DEF RaiseFlag, SeeFlag, Mining
<1> QED BY <1>1, <1>2, <1>3, <1>4, <1>5, <1>6 DEF MinerNext, ThreadStep

\* mine_block really splits the nonce space: for any number of threads that
\* divides it, no nonce of a search is hashed by two threads, also after they
\* have wrapped around.
THEOREM NonceSpaceSplitTheorem ==
  ASSUME NEW CONSTANT K \in Nat \ {0}, NonceSpace = K * Threads
  PROVE  MinerSpec => []NonceSpaceSplit
<1>1. MinerInit => SplitInv
  BY MinerAssumption DEF MinerInit, SplitInv, Mining, Thread
<1>2. SplitInv /\ [MinerNext]_miner_vars => SplitInv'
  BY SplitInvNext
<1>3. SplitInv => NonceSpaceSplit
  BY StridesApart DEF SplitInv, NonceSpaceSplit
<1> QED BY <1>1, <1>2, <1>3, PTL DEF MinerSpec

=============================================================================
