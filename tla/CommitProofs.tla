---------------------------- MODULE CommitProofs ----------------------------
(***************************************************************************)
(* ImplementsAtomic for every genesis configuration and every set of       *)
(* blocks: until a crash interrupts a call, the writes of submit_block,    *)
(* with template requests reading in between, come to what the atomic call *)
(* of module Chain does.                                                   *)
(*                                                                         *)
(* While a call runs, the invariant says what is left to be written: the   *)
(* remaining overlay on top of the accounts, and the remaining heights on  *)
(* top of the index, are what the atomic call would leave.                 *)
(*                                                                         *)
(* Then what a crash leaves of the store (SurvivesCrash), and the tip a    *)
(* template is built on (TemplateFollowsTipTheorem).                       *)
(***************************************************************************)
EXTENDS Commit, ChainProofs

-----------------------------------------------------------------------------
(* The invariant.                                                          *)

\* The dataset cache of the abstract call.
SettledCache == IF torn THEN {} ELSE IF call = NoCall THEN dataset_cache ELSE call.cache

\* What holds of the store at any moment of a call.
TreeInv ==
  /\ DOMAIN blocks \subseteq Hash /\ blocks \in [DOMAIN blocks -> Block]
  /\ \A h \in DOMAIN blocks : /\ blocks[h].height = Len(h) /\ Len(h) < EpochLength
                              /\ \A k \in 0..Len(h) : SubSeq(h, 1, k) \in DOMAIN blocks
  /\ DOMAIN heights \subseteq 0..(EpochLength - 1)
  /\ heights = [k \in DOMAIN heights |-> heights[k]]
  /\ \A d \in dataset_cache : d.epoch = 0
  /\ tip.hash \in DOMAIN blocks /\ tip.height \in Nat
  /\ accounts \in Accounts

\* Between two calls.
Idle == /\ call = NoCall /\ settled = Trees
        /\ DOMAIN chainwork = DOMAIN blocks

\* A call that has stored its block.
Pending(b) ==
  /\ b \in Submittable
  /\ Atomic!WithinBound(b) /\ Atomic!Storable(b)
  /\ blocks = Insert(settled.blocks, id(b), b)
  /\ dataset_cache = Atomic!CacheAfter(b.height) /\ dataset_cache # {}
  /\ DOMAIN settled.chainwork = DOMAIN settled.blocks
  /\ tip = settled.tip

Storing ==
  /\ call.pc = "store" /\ Pending(call.block)
  /\ chainwork = settled.chainwork /\ heights = settled.heights
  /\ accounts = settled.accounts

\* The accounts the call will end with.
Target(b) == Atomic!SimulateReorg(blocks, settled.tip.hash, id(b))

AccountsLeft(b) ==
  /\ Target(b) \in Simulation /\ Target(b).ok
  /\ \A a \in Address :
       (IF a \in DOMAIN call.overlay THEN call.overlay[a] ELSE accounts[a])
         = Target(b).accounts[a]

\* The heights of the hashes in a list.
HeightsOf(hashes) == {Len(hashes[i]) : i \in DOMAIN hashes}

\* An index after the undone heights are removed and the applied ones set.
Reindexed(index, undo, apply, new_tip) ==
  [k \in (DOMAIN index \ HeightsOf(undo)) \cup HeightsOf(apply) |->
     IF k \in HeightsOf(apply) THEN SubSeq(new_tip, 1, k) ELSE index[k]]

HeightsLeft(b) ==
  /\ call.undo \in Seq(DOMAIN blocks) /\ call.apply \in Seq(DOMAIN blocks)
  /\ \A i \in DOMAIN call.apply : call.apply[i] = SubSeq(id(b), 1, Len(call.apply[i]))
  /\ Atomic!ReindexedHeights(settled.tip.hash, id(b))
       = Reindexed(heights, call.undo, call.apply, id(b))

Committing ==
  /\ call.pc = "commit" /\ Pending(call.block)
  /\ DOMAIN call = {"pc", "block", "cache", "overlay", "undo", "apply", "result"}
  /\ Atomic!OutworksTip(call.block)
  /\ chainwork = Insert(settled.chainwork, id(call.block), Atomic!ThisWork(call.block))
  /\ AccountsLeft(call.block) /\ HeightsLeft(call.block)
  /\ call.result = [kind    |-> "Accepted", hash |-> id(call.block),
                    height  |-> call.block.height,
                    reorged |-> settled.tip.hash # call.block.prev_hash,
                    requeue |-> Requeue(blocks, settled.tip.hash, id(call.block))]

CommitInv == torn \/ (torn = FALSE /\ TreeInv /\ (Idle \/ Storing \/ Committing))

-----------------------------------------------------------------------------
(* The operators of the instance.                                          *)

LEMMA SameHash == \A b : Atomic!id(b) = id(b)
BY DEF Atomic!id, id

LEMMA SamePaths ==
  \A s, t : Atomic!undo_list(s, t) = undo_list(s, t) /\ Atomic!apply_list(s, t) = apply_list(s, t)
BY DEF Atomic!undo_list, undo_list, Atomic!apply_list, apply_list, Atomic!ForkHeight,
       ForkHeight, Atomic!block_ancestor, block_ancestor

LEMMA SameInsert == \A t, k, v : Atomic!Insert(t, k, v) = Insert(t, k, v)
BY DEF Atomic!Insert, Insert

LEMMA SameRoot == \A txs : Atomic!merkle_root(txs) = merkle_root(txs)
BY DEF Atomic!merkle_root, merkle_root, Atomic!NextLevel, NextLevel

LEMMA SameBlocksAt ==
  \A t, hs : Atomic!BlocksAt(t, hs) = BlocksAt(t, hs) /\ Atomic!TxsOf(hs) = TxsOf(hs)
BY DEF Atomic!BlocksAt, BlocksAt, Atomic!TxsOf, TxsOf

LEMMA SameApply == \A acc, bs : Atomic!ApplyBlocks(acc, bs) = ApplyBlocks(acc, bs)
BY DEF Atomic!ApplyBlocks, ApplyBlocks, Atomic!ApplyBlock, ApplyBlock, Atomic!ApplyTxs,
       ApplyTxs, Atomic!TxApplies, TxApplies, Atomic!ApplyTx, ApplyTx, Atomic!SpendTx,
       SpendTx, Atomic!Credit, Credit, Atomic!SatAdd, SatAdd, Atomic!Wrap, Wrap,
       Atomic!AtMost, AtMost, Atomic!block_reward, block_reward, Atomic!AtLeast, AtLeast

LEMMA SameUndo == \A acc, bs : Atomic!UndoBlocks(acc, bs) = UndoBlocks(acc, bs)
BY DEF Atomic!UndoBlocks, UndoBlocks, Atomic!UndoBlock, UndoBlock, Atomic!UndoTx, UndoTx,
       Atomic!Debit, Debit, Atomic!RefundTx, RefundTx, Atomic!SatAdd, SatAdd,
       Atomic!SatSub, SatSub, Atomic!Wrap, Wrap, Atomic!AtMost, AtMost,
       Atomic!block_reward, block_reward, Atomic!AtLeast, AtLeast

LEMMA SameNext ==
  /\ \A d, s, t, w : Atomic!next_difficulty(d, s, t, w) = next_difficulty(d, s, t, w)
  /\ \A x, y : Atomic!SatSub(x, y) = SatSub(x, y)
  /\ Atomic!Window = Window
BY DEF Atomic!SatSub, SatSub, Atomic!Window, Window, Atomic!AtLeast, AtLeast, Atomic!AtMost,
       AtMost, Atomic!next_difficulty, next_difficulty, Atomic!TargetTimespan, TargetTimespan,
       Atomic!ClampedTimespan, ClampedTimespan, Atomic!Wrap, Wrap, Atomic!SatMul, SatMul

\* Between two calls each test of submit_block has the outcome of the abstract
\* one.
LEMMA IdleCache ==
  ASSUME torn = FALSE, Idle
  PROVE  /\ \A h : Atomic!DatasetAvailable(h) <=> DatasetAvailable(h)
         /\ \A h : Atomic!CacheAfter(h) = CacheAfter(h)
<1>1. SettledCache = dataset_cache
  BY DEF Idle, SettledCache
<1>2. settled.heights = heights
  BY DEF Idle, Trees
<1>3. \A e : Atomic!IsCached(e) <=> \E d \in SettledCache : d.epoch = e
  BY DEF Atomic!IsCached, SettledCache
<1>4. \A e : Atomic!IsCached(e) <=> IsCached(e)
  BY <1>1, <1>3 DEF IsCached
<1>5. \A h : Atomic!epoch_of(h) = epoch_of(h)
  BY DEF Atomic!epoch_of, epoch_of
<1>6. \A h : Atomic!CacheAfter(h) =
               IF Atomic!IsCached(epoch_of(h)) THEN SettledCache
               ELSE {[epoch |-> epoch_of(h),
                      seed  |-> IF epoch_of(h) = 0 THEN ZERO
                                ELSE settled.heights[epoch_of(h) * EpochLength]]}
  BY <1>5 DEF Atomic!CacheAfter, SettledCache
<1>7. \A h : Atomic!DatasetAvailable(h) <=>
               \/ Atomic!IsCached(epoch_of(h))
               \/ epoch_of(h) = 0
               \/ epoch_of(h) * EpochLength \in DOMAIN settled.heights
  BY <1>5 DEF Atomic!DatasetAvailable
<1> QED BY <1>1, <1>2, <1>4, <1>6, <1>7, Zenon DEF DatasetAvailable, CacheAfter

LEMMA IdleChecks ==
  ASSUME torn = FALSE, Idle, NEW b
  PROVE  /\ Atomic!NotGenesis(b) <=> NotGenesis(b)
         /\ Atomic!DatasetAvailable(b.height) <=> DatasetAvailable(b.height)
         /\ Atomic!CacheAfter(b.height) = CacheAfter(b.height)
         /\ Atomic!Fresh(b) <=> Fresh(b)
         /\ Atomic!StatelessValid(b) <=> StatelessValid(b)
         /\ Atomic!ParentStored(b) <=> ParentStored(b)
         /\ Atomic!FollowsParent(b) <=> FollowsParent(b)
         /\ Atomic!Storable(b) <=> Storable(b)
         /\ Atomic!WithinBound(b) <=> WithinBound(b)
         /\ Atomic!id(b) = id(b)
         /\ settled.blocks = blocks
<1>1. settled.blocks = blocks /\ Atomic!id(b) = id(b)
  BY SameHash DEF Idle, Trees
<1>2. /\ Atomic!DatasetAvailable(b.height) <=> DatasetAvailable(b.height)
      /\ Atomic!CacheAfter(b.height) = CacheAfter(b.height)
  BY IdleCache, Zenon
<1>3. Atomic!NotGenesis(b) <=> NotGenesis(b)
  BY DEF Atomic!NotGenesis, NotGenesis
<1>4. Atomic!Fresh(b) <=> Fresh(b)
  BY <1>1, <1>2, <1>3 DEF Atomic!Fresh, Fresh
<1>5. Atomic!StatelessValid(b) <=> StatelessValid(b)
  BY SameRoot DEF Atomic!StatelessValid, StatelessValid
<1>6. Atomic!ParentStored(b) <=> ParentStored(b)
  BY <1>1 DEF Atomic!ParentStored, ParentStored
<1>7. Atomic!expected_difficulty_after(b.prev_hash) = expected_difficulty_after(b.prev_hash)
  BY <1>1, SameNext DEF Atomic!expected_difficulty_after, expected_difficulty_after,
     Atomic!block_ancestor, block_ancestor
<1>8. Atomic!FollowsParent(b) <=> FollowsParent(b)
  BY <1>1, <1>7 DEF Atomic!FollowsParent, FollowsParent
<1>9. Atomic!Storable(b) <=> Storable(b)
  BY <1>4, <1>5, <1>6, <1>8 DEF Atomic!Storable, Storable
<1>10. Atomic!WithinBound(b) <=> WithinBound(b)
  BY <1>1 DEF Atomic!WithinBound, WithinBound, Atomic!Cardinality, Cardinality
<1> QED BY <1>1, <1>2, <1>3, <1>4, <1>5, <1>6, <1>8, <1>9, <1>10

-----------------------------------------------------------------------------
(* Reads and returns without a write.                                      *)

\* A height whose dataset is available lies in epoch 0, also while a call is
\* under way; once a dataset is cached it stays.
LEMMA CacheInFirstEpoch ==
  ASSUME TreeInv, NEW h \in Nat, DatasetAvailable(h)
  PROVE  /\ h < EpochLength
         /\ \A d \in CacheAfter(h) : d.epoch = 0
         /\ CacheAfter(h) # {}
         /\ dataset_cache # {} => CacheAfter(h) = dataset_cache
<1> DEFINE e == epoch_of(h)
<1>1. EpochLength \in Nat /\ EpochLength > 0
  BY EpochAssumption
<1>2. e \in Nat /\ h < (e + 1) * EpochLength
  BY <1>1 DEF epoch_of
<1>3. e = 0
  <2>1. CASE IsCached(e)
    BY <2>1 DEF IsCached, TreeInv
  <2>2. CASE e * EpochLength \in DOMAIN heights
    <3>1. e * EpochLength < EpochLength
      BY <1>1, <1>2, <2>2 DEF TreeInv
    <3> HIDE DEF e
    <3> QED BY <1>1, <1>2, <3>1
  <2> QED BY <2>1, <2>2 DEF DatasetAvailable
<1>4. CASE IsCached(0)
  BY <1>1, <1>2, <1>3, <1>4 DEF CacheAfter, IsCached, TreeInv
<1>5. CASE ~ IsCached(0)
  <2>1. dataset_cache = {}
    BY <1>5 DEF IsCached, TreeInv
  <2>2. CacheAfter(h) = {[epoch |-> 0, seed |-> ZERO]}
    BY <1>3, <1>5 DEF CacheAfter
  <2> QED BY <1>1, <1>2, <1>3, <2>1, <2>2
<1> QED BY <1>4, <1>5

LEMMA QuietTree ==
  ASSUME TreeInv, StoreUnchanged, \A d \in dataset_cache' : d.epoch = 0
  PROVE  TreeInv'
BY DEF TreeInv, StoreUnchanged

\* Each return before the first write is the same return of the atomic call.
LEMMA ReturnStep ==
  ASSUME torn = FALSE, TreeInv, Idle, NEW b \in Submittable, WithinBound(b),
         ReturnWithoutWrite(b)
  PROVE  Atomic!Next /\ torn' = FALSE /\ TreeInv' /\ Idle'
<1>1. /\ call' = NoCall /\ torn' = FALSE /\ settled' = settled /\ StoreUnchanged
      /\ call = NoCall /\ settled = Trees
  BY DEF ReturnWithoutWrite, Idle, RejectBeforeHash, ReturnAlreadyKnown, RejectStateless,
     ReturnOrphan, RejectContext, RejectMissingWork
<1>2. ~ RejectMissingWork(b)
  BY DEF RejectMissingWork, ParentHasWork, Storable, ParentStored, Idle
<1>3. Atomic!StoreUnchanged
  BY <1>1 DEF Atomic!StoreUnchanged
<1>4. b.height \in Nat
  BY IdFacts DEF Block
<1>5. (\A d \in dataset_cache' : d.epoch = 0)
  BY <1>2, <1>4, CacheInFirstEpoch DEF ReturnWithoutWrite, RejectBeforeHash,
     ReturnAlreadyKnown, RejectStateless, ReturnOrphan, RejectContext, Fresh, TreeInv
<1>6. TreeInv'
  BY <1>1, <1>5, QuietTree
<1>7. Idle'
  BY <1>1 DEF Idle, StoreUnchanged, Trees, NoCall
<1>8. Atomic!submit_block(b)
  <2> USE <1>1, <1>3, IdleChecks DEF Atomic!submit_block
  <2>1. CASE RejectBeforeHash(b)
    BY <2>1 DEF RejectBeforeHash, Atomic!RejectBeforeHash
  <2>2. CASE ReturnAlreadyKnown(b)
    BY <2>2 DEF ReturnAlreadyKnown, Atomic!ReturnAlreadyKnown
  <2>3. CASE RejectStateless(b)
    BY <2>3 DEF RejectStateless, Atomic!RejectStateless
  <2>4. CASE ReturnOrphan(b)
    BY <2>4 DEF ReturnOrphan, Atomic!ReturnOrphan
  <2>5. CASE RejectContext(b)
    BY <2>5 DEF RejectContext, Atomic!RejectContext
  <2> QED BY <1>2, <2>1, <2>2, <2>3, <2>4, <2>5 DEF ReturnWithoutWrite
<1> QED BY <1>1, <1>6, <1>7, <1>8, IdleChecks DEF Atomic!Next, Atomic!Submit

-----------------------------------------------------------------------------
(* Writes.                                                                 *)

\* What the abstract call sees of a step that is not its return.
Unseen == settled' = settled /\ outcome' = outcome /\ SettledCache' = SettledCache

LEMMA UnseenStutters == ASSUME Unseen, torn' = torn PROVE UNCHANGED Atomic!vars
BY DEF Unseen, SettledCache, Atomic!vars

\* The tests of the abstract call only depend on what it sees.
LEMMA SettledSame ==
  ASSUME NEW b, settled' = settled, SettledCache' = SettledCache
  PROVE  /\ Atomic!WithinBound(b)' = Atomic!WithinBound(b)
         /\ Atomic!CacheAfter(b.height)' = Atomic!CacheAfter(b.height)
         /\ Atomic!Storable(b)' = Atomic!Storable(b)
         /\ Atomic!OutworksTip(b)' = Atomic!OutworksTip(b)
         /\ Atomic!ThisWork(b)' = Atomic!ThisWork(b)
<1>1. Atomic!DatasetAvailable(b.height)' = Atomic!DatasetAvailable(b.height)
  BY DEF Atomic!DatasetAvailable, Atomic!IsCached, SettledCache
<1>2. Atomic!FollowsParent(b)' = Atomic!FollowsParent(b)
  BY DEF Atomic!FollowsParent, Atomic!expected_difficulty_after
<1>3. Atomic!Storable(b)' = Atomic!Storable(b)
  BY <1>1, <1>2 DEF Atomic!Storable, Atomic!Fresh, Atomic!StatelessValid, Atomic!ParentStored
<1>4. Atomic!CacheAfter(b.height)' = Atomic!CacheAfter(b.height)
  BY DEF Atomic!CacheAfter, Atomic!IsCached, SettledCache
<1> QED BY <1>3, <1>4 DEF Atomic!WithinBound, Atomic!OutworksTip, Atomic!ThisWork

LEMMA PendingStays ==
  ASSUME NEW b, Unseen, Pending(b), UNCHANGED <<blocks, dataset_cache, tip>>
  PROVE  Pending(b)'
<1>1. settled' = settled /\ SettledCache' = SettledCache
  BY DEF Unseen
<1> QED BY <1>1, SettledSame DEF Pending

\* Only the first write: the block, whose call is then pending.
LEMMA StoreBlockStep ==
  ASSUME torn = FALSE, TreeInv, Idle, NEW b \in Submittable, WithinBound(b), store_block(b)
  PROVE  UNCHANGED Atomic!vars /\ torn' = FALSE /\ TreeInv' /\ Storing'
<1>1. /\ call' = [pc |-> "store", block |-> b, cache |-> dataset_cache]
      /\ call' # NoCall /\ call = NoCall
      /\ blocks' = Insert(blocks, id(b), b)
      /\ dataset_cache' = CacheAfter(b.height)
      /\ UNCHANGED <<chainwork, heights, tip, accounts, outcome, settled, torn>>
      /\ Storable(b) /\ settled = Trees
  <2>1. call' # NoCall
    <3>1. call'.pc = "store" /\ NoCall.pc = "none"
      BY DEF store_block, NoCall
    <3> QED BY <3>1
  <2> QED BY <2>1 DEF store_block, Idle
<1>2. SettledCache' = SettledCache
  BY <1>1 DEF SettledCache
<1>3. Unseen
  BY <1>1, <1>2 DEF Unseen
<1>4. UNCHANGED Atomic!vars
  BY <1>1, <1>3, UnseenStutters
<1>5. /\ b \in Block /\ b.height \in Nat /\ id(b) \in Hash
      /\ Len(b.prev_hash) \in Nat /\ Len(id(b)) = Len(b.prev_hash) + 1
      /\ b.prev_hash \in DOMAIN blocks /\ id(b) \notin DOMAIN blocks
      /\ blocks[b.prev_hash].height + 1 = b.height
  BY <1>1, IdFacts DEF Storable, Fresh, ParentStored, FollowsParent, Block
<1>6. /\ b.height < EpochLength /\ dataset_cache' # {}
      /\ \A d \in dataset_cache' : d.epoch = 0
  BY <1>1, <1>5, CacheInFirstEpoch DEF Storable, Fresh
<1>7. b.height = Len(id(b))
  BY <1>5 DEF TreeInv
<1>8. /\ DOMAIN blocks' = DOMAIN blocks \cup {id(b)} /\ blocks'[id(b)] = b
      /\ \A h \in DOMAIN blocks : blocks'[h] = blocks[h]
      /\ blocks' \in [DOMAIN blocks' -> Block] /\ DOMAIN blocks' \subseteq Hash
  BY <1>1, <1>5 DEF Insert, TreeInv
<1>9. \A k \in 0..Len(id(b)) : SubSeq(id(b), 1, k) \in DOMAIN blocks'
  <2> TAKE k \in 0..Len(id(b))
  <2>1. CASE k = Len(id(b))
    BY <1>8, <2>1, IdFacts
  <2>2. CASE k # Len(id(b))
    <3>1. k \in 0..Len(b.prev_hash)
      BY <1>5, <2>2
    <3>2. SubSeq(id(b), 1, k) = SubSeq(b.prev_hash, 1, k)
      BY <3>1, IdFacts
    <3> QED BY <1>5, <1>8, <3>1, <3>2 DEF TreeInv
  <2> QED BY <2>1, <2>2
<1>10. TreeInv'
  <2>1. \A h \in DOMAIN blocks' :
          /\ blocks'[h].height = Len(h) /\ Len(h) < EpochLength
          /\ \A k \in 0..Len(h) : SubSeq(h, 1, k) \in DOMAIN blocks'
    <3> TAKE h \in DOMAIN blocks'
    <3>1. CASE h = id(b)
      BY <1>6, <1>7, <1>8, <1>9, <3>1
    <3>2. CASE h \in DOMAIN blocks
      BY <1>8, <3>2 DEF TreeInv
    <3> QED BY <1>8, <3>1, <3>2
  <2>2. tip'.hash \in DOMAIN blocks' /\ tip'.height \in Nat
    BY <1>1, <1>8 DEF TreeInv
  <2> QED BY <1>1, <1>6, <1>8, <2>1, <2>2 DEF TreeInv
<1>11. Pending(b)'
  <2>1. /\ Atomic!Storable(b) /\ Atomic!WithinBound(b)
        /\ Atomic!CacheAfter(b.height) = CacheAfter(b.height)
    BY <1>1, IdleChecks
  <2>2. settled' = settled /\ SettledCache' = SettledCache
    BY <1>1, <1>2
  <2>3. /\ settled'.blocks = blocks /\ settled'.tip = tip
        /\ DOMAIN settled'.chainwork = DOMAIN settled'.blocks
    BY <1>1 DEF Trees, Idle
  <2> QED BY <1>1, <1>6, <2>1, <2>2, <2>3, SettledSame DEF Pending
<1>12. Storing'
  <2>1. call'.block = b /\ call'.pc = "store"
    BY <1>1
  <2>2. /\ chainwork' = settled'.chainwork /\ heights' = settled'.heights
        /\ accounts' = settled'.accounts
    BY <1>1 DEF Trees
  <2> QED BY <1>11, <2>1, <2>2 DEF Storing
<1> QED BY <1>1, <1>4, <1>10, <1>12

\* The hashes on both sides of the fork are stored, each at its height.
LEMMA PathsStored ==
  ASSUME DOMAIN blocks \subseteq Hash,
         \A h \in DOMAIN blocks : \A k \in 0..Len(h) : SubSeq(h, 1, k) \in DOMAIN blocks,
         NEW s \in DOMAIN blocks, NEW t \in DOMAIN blocks
  PROVE  /\ undo_list(s, t) \in Seq(DOMAIN blocks) /\ apply_list(s, t) \in Seq(DOMAIN blocks)
         /\ HeightsOf(undo_list(s, t)) = {Len(s) + 1 - i : i \in DOMAIN undo_list(s, t)}
         /\ \A i \in DOMAIN apply_list(s, t) :
              apply_list(s, t)[i] = SubSeq(t, 1, Len(apply_list(s, t)[i]))
<1> DEFINE f == ForkHeight(s, t)
<1>1. s \in Hash /\ t \in Hash /\ Len(s) \in Nat /\ Len(t) \in Nat
  BY LenProperties DEF Hash
<1>2. f \in 0..Len(s) /\ f <= Len(t)
  BY <1>1, ForkHeightFacts
<1>3. /\ undo_list(s, t) = [i \in 1..(Len(s) - f) |-> SubSeq(s, 1, Len(s) - (i - 1))]
      /\ apply_list(s, t) = [i \in 1..(Len(t) - f) |-> SubSeq(t, 1, f + i)]
  BY DEF undo_list, apply_list, block_ancestor
<1> HIDE DEF f
<1>4. \A i \in 1..(Len(s) - f) : /\ SubSeq(s, 1, Len(s) - (i - 1)) \in DOMAIN blocks
                                 /\ Len(SubSeq(s, 1, Len(s) - (i - 1))) = Len(s) + 1 - i
  <2> TAKE i \in 1..(Len(s) - f)
  <2>1. Len(s) - (i - 1) \in 0..Len(s) /\ Len(s) - (i - 1) = Len(s) + 1 - i
    BY <1>1, <1>2
  <2> QED BY <1>1, <2>1 DEF Hash
<1>5. \A i \in 1..(Len(t) - f) : /\ SubSeq(t, 1, f + i) \in DOMAIN blocks
                                 /\ Len(SubSeq(t, 1, f + i)) = f + i
  <2> TAKE i \in 1..(Len(t) - f)
  <2>1. f + i \in 0..Len(t)
    BY <1>1, <1>2
  <2> QED BY <1>1, <2>1 DEF Hash
<1>6. Len(s) - f \in Nat /\ Len(t) - f \in Nat
  BY <1>1, <1>2
<1> DEFINE ul == undo_list(s, t)
           al == apply_list(s, t)
<1>7. ul \in Seq(DOMAIN blocks) /\ al \in Seq(DOMAIN blocks)
  <2> DEFINE m == Len(s) - f
             n == Len(t) - f
  <2>1. ul \in [1..m -> DOMAIN blocks] /\ al \in [1..n -> DOMAIN blocks]
    BY <1>3, <1>4, <1>5
  <2>2. m \in Nat /\ n \in Nat
    BY <1>6
  <2> HIDE DEF m, n, ul, al
  <2> QED BY <2>1, <2>2, SeqDef
<1>8. \A i \in DOMAIN ul : Len(ul[i]) = Len(s) + 1 - i
  BY <1>3, <1>4
<1>9. \A i \in DOMAIN al : al[i] = SubSeq(t, 1, Len(al[i]))
  <2> TAKE i \in DOMAIN al
  <2>1. i \in 1..(Len(t) - f) /\ al[i] = SubSeq(t, 1, f + i)
    BY <1>3
  <2> HIDE DEF al
  <2> QED BY <1>5, <2>1
<1> HIDE DEF ul, al
<1>10. HeightsOf(ul) = {Len(s) + 1 - i : i \in DOMAIN ul}
  BY <1>8, Zenon DEF HeightsOf
<1> QED BY <1>7, <1>9, <1>10 DEF ul, al

\* Whoever is not in the overlay of reconsider_tip keeps its account.
LEMMA OverlayCovers ==
  ASSUME TreeInv, NEW s \in DOMAIN blocks, NEW t \in DOMAIN blocks, NEW a \in Address,
         a \notin Touched(BlocksAt(blocks, undo_list(s, t) \o apply_list(s, t)))
  PROVE  SimulateReorg(blocks, s, t).accounts[a] = accounts[a]
<1> DEFINE ul == undo_list(s, t)
           al == apply_list(s, t)
           bs == BlocksAt(blocks, ul \o al)
<1>1. ul \in Seq(DOMAIN blocks) /\ al \in Seq(DOMAIN blocks)
  BY PathsStored DEF TreeInv
<1> HIDE DEF ul, al
<1>2. /\ Len(ul) \in Nat /\ DOMAIN ul = 1..Len(ul)
      /\ Len(al) \in Nat /\ DOMAIN al = 1..Len(al)
      /\ DOMAIN (ul \o al) = 1..(Len(ul) + Len(al))
      /\ \A i \in 1..Len(ul) : i \in DOMAIN (ul \o al) /\ (ul \o al)[i] = ul[i]
      /\ \A i \in 1..Len(al) : Len(ul) + i \in DOMAIN (ul \o al) /\ (ul \o al)[Len(ul) + i] = al[i]
  BY <1>1
<1>3. \A i \in DOMAIN bs : SpareBlock(a, bs[i])
  BY DEF Touched, TxsOf, SpareBlock, SpareTx, ul, al
<1>4. DOMAIN bs = DOMAIN (ul \o al) /\ \A i \in DOMAIN bs : bs[i] = blocks[(ul \o al)[i]]
  BY DEF BlocksAt
<1> HIDE DEF bs
<1>5. \A h \in DOMAIN blocks : LedgerBlock(blocks[h])
  BY DEF TreeInv, LedgerBlock, Block
<1>6. ASSUME NEW hs \in {ul, al}
      PROVE  /\ Len(BlocksAt(blocks, hs)) \in Nat
             /\ \A i \in 1..Len(BlocksAt(blocks, hs)) :
                  LedgerBlock(BlocksAt(blocks, hs)[i]) /\ SpareBlock(a, BlocksAt(blocks, hs)[i])
  <2>1. /\ BlocksAt(blocks, hs) = [i \in 1..Len(hs) |-> blocks[hs[i]]]
        /\ Len(hs) \in Nat
    BY <1>2 DEF BlocksAt
  <2>2. Len(BlocksAt(blocks, hs)) = Len(hs)
    BY <2>1
  <2>3. \A i \in 1..Len(hs) : hs[i] \in DOMAIN blocks
    BY <1>1, <1>2
  <2>4. \A i \in 1..Len(hs) : SpareBlock(a, blocks[hs[i]])
    <3> TAKE i \in 1..Len(hs)
    <3>1. PICK j \in DOMAIN (ul \o al) : (ul \o al)[j] = hs[i]
      <4>1. CASE hs = ul
        BY <1>2, <4>1
      <4>2. CASE hs = al
        BY <1>2, <4>2
      <4> QED BY <4>1, <4>2
    <3> QED BY <1>3, <1>4, <3>1
  <2> QED BY <1>5, <2>1, <2>2, <2>3, <2>4
<1>7. accounts \in Accounts
  BY DEF TreeInv
<1> QED BY <1>6, <1>7, ReorgFrame DEF SimulateReorg, ul, al

LEMMA TreeStays ==
  ASSUME TreeInv, UNCHANGED <<blocks, heights, tip, accounts, dataset_cache>>
  PROVE  TreeInv'
BY DEF TreeInv

LEMMA TargetSame ==
  ASSUME NEW b, accounts = settled.accounts, tip = settled.tip
  PROVE  SimulateReorg(blocks, tip.hash, id(b)) = Target(b)
BY SameApply, SameUndo, SameBlocksAt, SamePaths
   DEF Target, Atomic!SimulateReorg, SimulateReorg

\* A pending call that returns has written the block and its work.
LEMMA ReturnWrote ==
  ASSUME torn = FALSE, torn' = FALSE, NEW b \in Submittable, Pending(b), NEW result,
         Return(result), UNCHANGED <<blocks, dataset_cache>>,
         chainwork' = Insert(settled.chainwork, id(b), Atomic!ThisWork(b))
  PROVE  Atomic!StoreBlock(b) /\ Idle' /\ settled' = Trees' /\ outcome' = result
<1>1. settled' = Trees' /\ call' = NoCall /\ outcome' = result
  BY DEF Return
<1>2. SettledCache' = dataset_cache'
  BY <1>1 DEF SettledCache
<1>3. settled'.blocks = blocks' /\ settled'.chainwork = chainwork'
  BY <1>1 DEF Trees
<1>4. SettledCache' = Atomic!CacheAfter(b.height)
  BY <1>2 DEF Pending
<1>5. Atomic!StoreBlock(b)
  BY <1>3, <1>4, SameInsert, SameHash DEF Atomic!StoreBlock, SettledCache, Pending
<1>6. Idle'
  BY <1>1 DEF Idle, Pending, Insert, NoCall
<1> QED BY <1>1, <1>5, <1>6

\* A call that adopts the block goes on to the commit.
LEMMA CommitStart ==
  ASSUME torn = FALSE, TreeInv, Storing, set_chainwork, torn' = torn, NEW b, b = call.block,
         chainwork' = Insert(settled.chainwork, id(b), Atomic!ThisWork(b)),
         UNCHANGED <<blocks, heights, tip, accounts, dataset_cache, outcome, settled>>,
         Atomic!OutworksTip(b), Target(b).ok, call' = WritesOf(b, Target(b))
  PROVE  UNCHANGED Atomic!vars /\ Committing'
<1> DEFINE s == tip.hash
           t == id(b)
<1>1. /\ b \in Submittable /\ Pending(b) /\ tip = settled.tip
      /\ heights = settled.heights /\ accounts = settled.accounts
      /\ call.pc = "store"
  BY DEF Storing, Pending
<1>2. /\ call'.pc = "commit" /\ call'.block = b /\ call'.cache = call.cache
      /\ DOMAIN call' = {"pc", "block", "cache", "overlay", "undo", "apply", "result"}
      /\ call'.overlay = [a \in Touched(BlocksAt(blocks, undo_list(s, t) \o apply_list(s, t))) |->
                            Target(b).accounts[a]]
      /\ call'.undo = undo_list(s, t) /\ call'.apply = apply_list(s, t)
      /\ call'.result = [kind    |-> "Accepted", hash |-> id(b), height |-> b.height,
                         reorged |-> settled.tip.hash # b.prev_hash,
                         requeue |-> Requeue(blocks, settled.tip.hash, id(b))]
  BY <1>1 DEF WritesOf
<1>3. call # NoCall /\ call' # NoCall
  <2>1. NoCall.pc = "none"
    BY DEF NoCall
  <2> QED BY <1>1, <1>2, <2>1
<1>4. Unseen
  BY <1>2, <1>3 DEF Unseen, SettledCache
<1>5. UNCHANGED Atomic!vars /\ Pending(b)'
  BY <1>1, <1>4, UnseenStutters, PendingStays
<1>6. Atomic!OutworksTip(b)' /\ chainwork' = Insert(settled.chainwork, id(b), Atomic!ThisWork(b))'
  BY <1>4, SettledSame DEF Unseen, Insert
<1>7. s \in DOMAIN blocks /\ t \in DOMAIN blocks
  BY <1>1 DEF TreeInv, Pending, Insert
<1>8. Target(b) = SimulateReorg(blocks, s, t)
  BY <1>1, TargetSame
<1>9. Target(b)' = Target(b)
  BY DEF Target, Atomic!SimulateReorg
<1>10. AccountsLeft(b)'
  <2>1. Target(b) \in Simulation
    BY <1>7, <1>8, ReorgType DEF TreeInv
  <2>2. \A a \in Address :
          (IF a \in DOMAIN call'.overlay THEN call'.overlay[a] ELSE accounts[a])
            = Target(b).accounts[a]
    BY <1>2, <1>7, <1>8, OverlayCovers
  <2> QED BY <1>9, <2>1, <2>2 DEF AccountsLeft
<1>11. HeightsLeft(b)'
  <2> DEFINE ul == undo_list(s, t)
             al == apply_list(s, t)
  <2>1. /\ ul \in Seq(DOMAIN blocks) /\ al \in Seq(DOMAIN blocks)
        /\ HeightsOf(ul) = {Len(s) + 1 - i : i \in DOMAIN ul}
        /\ \A i \in DOMAIN al : al[i] = SubSeq(t, 1, Len(al[i]))
    BY <1>7, PathsStored DEF TreeInv
  <2>2. Atomic!ReindexedHeights(s, t)
          = [k \in (DOMAIN settled.heights \ {Len(s) + 1 - i : i \in DOMAIN ul})
                      \cup HeightsOf(al) |->
               IF k \in HeightsOf(al) THEN SubSeq(t, 1, k) ELSE settled.heights[k]]
    BY SamePaths, Zenon DEF Atomic!ReindexedHeights, HeightsOf
  <2>3. Atomic!ReindexedHeights(settled.tip.hash, t)' = Atomic!ReindexedHeights(settled.tip.hash, t)
    BY DEF Atomic!ReindexedHeights
  <2>4. Atomic!ReindexedHeights(s, t) = Reindexed(heights, ul, al, t)
    BY <1>1, <2>1, <2>2, Zenon DEF Reindexed
  <2> HIDE DEF ul, al
  <2> QED BY <1>1, <1>2, <2>1, <2>3, <2>4 DEF HeightsLeft, ul, al
<1> QED BY <1>2, <1>5, <1>6, <1>10, <1>11 DEF Committing

\* The second write: a call that does not adopt the block returns here.
LEMMA ChainworkStep ==
  ASSUME torn = FALSE, TreeInv, Storing, set_chainwork
  PROVE  /\ torn' = FALSE /\ TreeInv'
         /\ \/ Atomic!Next /\ Idle'
            \/ UNCHANGED Atomic!vars /\ Committing'
<1> DEFINE b == call.block
<1>1. /\ b \in Submittable /\ Pending(b) /\ tip = settled.tip
      /\ Atomic!Storable(b) /\ Atomic!WithinBound(b)
      /\ chainwork = settled.chainwork /\ heights = settled.heights
      /\ accounts = settled.accounts
  BY DEF Storing, Pending
<1>2. /\ ThisWork(b) = Atomic!ThisWork(b)
      /\ OutworksTip(b) <=> Atomic!OutworksTip(b)
  BY <1>1 DEF ThisWork, Atomic!ThisWork, OutworksTip, Atomic!OutworksTip, block_work,
     Atomic!block_work
<1>3. /\ chainwork' = Insert(settled.chainwork, id(b), Atomic!ThisWork(b))
      /\ UNCHANGED <<blocks, heights, tip, accounts, dataset_cache>> /\ torn' = FALSE
  BY <1>1, <1>2 DEF set_chainwork
<1>4. TreeInv'
  BY <1>3, TreeStays
<1>5. SimulateReorg(blocks, tip.hash, id(b)) = Target(b)
  BY <1>1, TargetSame
<1>6. ASSUME NEW result, Return(result)
      PROVE  /\ Atomic!StoreBlock(b) /\ Idle' /\ outcome' = result
             /\ settled' = Trees' /\ settled'.blocks = blocks
             /\ settled'.heights = settled.heights /\ settled'.tip = settled.tip
             /\ settled'.accounts = settled.accounts
  <2>1. Atomic!StoreBlock(b) /\ Idle' /\ outcome' = result /\ settled' = Trees'
    BY <1>1, <1>3, <1>6, ReturnWrote
  <2> QED BY <1>1, <1>3, <2>1 DEF Trees
<1>7. Atomic!submit_block(b) => Atomic!Next
  BY <1>1 DEF Atomic!Next, Atomic!Submit
<1>8. CASE ~ OutworksTip(b)
  <2>1. Return([kind |-> "SideBranch", hash |-> id(b), height |-> b.height])
    BY <1>8 DEF set_chainwork
  <2>2. Atomic!StoreSideBranch(b)
    BY <1>1, <1>2, <1>3, <1>6, <1>8, <2>1, SameHash DEF Atomic!StoreSideBranch
  <2> QED BY <1>3, <1>4, <1>6, <1>7, <2>1, <2>2 DEF Atomic!submit_block
<1>9. CASE OutworksTip(b) /\ ~ Target(b).ok
  <2>1. Return([kind |-> "Err"])
    BY <1>5, <1>9 DEF set_chainwork
  <2>2. ~ Atomic!SimulateReorg(settled'.blocks, settled.tip.hash, Atomic!id(b)).ok
    BY <1>6, <1>9, <2>1, SameHash DEF Target
  <2>3. Atomic!StoreThenFail(b)
    BY <1>1, <1>2, <1>3, <1>6, <1>9, <2>1, <2>2 DEF Atomic!StoreThenFail
  <2> QED BY <1>3, <1>4, <1>6, <1>7, <2>1, <2>3 DEF Atomic!submit_block
<1>10. CASE OutworksTip(b) /\ Target(b).ok
  <2>1. call' = WritesOf(b, Target(b)) /\ UNCHANGED <<outcome, settled>>
    BY <1>5, <1>10 DEF set_chainwork, Return
  <2> QED BY <1>2, <1>3, <1>4, <1>10, <2>1, CommitStart
<1> QED BY <1>8, <1>9, <1>10

-----------------------------------------------------------------------------
(* The commit.                                                             *)

LEMMA HeightsOfTail ==
  ASSUME NEW S, NEW s \in Seq(S), s # << >>
  PROVE  /\ Head(s) \in S /\ Tail(s) \in Seq(S)
         /\ HeightsOf(s) = {Len(Head(s))} \cup HeightsOf(Tail(s))
         /\ 1 \in DOMAIN s /\ Head(s) = s[1]
         /\ \A i \in DOMAIN Tail(s) : i + 1 \in DOMAIN s /\ Tail(s)[i] = s[i + 1]
<1>1. Len(s) \in Nat /\ Len(s) > 0 /\ DOMAIN s = 1..Len(s) /\ Head(s) = s[1]
  OBVIOUS
<1>2. /\ Tail(s) \in Seq(S) /\ DOMAIN Tail(s) = 1..(Len(s) - 1)
      /\ \A i \in 1..(Len(s) - 1) : Tail(s)[i] = s[i + 1]
  OBVIOUS
<1>3. \A j \in DOMAIN s : j = 1 \/ (j - 1 \in DOMAIN Tail(s) /\ Tail(s)[j - 1] = s[j])
  BY <1>1, <1>2
<1>4. \A i \in DOMAIN Tail(s) : i + 1 \in DOMAIN s /\ Tail(s)[i] = s[i + 1]
  BY <1>1, <1>2
<1>5. ASSUME NEW n \in HeightsOf(s) PROVE n \in {Len(Head(s))} \cup HeightsOf(Tail(s))
  <2>1. PICK j \in DOMAIN s : n = Len(s[j])
    BY <1>5 DEF HeightsOf
  <2> QED BY <1>1, <1>3, <2>1 DEF HeightsOf
<1>6. Len(Head(s)) \in HeightsOf(s) /\ HeightsOf(Tail(s)) \subseteq HeightsOf(s)
  BY <1>1, <1>4 DEF HeightsOf
<1>7. HeightsOf(s) = {Len(Head(s))} \cup HeightsOf(Tail(s))
  BY <1>5, <1>6
<1>8. Head(s) \in S
  BY <1>1
<1> QED BY <1>1, <1>2, <1>4, <1>7, <1>8

\* A write of the commit before the last one.
LEMMA CommitStays ==
  ASSUME torn = FALSE, Committing, call'.pc = "commit",
         DOMAIN call' = DOMAIN call, call'.block = call.block,
         call'.cache = call.cache, call'.result = call.result,
         UNCHANGED <<blocks, chainwork, tip, dataset_cache, outcome, settled, torn>>,
         AccountsLeft(call.block)', HeightsLeft(call.block)'
  PROVE  UNCHANGED Atomic!vars /\ Committing'
<1>1. call # NoCall /\ call' # NoCall
  <2>1. NoCall.pc = "none"
    BY DEF NoCall
  <2> QED BY <2>1 DEF Committing
<1>2. Unseen
  BY <1>1 DEF Unseen, SettledCache
<1>3. UNCHANGED Atomic!vars /\ Pending(call.block)'
  BY <1>2, UnseenStutters, PendingStays DEF Committing
<1>4. /\ Atomic!OutworksTip(call.block)'
      /\ chainwork' = Insert(settled.chainwork, id(call.block), Atomic!ThisWork(call.block))'
  <2>1. \A b : /\ Atomic!OutworksTip(b)' = Atomic!OutworksTip(b)
               /\ Atomic!ThisWork(b)' = Atomic!ThisWork(b)
    BY <1>2, SettledSame DEF Unseen
  <2> QED BY <2>1 DEF Committing, Insert
<1> QED BY <1>3, <1>4 DEF Committing

\* What the abstract call makes of the block only depends on the settled trees.
LEMMA TargetStays ==
  ASSUME UNCHANGED <<blocks, settled>>, NEW b
  PROVE  /\ Target(b)' = Target(b)
         /\ Atomic!ReindexedHeights(settled.tip.hash, id(b))'
              = Atomic!ReindexedHeights(settled.tip.hash, id(b))
BY DEF Target, Atomic!SimulateReorg, Atomic!ReindexedHeights

LEMMA SetAccountStep ==
  ASSUME torn = FALSE, TreeInv, Committing, NEW a \in Address, set_account(a)
  PROVE  UNCHANGED Atomic!vars /\ torn' = FALSE /\ TreeInv' /\ Committing'
<1> DEFINE b == call.block
<1>1. /\ a \in DOMAIN call.overlay
      /\ accounts' = [accounts EXCEPT ![a] = call.overlay[a]]
      /\ call' = [call EXCEPT !.overlay = [x \in DOMAIN call.overlay \ {a} |-> call.overlay[x]]]
      /\ UNCHANGED <<blocks, chainwork, heights, tip, dataset_cache, outcome, settled, torn>>
  BY DEF set_account
<1>2. /\ call'.pc = "commit" /\ DOMAIN call' = DOMAIN call /\ call'.block = b
      /\ call'.cache = call.cache /\ call'.result = call.result
      /\ call'.undo = call.undo /\ call'.apply = call.apply
      /\ call'.overlay = [x \in DOMAIN call.overlay \ {a} |-> call.overlay[x]]
  BY <1>1 DEF Committing
<1>3. Target(b)' = Target(b) /\ AccountsLeft(b) /\ HeightsLeft(b)
  BY <1>1, TargetStays DEF Committing
<1>4. accounts' \in Accounts
  BY <1>1, <1>3 DEF AccountsLeft, Simulation, Accounts, TreeInv
<1>5. AccountsLeft(b)'
  <2>1. ASSUME NEW x \in Address
        PROVE  (IF x \in DOMAIN call'.overlay THEN call'.overlay[x] ELSE accounts'[x])
                 = Target(b).accounts[x]
    BY <1>1, <1>2, <1>3 DEF AccountsLeft, TreeInv, Accounts
  <2> QED BY <1>2, <1>3, <2>1 DEF AccountsLeft
<1>6. HeightsLeft(b)'
  BY <1>1, <1>2, <1>3, TargetStays DEF HeightsLeft
<1>7. TreeInv'
  BY <1>1, <1>4 DEF TreeInv
<1> QED BY <1>1, <1>2, <1>5, <1>6, <1>7, CommitStays

LEMMA RemoveHeightStep ==
  ASSUME torn = FALSE, TreeInv, Committing, remove_canonical_height
  PROVE  UNCHANGED Atomic!vars /\ torn' = FALSE /\ TreeInv' /\ Committing'
<1> DEFINE b == call.block
           h == Head(call.undo)
<1>1. /\ call.undo # << >>
      /\ heights' = [k \in DOMAIN heights \ {blocks[h].height} |-> heights[k]]
      /\ call' = [call EXCEPT !.undo = Tail(@)]
      /\ UNCHANGED <<blocks, chainwork, tip, accounts, dataset_cache, outcome, settled, torn>>
  BY DEF remove_canonical_height
<1>2. /\ call'.pc = "commit" /\ DOMAIN call' = DOMAIN call /\ call'.block = b
      /\ call'.cache = call.cache /\ call'.result = call.result
      /\ call'.undo = Tail(call.undo) /\ call'.apply = call.apply
      /\ call'.overlay = call.overlay
  BY <1>1 DEF Committing
<1>3. Target(b)' = Target(b) /\ AccountsLeft(b) /\ HeightsLeft(b)
  BY <1>1, TargetStays DEF Committing
<1>4. /\ h \in DOMAIN blocks /\ Tail(call.undo) \in Seq(DOMAIN blocks)
      /\ HeightsOf(call.undo) = {Len(h)} \cup HeightsOf(Tail(call.undo))
  BY <1>1, <1>3, HeightsOfTail DEF HeightsLeft
<1>5. blocks[h].height = Len(h)
  BY <1>4 DEF TreeInv
<1>6. AccountsLeft(b)'
  BY <1>1, <1>2, <1>3 DEF AccountsLeft
<1>7. Reindexed(heights', Tail(call.undo), call.apply, id(b))
        = Reindexed(heights, call.undo, call.apply, id(b))
  <2> DEFINE U == HeightsOf(call.undo)
             V == HeightsOf(Tail(call.undo))
             D == HeightsOf(call.apply)
  <2>1. U = {Len(h)} \cup V
    BY <1>4
  <2> HIDE DEF U, V, D, h
  <2>2. (DOMAIN heights' \ V) \cup D = (DOMAIN heights \ U) \cup D
    BY <1>1, <1>5, <2>1
  <2>3. \A k \in DOMAIN heights' : heights'[k] = heights[k]
    BY <1>1
  <2> QED BY <2>2, <2>3 DEF Reindexed, U, V, D
<1>8. HeightsLeft(b)'
  BY <1>1, <1>2, <1>3, <1>4, <1>7, TargetStays DEF HeightsLeft
<1>9. TreeInv'
  BY <1>1 DEF TreeInv
<1> QED BY <1>1, <1>2, <1>6, <1>8, <1>9, CommitStays

LEMMA SetHeightStep ==
  ASSUME torn = FALSE, TreeInv, Committing, set_canonical_height
  PROVE  UNCHANGED Atomic!vars /\ torn' = FALSE /\ TreeInv' /\ Committing'
<1> DEFINE b == call.block
           h == Head(call.apply)
<1>1. /\ call.undo = << >> /\ call.apply # << >>
      /\ heights' = Insert(heights, blocks[h].height, h)
      /\ call' = [call EXCEPT !.apply = Tail(@)]
      /\ UNCHANGED <<blocks, chainwork, tip, accounts, dataset_cache, outcome, settled, torn>>
  BY DEF set_canonical_height
<1>2. /\ call'.pc = "commit" /\ DOMAIN call' = DOMAIN call /\ call'.block = b
      /\ call'.cache = call.cache /\ call'.result = call.result
      /\ call'.undo = call.undo /\ call'.apply = Tail(call.apply)
      /\ call'.overlay = call.overlay
  BY <1>1 DEF Committing
<1>3. Target(b)' = Target(b) /\ AccountsLeft(b) /\ HeightsLeft(b)
  BY <1>1, TargetStays DEF Committing
<1>4. /\ h \in DOMAIN blocks /\ Tail(call.apply) \in Seq(DOMAIN blocks)
      /\ HeightsOf(call.apply) = {Len(h)} \cup HeightsOf(Tail(call.apply))
      /\ h = SubSeq(id(b), 1, Len(h))
      /\ \A i \in DOMAIN Tail(call.apply) :
           Tail(call.apply)[i] = SubSeq(id(b), 1, Len(Tail(call.apply)[i]))
  <2> DEFINE al == call.apply
  <2>1. /\ al \in Seq(DOMAIN blocks) /\ al # << >>
        /\ \A i \in DOMAIN al : al[i] = SubSeq(id(b), 1, Len(al[i]))
    BY <1>1, <1>3 DEF HeightsLeft
  <2> HIDE DEF al
  <2>2. /\ Head(al) \in DOMAIN blocks /\ Tail(al) \in Seq(DOMAIN blocks)
        /\ HeightsOf(al) = {Len(Head(al))} \cup HeightsOf(Tail(al))
        /\ 1 \in DOMAIN al /\ Head(al) = al[1]
        /\ \A i \in DOMAIN Tail(al) : i + 1 \in DOMAIN al /\ Tail(al)[i] = al[i + 1]
    BY <2>1, HeightsOfTail
  <2> QED BY <2>1, <2>2 DEF al
<1>5. blocks[h].height = Len(h) /\ Len(h) \in 0..(EpochLength - 1)
  BY <1>4, LenProperties, EpochAssumption DEF TreeInv, Hash
<1>6. AccountsLeft(b)'
  BY <1>1, <1>2, <1>3 DEF AccountsLeft
<1>7. HeightsOf(call.undo) = {}
  BY <1>1 DEF HeightsOf
<1>8. Reindexed(heights', call.undo, Tail(call.apply), id(b))
        = Reindexed(heights, call.undo, call.apply, id(b))
  <2> DEFINE D == HeightsOf(call.apply)
             E == HeightsOf(Tail(call.apply))
  <2>1. D = {Len(h)} \cup E
    BY <1>4
  <2> HIDE DEF D, E, h
  <2>2. DOMAIN heights' \cup E = DOMAIN heights \cup D
    BY <1>1, <1>5, <2>1 DEF Insert
  <2>3. heights'[Len(h)] = SubSeq(id(b), 1, Len(h))
    BY <1>1, <1>4, <1>5 DEF Insert
  <2>4. \A k \in DOMAIN heights \cup D : k \notin D => heights'[k] = heights[k]
    BY <1>1, <1>5, <2>1 DEF Insert
  <2>5. \A k \in DOMAIN heights \cup D :
          (IF k \in E THEN SubSeq(id(b), 1, k) ELSE heights'[k])
            = (IF k \in D THEN SubSeq(id(b), 1, k) ELSE heights[k])
    BY <2>1, <2>3, <2>4
  <2> QED BY <1>7, <2>2, <2>5 DEF Reindexed, D, E
<1>9. HeightsLeft(b)'
  BY <1>1, <1>2, <1>3, <1>4, <1>8, TargetStays DEF HeightsLeft
<1>10. TreeInv'
  BY <1>1, <1>5 DEF TreeInv, Insert
<1> QED BY <1>1, <1>2, <1>6, <1>9, <1>10, CommitStays

\* The last write: what has been written is what the atomic call leaves.
LEMMA IndexDone ==
  ASSUME TreeInv, Committing, call.undo = << >>, call.apply = << >>
  PROVE  heights = Atomic!ReindexedHeights(settled.tip.hash, id(call.block))
<1>1. HeightsOf(call.undo) = {} /\ HeightsOf(call.apply) = {}
  BY DEF HeightsOf
<1>2. Reindexed(heights, call.undo, call.apply, id(call.block)) = [k \in DOMAIN heights |-> heights[k]]
  BY <1>1 DEF Reindexed
<1> QED BY <1>2 DEF Committing, HeightsLeft, TreeInv

LEMMA SetTipStep ==
  ASSUME torn = FALSE, TreeInv, Committing, set_tip
  PROVE  Atomic!Next /\ torn' = FALSE /\ TreeInv' /\ Idle'
<1> DEFINE b == call.block
<1>1. /\ DOMAIN call.overlay = {} /\ call.undo = << >> /\ call.apply = << >>
      /\ tip' = [height |-> b.height, hash |-> id(b)]
      /\ UNCHANGED <<blocks, chainwork, heights, accounts, dataset_cache, torn>>
      /\ Return(call.result)
  BY DEF set_tip
<1>2. /\ b \in Submittable /\ Pending(b) /\ Atomic!Storable(b) /\ Atomic!WithinBound(b)
      /\ Atomic!OutworksTip(b) /\ AccountsLeft(b) /\ HeightsLeft(b)
      /\ chainwork = Insert(settled.chainwork, id(b), Atomic!ThisWork(b))
      /\ call.result = [kind    |-> "Accepted", hash |-> id(b), height |-> b.height,
                        reorged |-> settled.tip.hash # b.prev_hash,
                        requeue |-> Requeue(blocks, settled.tip.hash, id(b))]
  BY DEF Committing, Pending
<1>3. /\ Atomic!StoreBlock(b) /\ Idle' /\ settled' = Trees' /\ outcome' = call.result
  BY <1>1, <1>2, ReturnWrote
<1>4. /\ settled'.blocks = blocks /\ settled'.heights = heights
      /\ settled'.tip = [height |-> b.height, hash |-> id(b)]
      /\ settled'.accounts = accounts
  BY <1>1, <1>3 DEF Trees
<1>5. accounts = Target(b).accounts /\ Target(b).ok
  BY <1>1, <1>2 DEF AccountsLeft, Simulation, Accounts, TreeInv
<1>6. heights = Atomic!ReindexedHeights(settled.tip.hash, id(b))
  BY <1>1, IndexDone
<1>7. Atomic!Requeue(blocks, settled.tip.hash, id(b)) = Requeue(blocks, settled.tip.hash, id(b))
  BY SameBlocksAt, SamePaths DEF Atomic!Requeue, Requeue
<1>8. Atomic!StoreAndAdopt(b)
  <2>1. Atomic!SimulateReorg(settled'.blocks, settled.tip.hash, Atomic!id(b)) = Target(b)
    BY <1>4, SameHash DEF Target
  <2>2. (IF torn THEN [kind |-> "None"] ELSE outcome)' = call.result
    BY <1>1, <1>3
  <2> QED BY <1>2, <1>3, <1>4, <1>5, <1>6, <1>7, <2>1, <2>2, SameHash DEF Atomic!StoreAndAdopt
<1>9. TreeInv'
  <2>1. b.height \in Nat /\ id(b) \in DOMAIN blocks
    BY <1>2, IdFacts DEF Block, Pending, Insert
  <2> QED BY <1>1, <2>1 DEF TreeInv
<1> QED BY <1>1, <1>2, <1>3, <1>8, <1>9 DEF Atomic!Next, Atomic!Submit, Atomic!submit_block

-----------------------------------------------------------------------------
(* Template requests, crashes, and the theorem.                            *)

\* A step that only a template request sees.
LEMMA AsideStep ==
  ASSUME torn = FALSE, CommitInv,
         UNCHANGED <<blocks, chainwork, heights, tip, accounts, dataset_cache, outcome,
                     call, settled, torn>>
  PROVE  UNCHANGED Atomic!vars /\ CommitInv'
<1>1. Unseen
  BY DEF Unseen, SettledCache
<1>2. UNCHANGED Atomic!vars
  BY <1>1, UnseenStutters
<1>3. torn' = FALSE /\ TreeInv'
  BY TreeStays DEF CommitInv
<1>4. CASE Idle
  <2>1. Idle'
    BY <1>4 DEF Idle, Trees, NoCall
  <2> QED BY <1>2, <1>3, <2>1 DEF CommitInv
<1>5. CASE Storing
  <2>1. Pending(call.block)'
    BY <1>1, <1>5, PendingStays DEF Storing
  <2>2. Storing'
    BY <1>5, <2>1 DEF Storing
  <2> QED BY <1>2, <1>3, <2>2 DEF CommitInv
<1>6. CASE Committing
  <2>1. AccountsLeft(call.block)' /\ HeightsLeft(call.block)'
    BY <1>6, TargetStays DEF Committing, AccountsLeft, HeightsLeft
  <2> QED BY <1>3, <1>6, <2>1, CommitStays DEF CommitInv, Committing
<1> QED BY <1>2, <1>4, <1>5, <1>6 DEF CommitInv

\* A request for a template: between two calls it is the atomic one, during a
\* call the dataset it needs is the one the call has cached.
LEMMA ReadTipStep ==
  ASSUME torn = FALSE, CommitInv, ReadTip
  PROVE  (Atomic!Next \/ UNCHANGED Atomic!vars) /\ CommitInv'
<1> DEFINE h == tip.height + 1
<1>1. /\ DatasetAvailable(h) /\ dataset_cache' = CacheAfter(h)
      /\ UNCHANGED <<blocks, chainwork, heights, tip, accounts, outcome, call, settled, torn>>
  BY DEF ReadTip
<1>2. TreeInv /\ h \in Nat
  BY DEF CommitInv, TreeInv
<1>3. /\ \A d \in dataset_cache' : d.epoch = 0
      /\ dataset_cache # {} => dataset_cache' = dataset_cache
  BY <1>1, <1>2, CacheInFirstEpoch
<1>4. CASE Idle
  <2>1. TreeInv'
    BY <1>1, <1>2, <1>3, QuietTree DEF StoreUnchanged
  <2>2. Idle'
    BY <1>1, <1>4 DEF Idle, Trees, NoCall
  <2>3. settled.tip = tip
    BY <1>4 DEF Idle, Trees
  <2>4. Atomic!DatasetAvailable(h) /\ Atomic!CacheAfter(h) = CacheAfter(h)
    BY <1>1, <1>4, IdleCache
  <2>5. SettledCache' = dataset_cache'
    BY <1>1, <2>2 DEF SettledCache, Idle
  <2>6. Atomic!work_template
    BY <1>1, <2>3, <2>4, <2>5 DEF Atomic!work_template, Atomic!StoreUnchanged, SettledCache
  <2> QED BY <1>1, <2>1, <2>2, <2>6 DEF Atomic!Next, CommitInv
<1>5. CASE Storing \/ Committing
  <2>1. dataset_cache # {}
    BY <1>5 DEF Storing, Committing, Pending
  <2> QED BY <1>1, <1>3, <2>1, AsideStep
<1> QED BY <1>4, <1>5 DEF CommitInv

\* A crash within a call is the last step the abstract system is asked about:
\* to it, the process stopped before that call.
LEMMA CrashStep ==
  ASSUME torn = FALSE, CommitInv, Crash
  PROVE  Atomic!Next /\ CommitInv'
<1>1. /\ call' = NoCall /\ settled' = settled /\ StoreUnchanged
      /\ dataset_cache' = {} /\ outcome' = [kind |-> "None"]
      /\ torn' = (torn \/ call # NoCall)
  BY DEF Crash, Restart
<1>2. SettledCache' = {}
  BY <1>1 DEF SettledCache
<1>3. Atomic!Next
  BY <1>1, <1>2 DEF Atomic!Next, Atomic!Restart, Atomic!StoreUnchanged, SettledCache
<1>4. CASE call # NoCall
  BY <1>1, <1>3, <1>4 DEF CommitInv
<1>5. CASE call = NoCall
  <2>1. torn' = FALSE
    BY <1>1, <1>5
  <2>2. NoCall.pc = "none"
    BY DEF NoCall
  <2>3. Idle /\ TreeInv
    BY <1>5, <2>2 DEF CommitInv, Storing, Committing
  <2>4. TreeInv'
    BY <1>1, <2>3, QuietTree
  <2>5. Idle'
    BY <1>1, <2>3 DEF Idle, Trees, StoreUnchanged, NoCall
  <2> QED BY <1>3, <2>1, <2>4, <2>5 DEF CommitInv
<1> QED BY <1>4, <1>5

\* After a call was torn the abstract system is not asked about anything.
LEMMA TornStep ==
  ASSUME torn, [CommitNext]_commit_vars
  PROVE  torn' /\ UNCHANGED Atomic!vars
<1>1. torn' /\ settled' = settled
  BY DEF CommitNext, Begin, ReturnWithoutWrite, store_block, WriteStep, set_chainwork,
     set_account, remove_canonical_height, set_canonical_height, set_tip, Return,
     ReadTip, ReadLast, ReadStart, Crash, commit_vars
<1> QED BY <1>1 DEF Atomic!vars

LEMMA CommitInvInit == CommitInit => CommitInv /\ Atomic!Init
<1> SUFFICES ASSUME CommitInit PROVE CommitInv /\ Atomic!Init
  OBVIOUS
<1>1. Init /\ call = NoCall /\ settled = Trees /\ torn = FALSE
  BY DEF CommitInit
<1>2. StoreInv /\ accounts \in Accounts
  BY <1>1, StoreInvInit, AccountsInit
<1>3. TreeInv
  <2>1. DOMAIN blocks \subseteq Hash /\ blocks \in [DOMAIN blocks -> Block]
    BY <1>2 DEF StoreInv, StoreTypeOK
  <2>2. DOMAIN blocks = {genesis_block_hash} /\ blocks[genesis_block_hash] = GenesisBlock
    BY <1>1 DEF Init
  <2>3. Len(genesis_block_hash) = 0 /\ GenesisBlock.height = 0
    BY DEF genesis_block_hash, GenesisBlock
  <2>4. \A k \in 0..0 : SubSeq(genesis_block_hash, 1, k) = genesis_block_hash
    BY DEF genesis_block_hash
  <2>5. /\ DOMAIN heights = {0} /\ heights = [k \in DOMAIN heights |-> heights[k]]
        /\ dataset_cache = {} /\ tip.hash = genesis_block_hash /\ tip.height = 0
    BY <1>1 DEF Init
  <2> QED BY <1>2, <2>1, <2>2, <2>3, <2>4, <2>5, EpochAssumption DEF TreeInv
<1>4. Idle
  BY <1>1 DEF Idle, Init
<1>5. Atomic!Init
  BY <1>1 DEF Init, Atomic!Init, Trees, genesis_block_hash, Atomic!genesis_block_hash,
     GenesisBlock, Atomic!GenesisBlock, block_work, Atomic!block_work,
     GenesisAccounts, Atomic!GenesisAccounts
<1> QED BY <1>1, <1>3, <1>4, <1>5 DEF CommitInv

LEMMA CommitInvNext ==
  ASSUME CommitInv, [CommitNext]_commit_vars
  PROVE  CommitInv' /\ (Atomic!Next \/ UNCHANGED Atomic!vars)
<1>1. CASE torn
  BY <1>1, TornStep DEF CommitInv
<1>2. CASE torn = FALSE
  <2> USE <1>2
  <2>1. TreeInv /\ (Idle \/ Storing \/ Committing)
    BY DEF CommitInv
  <2>2. NoCall.pc = "none"
    BY DEF NoCall
  <2>3. CASE UNCHANGED commit_vars
    BY <2>3, AsideStep DEF commit_vars
  <2>4. ASSUME NEW b \in Submittable, Begin(b)
        PROVE  CommitInv' /\ (Atomic!Next \/ UNCHANGED Atomic!vars)
    <3>1. Idle
      BY <2>1, <2>2, <2>4 DEF Begin, ReturnWithoutWrite, store_block, Storing, Committing
    <3>2. CASE ReturnWithoutWrite(b)
      BY <2>1, <2>4, <3>1, <3>2, ReturnStep DEF Begin, CommitInv
    <3>3. CASE store_block(b)
      BY <2>1, <2>4, <3>1, <3>3, StoreBlockStep DEF Begin, CommitInv
    <3> QED BY <2>4, <3>2, <3>3 DEF Begin
  <2>5. CASE set_chainwork
    <3>1. Storing
      BY <2>1, <2>2, <2>5 DEF set_chainwork, Idle, Committing
    <3> QED BY <2>1, <2>5, <3>1, ChainworkStep DEF CommitInv
  <2>6. call.pc = "commit" => Committing
    BY <2>1, <2>2 DEF Idle, Storing
  <2>7. ASSUME NEW a \in Address, set_account(a)
        PROVE  CommitInv' /\ (Atomic!Next \/ UNCHANGED Atomic!vars)
    BY <2>1, <2>6, <2>7, SetAccountStep DEF set_account, CommitInv
  <2>8. CASE remove_canonical_height
    BY <2>1, <2>6, <2>8, RemoveHeightStep DEF remove_canonical_height, CommitInv
  <2>9. CASE set_canonical_height
    BY <2>1, <2>6, <2>9, SetHeightStep DEF set_canonical_height, CommitInv
  <2>10. CASE set_tip
    BY <2>1, <2>6, <2>10, SetTipStep DEF set_tip, CommitInv
  <2>11. CASE ReadTip
    BY <2>11, ReadTipStep
  <2>12. CASE ReadLast \/ ReadStart
    BY <2>12, AsideStep DEF ReadLast, ReadStart
  <2>13. CASE Crash
    BY <2>13, CrashStep
  <2> QED BY <2>3, <2>4, <2>5, <2>7, <2>8, <2>9, <2>10, <2>11, <2>12, <2>13
          DEF CommitNext, WriteStep
<1> QED BY <1>1, <1>2 DEF CommitInv

\* The series of sled writes implements the atomic submit_block of module
\* Chain, for every genesis configuration, every set of submitted blocks and
\* every interleaving with template requests, until a crash interrupts a call.
THEOREM CommitImplementsAtomic == CommitSpec => ImplementsAtomic
<1>1. CommitInit => CommitInv /\ Atomic!Init
  BY CommitInvInit
<1>2. CommitInv /\ [CommitNext]_commit_vars => CommitInv' /\ [Atomic!Next]_(Atomic!vars)
  BY CommitInvNext
<1> QED BY <1>1, <1>2, PTL DEF CommitSpec, ImplementsAtomic, Atomic!Spec

-----------------------------------------------------------------------------
(* What survives any crash.                                                *)

\* The hashes a crash has left, or the running call has yet to give, a chain
\* work.
CutShort == DOMAIN blocks \ DOMAIN chainwork

\* The tree, with nothing said about tip, index and accounts.
PrefixTree ==
  /\ DOMAIN blocks \subseteq Hash
  /\ \A h \in DOMAIN blocks : /\ blocks[h].height = Len(h)
                              /\ \A k \in 0..Len(h) : SubSeq(h, 1, k) \in DOMAIN blocks

\* A call's block and lists, whether or not an earlier call was torn.
CallInv ==
  /\ call.pc \in {"none", "store", "commit"}
  /\ call.pc = "store" =>
       /\ call.block \in Submittable /\ id(call.block) \in CutShort
       /\ blocks[id(call.block)] = call.block
       /\ call.block.prev_hash \in DOMAIN chainwork
  /\ call.pc = "commit" =>
       /\ DOMAIN call = {"pc", "block", "cache", "overlay", "undo", "apply", "result"}
       /\ call.block \in Submittable /\ id(call.block) \in DOMAIN chainwork
       /\ call.apply \in Seq(DOMAIN blocks)

CrashInv ==
  /\ StoreSurvivesCrash /\ PrefixTree /\ CallInv
  /\ IsFiniteSet(CutShort) /\ crashes \in Nat

LEMMA CrashInvInit == CommitInit => CrashInv
<1> SUFFICES ASSUME CommitInit PROVE CrashInv
  OBVIOUS
<1>1. Init /\ call = NoCall /\ crashes = 0
  BY DEF CommitInit
<1>2. /\ DOMAIN blocks = {genesis_block_hash} /\ DOMAIN chainwork = DOMAIN blocks
      /\ blocks[genesis_block_hash] = GenesisBlock
      /\ chainwork[genesis_block_hash] = block_work(InitialDifficulty)
      /\ DOMAIN heights = {0} /\ heights[0] = genesis_block_hash
      /\ tip.hash = genesis_block_hash
  BY <1>1 DEF Init
<1>3. /\ Len(genesis_block_hash) = 0 /\ GenesisBlock.height = 0 /\ genesis_block_hash \in Hash
      /\ \A k \in 0..0 : SubSeq(genesis_block_hash, 1, k) = genesis_block_hash
  BY EmptySeq DEF genesis_block_hash, GenesisBlock, Hash
<1>4. CutShort = {}
  BY <1>2 DEF CutShort
<1>5. NoCall.pc = "none"
  BY DEF NoCall
<1>6. StoreSurvivesCrash
  <2>1. Cardinality(CutShort) <= crashes + (IF call.pc = "store" THEN 1 ELSE 0)
    BY <1>1, <1>4, <1>5, FS_EmptySet
  <2> QED BY <1>2, <1>3, <2>1 DEF StoreSurvivesCrash, CutShort
<1>7. PrefixTree
  BY <1>2, <1>3 DEF PrefixTree
<1>8. CallInv
  BY <1>1, <1>5 DEF CallInv
<1> QED BY <1>1, <1>4, <1>6, <1>7, <1>8, FS_EmptySet DEF CrashInv

\* A step that leaves blocks and chain work alone.
LEMMA TreesKept ==
  ASSUME CrashInv, UNCHANGED <<blocks, chainwork>>, crashes' \in Nat, crashes' >= crashes,
         tip'.hash \in DOMAIN chainwork,
         \A k \in DOMAIN heights' : heights'[k] \in DOMAIN blocks /\ Len(heights'[k]) = k,
         call.pc = "store" => call'.pc = "store" \/ crashes' = crashes + 1, CallInv'
  PROVE  CrashInv'
<1>1. CutShort' = CutShort
  BY DEF CutShort
<1>2. Cardinality(CutShort) \in Nat
  BY FS_CardinalityType DEF CrashInv
<1>3. Cardinality(CutShort) <= crashes' + (IF call'.pc = "store" THEN 1 ELSE 0)
  BY <1>2 DEF CrashInv, StoreSurvivesCrash, CutShort
<1>4. StoreSurvivesCrash'
  BY <1>1, <1>3 DEF CrashInv, StoreSurvivesCrash, CutShort
<1>5. PrefixTree'
  BY DEF CrashInv, PrefixTree
<1> QED BY <1>1, <1>4, <1>5 DEF CrashInv

LEMMA StoreBlockCrash ==
  ASSUME CrashInv, NEW b \in Submittable, store_block(b)
  PROVE  CrashInv'
<1>1. /\ call.pc = "none" /\ call'.pc = "store" /\ call'.block = b
      /\ blocks' = Insert(blocks, id(b), b)
      /\ UNCHANGED <<chainwork, heights, tip, crashes>>
      /\ id(b) \notin DOMAIN blocks /\ b.prev_hash \in DOMAIN chainwork
      /\ blocks[b.prev_hash].height + 1 = b.height
  BY DEF store_block, NoCall, Storable, Fresh, FollowsParent, ParentHasWork
<1>2. /\ DOMAIN chainwork \subseteq DOMAIN blocks /\ b.prev_hash \in DOMAIN blocks
  BY <1>1 DEF CrashInv, StoreSurvivesCrash
<1>3. /\ DOMAIN blocks' = DOMAIN blocks \cup {id(b)} /\ blocks'[id(b)] = b
      /\ \A h \in DOMAIN blocks : blocks'[h] = blocks[h]
  BY <1>1 DEF Insert
<1>4. /\ CutShort' = CutShort \cup {id(b)} /\ id(b) \notin CutShort
  BY <1>1, <1>2, <1>3 DEF CutShort
<1>5. /\ IsFiniteSet(CutShort') /\ Cardinality(CutShort') = Cardinality(CutShort) + 1
      /\ Cardinality(CutShort) \in Nat
  BY <1>4, FS_AddElement, FS_CardinalityType DEF CrashInv
<1>6. /\ id(b) \in Hash /\ Len(id(b)) = Len(b.prev_hash) + 1 /\ Len(b.prev_hash) \in Nat
      /\ id(b) # genesis_block_hash
  BY IdFacts
<1>7. Cardinality(CutShort') <= crashes' + (IF call'.pc = "store" THEN 1 ELSE 0)
  BY <1>1, <1>5 DEF CrashInv, StoreSurvivesCrash, CutShort
<1>8. StoreSurvivesCrash'
  <2>1. ASSUME NEW h \in DOMAIN blocks' \ {genesis_block_hash}
        PROVE  /\ h = id(blocks'[h]) /\ blocks'[h].prev_hash \in DOMAIN chainwork
               /\ h \in DOMAIN chainwork =>
                    chainwork[h] = chainwork[blocks'[h].prev_hash]
                                     + block_work(blocks'[h].difficulty)
    <3>1. CASE h = id(b)
      BY <1>1, <1>2, <1>3, <3>1
    <3>2. CASE h \in DOMAIN blocks
      BY <1>3, <3>2 DEF CrashInv, StoreSurvivesCrash
    <3> QED BY <1>3, <3>1, <3>2
  <2>2. /\ DOMAIN chainwork \subseteq DOMAIN blocks' /\ tip.hash \in DOMAIN chainwork
        /\ \A k \in DOMAIN heights : heights[k] \in DOMAIN blocks' /\ Len(heights[k]) = k
        /\ genesis_block_hash \in DOMAIN chainwork
        /\ chainwork[genesis_block_hash] = block_work(InitialDifficulty)
    BY <1>2, <1>3 DEF CrashInv, StoreSurvivesCrash
  <2>3. UNCHANGED <<chainwork, heights, tip>>
    BY <1>1
  <2> QED BY <1>7, <2>1, <2>2, <2>3 DEF StoreSurvivesCrash, CutShort
<1>9. PrefixTree'
  <2>1. ASSUME NEW k \in 0..Len(id(b)) PROVE SubSeq(id(b), 1, k) \in DOMAIN blocks'
    <3>1. CASE k = Len(id(b))
      BY <1>3, <3>1, IdFacts
    <3>2. CASE k # Len(id(b))
      <4>1. k \in 0..Len(b.prev_hash)
        BY <1>6, <3>2
      <4>2. SubSeq(id(b), 1, k) = SubSeq(b.prev_hash, 1, k)
        BY <4>1, IdFacts
      <4> QED BY <1>2, <1>3, <4>1, <4>2 DEF CrashInv, PrefixTree
    <3> QED BY <3>1, <3>2
  <2>2. b.height = Len(id(b))
    BY <1>1, <1>2, <1>6 DEF CrashInv, PrefixTree
  <2> QED BY <1>3, <1>6, <2>1, <2>2 DEF CrashInv, PrefixTree
<1>10. CallInv'
  BY <1>1, <1>3, <1>4 DEF CallInv
<1> QED BY <1>1, <1>5, <1>8, <1>9, <1>10 DEF CrashInv

LEMMA ChainworkCrash ==
  ASSUME CrashInv, set_chainwork
  PROVE  CrashInv'
<1> DEFINE b == call.block
           h == id(b)
<1>1. /\ call.pc = "store" /\ chainwork' = Insert(chainwork, h, ThisWork(b))
      /\ UNCHANGED <<blocks, heights, tip, crashes>>
  BY DEF set_chainwork, Return
<1>2. /\ b \in Submittable /\ h \in CutShort /\ blocks[h] = b /\ b.prev_hash \in DOMAIN chainwork
      /\ h # genesis_block_hash
  BY <1>1, IdFacts DEF CrashInv, CallInv
<1>3. /\ DOMAIN chainwork' = DOMAIN chainwork \cup {h}
      /\ chainwork'[h] = chainwork[b.prev_hash] + block_work(b.difficulty)
      /\ \A x \in DOMAIN chainwork : chainwork'[x] = chainwork[x]
  BY <1>1, <1>2 DEF Insert, ThisWork, CutShort
<1>4. CutShort' = CutShort \ {h}
  BY <1>1, <1>3 DEF CutShort
<1>5. /\ IsFiniteSet(CutShort') /\ Cardinality(CutShort') = Cardinality(CutShort) - 1
      /\ Cardinality(CutShort) \in Nat /\ Cardinality(CutShort') \in Nat
  BY <1>2, <1>4, FS_RemoveElement, FS_CardinalityType DEF CrashInv
<1>6. call' = NoCall \/ call' = WritesOf(b, SimulateReorg(blocks, tip.hash, h))
  BY DEF set_chainwork, Return
<1>7. NoCall.pc = "none"
  BY DEF NoCall
<1>8. StoreSurvivesCrash'
  <2>1. call'.pc # "store"
    BY <1>6, <1>7 DEF WritesOf
  <2>2. Cardinality(CutShort') <= crashes' + 0
    BY <1>1, <1>5 DEF CrashInv, StoreSurvivesCrash, CutShort
  <2>3. ASSUME NEW x \in DOMAIN blocks \ {genesis_block_hash}
        PROVE  /\ x = id(blocks[x]) /\ blocks[x].prev_hash \in DOMAIN chainwork'
               /\ x \in DOMAIN chainwork' =>
                    chainwork'[x] = chainwork'[blocks[x].prev_hash]
                                      + block_work(blocks[x].difficulty)
    <3>1. x = id(blocks[x]) /\ blocks[x].prev_hash \in DOMAIN chainwork
      BY DEF CrashInv, StoreSurvivesCrash
    <3>2. CASE x = h
      BY <1>2, <1>3, <3>1, <3>2
    <3>3. CASE x # h
      BY <1>3, <3>1, <3>3 DEF CrashInv, StoreSurvivesCrash
    <3> QED BY <3>2, <3>3
  <2>4. /\ DOMAIN chainwork' \subseteq DOMAIN blocks /\ tip.hash \in DOMAIN chainwork'
        /\ genesis_block_hash \in DOMAIN chainwork'
        /\ chainwork'[genesis_block_hash] = block_work(InitialDifficulty)
        /\ \A k \in DOMAIN heights : heights[k] \in DOMAIN blocks /\ Len(heights[k]) = k
    BY <1>2, <1>3 DEF CrashInv, StoreSurvivesCrash, CutShort
  <2> HIDE DEF b, h
  <2> QED BY <1>1, <2>1, <2>2, <2>3, <2>4 DEF StoreSurvivesCrash, CutShort, id
<1>9. PrefixTree'
  BY <1>1 DEF CrashInv, PrefixTree
<1>10. CallInv'
  <2>1. CASE call' = NoCall
    BY <1>7, <2>1 DEF CallInv
  <2>2. CASE call' = WritesOf(b, SimulateReorg(blocks, tip.hash, h))
    <3>1. tip.hash \in DOMAIN blocks /\ h \in DOMAIN blocks
      BY <1>2 DEF CrashInv, StoreSurvivesCrash, CutShort
    <3>2. apply_list(tip.hash, h) \in Seq(DOMAIN blocks)
      BY <3>1, PathsStored DEF CrashInv, PrefixTree
    <3>3. /\ call'.pc = "commit" /\ call'.block = b /\ call'.apply = apply_list(tip.hash, h)
          /\ DOMAIN call' = {"pc", "block", "cache", "overlay", "undo", "apply", "result"}
      BY <2>2 DEF WritesOf
    <3> QED BY <1>1, <1>2, <1>3, <3>2, <3>3 DEF CallInv
  <2> QED BY <1>6, <2>1, <2>2
<1> QED BY <1>1, <1>5, <1>8, <1>9, <1>10 DEF CrashInv

LEMMA CommitCrash ==
  ASSUME CrashInv,
         \/ \E a \in Address : set_account(a)
         \/ remove_canonical_height \/ set_canonical_height \/ set_tip
  PROVE  CrashInv'
<1>1. /\ call.pc = "commit" /\ UNCHANGED <<blocks, chainwork, crashes>>
      /\ crashes \in Nat
  BY DEF set_account, remove_canonical_height, set_canonical_height, set_tip, Return, CrashInv
<1>2. /\ DOMAIN call = {"pc", "block", "cache", "overlay", "undo", "apply", "result"}
      /\ call.block \in Submittable /\ id(call.block) \in DOMAIN chainwork
      /\ call.apply \in Seq(DOMAIN blocks)
  BY <1>1 DEF CrashInv, CallInv
<1>3. /\ tip.hash \in DOMAIN chainwork
      /\ \A k \in DOMAIN heights : heights[k] \in DOMAIN blocks /\ Len(heights[k]) = k
  BY DEF CrashInv, StoreSurvivesCrash
<1>4. ASSUME NEW a \in Address, set_account(a) PROVE CrashInv'
  <2>1. CallInv' /\ UNCHANGED <<heights, tip>>
    BY <1>1, <1>2, <1>4 DEF set_account, CallInv
  <2> QED BY <1>1, <1>3, <2>1, TreesKept
<1>5. CASE remove_canonical_height
  <2>1. CallInv' /\ UNCHANGED tip
    BY <1>1, <1>2, <1>5 DEF remove_canonical_height, CallInv
  <2>2. \A k \in DOMAIN heights' : heights'[k] \in DOMAIN blocks /\ Len(heights'[k]) = k
    BY <1>3, <1>5 DEF remove_canonical_height
  <2> QED BY <1>1, <1>3, <2>1, <2>2, TreesKept
<1>6. CASE set_canonical_height
  <2>1. /\ Head(call.apply) \in DOMAIN blocks /\ Tail(call.apply) \in Seq(DOMAIN blocks)
    BY <1>2, <1>6, HeightsOfTail DEF set_canonical_height
  <2>2. CallInv' /\ UNCHANGED tip
    BY <1>1, <1>2, <1>6, <2>1 DEF set_canonical_height, CallInv
  <2>3. blocks[Head(call.apply)].height = Len(Head(call.apply))
    BY <2>1 DEF CrashInv, PrefixTree
  <2>4. \A k \in DOMAIN heights' : heights'[k] \in DOMAIN blocks /\ Len(heights'[k]) = k
    BY <1>3, <1>6, <2>1, <2>3 DEF set_canonical_height, Insert
  <2> QED BY <1>1, <1>3, <2>2, <2>4, TreesKept
<1>7. CASE set_tip
  <2>1. CallInv'
    BY <1>7 DEF set_tip, Return, NoCall, CallInv
  <2>2. tip'.hash \in DOMAIN chainwork /\ UNCHANGED heights
    BY <1>2, <1>7 DEF set_tip
  <2> QED BY <1>1, <1>3, <2>1, <2>2, TreesKept
<1> QED BY <1>4, <1>5, <1>6, <1>7

LEMMA CrashInvNext == CrashInv /\ [CommitNext]_commit_vars => CrashInv'
<1> SUFFICES ASSUME CrashInv, [CommitNext]_commit_vars PROVE CrashInv'
  OBVIOUS
<1>1. /\ tip.hash \in DOMAIN chainwork /\ crashes \in Nat /\ CallInv
      /\ \A k \in DOMAIN heights : heights[k] \in DOMAIN blocks /\ Len(heights[k]) = k
  BY DEF CrashInv, StoreSurvivesCrash
<1>2. CASE UNCHANGED <<blocks, chainwork, heights, tip, call, crashes>>
  <2>1. CallInv'
    BY <1>1, <1>2 DEF CallInv, CutShort
  <2> QED BY <1>1, <1>2, <2>1, TreesKept
<1>3. CASE Crash
  <2>1. CallInv' /\ crashes' = crashes + 1
    BY <1>3 DEF Crash, NoCall, CallInv
  <2> QED BY <1>1, <1>3, <2>1, TreesKept DEF Crash, Restart, StoreUnchanged
<1>4. ASSUME NEW b \in Submittable, store_block(b) PROVE CrashInv'
  BY <1>4, StoreBlockCrash
<1>5. CASE set_chainwork
  BY <1>5, ChainworkCrash
<1>6. CASE \/ \E a \in Address : set_account(a)
           \/ remove_canonical_height \/ set_canonical_height \/ set_tip
  BY <1>6, CommitCrash
<1>7. \A b \in Submittable : ReturnWithoutWrite(b) =>
        UNCHANGED <<blocks, chainwork, heights, tip, call, crashes>>
  BY DEF ReturnWithoutWrite, RejectBeforeHash, ReturnAlreadyKnown, RejectStateless,
     ReturnOrphan, RejectContext, RejectMissingWork, StoreUnchanged
<1>8. ReadTip \/ ReadLast \/ ReadStart \/ UNCHANGED commit_vars =>
        UNCHANGED <<blocks, chainwork, heights, tip, call, crashes>>
  BY DEF ReadTip, ReadLast, ReadStart, commit_vars
<1> QED BY <1>2, <1>3, <1>4, <1>5, <1>6, <1>7, <1>8 DEF CommitNext, Begin, WriteStep

\* After any number of stops between any two writes the store is a tree with
\* accumulated work, the tip has its work, the index names stored blocks, and at
\* most one block per crash was left without its chain work.
THEOREM SurvivesCrash == CommitSpec => []StoreSurvivesCrash
<1>1. CommitInit => CrashInv
  BY CrashInvInit
<1>2. CrashInv /\ [CommitNext]_commit_vars => CrashInv'
  BY CrashInvNext
<1>3. CrashInv => StoreSurvivesCrash
  BY DEF CrashInv
<1> QED BY <1>1, <1>2, <1>3, PTL DEF CommitSpec

-----------------------------------------------------------------------------
(* Templates.                                                              *)

\* The index of the last finished call lists the ancestors of its tip.
SettledIndex ==
  /\ settled.tip.hash \in DOMAIN settled.blocks
  /\ settled.tip.height = Len(settled.tip.hash)
  /\ settled.heights = [k \in 0..Len(settled.tip.hash) |-> SubSeq(settled.tip.hash, 1, k)]

\* A template whose parent is no longer, or about to be no longer, the tip.
Overtaken == template.prev_hash # tip.hash \/ call.pc = "commit"

\* What a template request has read so far fits its parent, unless overtaken.
TemplateInv ==
  /\ blocks[genesis_block_hash] = GenesisBlock /\ SettledIndex
  /\ template.pc \in {"none", "last", "start", "answer"}
  /\ template.pc # "none" => template.prev_hash \in DOMAIN settled.blocks
  /\ template.pc \in {"last", "start"} =>
       template.height = Len(template.prev_hash) /\ Window <= template.height
  /\ template.pc = "start" => template.last = template.prev_hash \/ Overtaken
  /\ template.pc = "answer" =>
       \/ template.difficulty = PrescribedDifficulty(Append(template.prev_hash, "next"))
       \/ Overtaken

\* While no crash has torn a call, the live trees and the settled ones agree
\* as far as the call allows.
LEMMA LiveAndSettled ==
  ASSUME CommitInv, torn = FALSE
  PROVE  /\ tip = settled.tip /\ DOMAIN settled.blocks \subseteq DOMAIN blocks
         /\ call.pc # "commit" => heights = settled.heights
<1>1. CASE Idle
  BY <1>1 DEF Idle, Trees
<1>2. CASE Storing
  BY <1>2 DEF Storing, Pending, Insert
<1>3. CASE Committing
  BY <1>3 DEF Committing, Pending, Insert
<1> QED BY <1>1, <1>2, <1>3 DEF CommitInv

\* What is read back of a stored block is what its hash says.
LEMMA StoredHeader ==
  ASSUME TreeInv, StoreSurvivesCrash, NEW h \in DOMAIN blocks, h # genesis_block_hash
  PROVE  /\ h \in Seq(HeaderFields) /\ Len(h) \in Nat \ {0}
         /\ h[Len(h)].difficulty = blocks[h].difficulty
         /\ h[Len(h)].timestamp = blocks[h].timestamp
<1> DEFINE b == blocks[h]
           p == b.prev_hash
           f == Fields(b)
<1>1. h \in Seq(HeaderFields) /\ p \in Seq(HeaderFields) /\ h = Append(p, f)
  BY DEF TreeInv, StoreSurvivesCrash, id, Fields, Hash
<1>2. f.difficulty = b.difficulty /\ f.timestamp = b.timestamp
  BY DEF Fields
<1> HIDE DEF b, p, f
<1>3. Len(h) = Len(p) + 1 /\ Len(p) \in Nat /\ h[Len(p) + 1] = f
  BY <1>1
<1> QED BY <1>1, <1>2, <1>3 DEF b

\* The difficulty a branch prescribes to a block on top of it, in terms of the
\* stored blocks.
LEMMA PrescribedRead ==
  ASSUME TreeInv, StoreSurvivesCrash, blocks[genesis_block_hash] = GenesisBlock,
         NEW h \in DOMAIN blocks
  PROVE  PrescribedDifficulty(Append(h, "next")) =
           IF Len(h) < Window THEN InitialDifficulty
           ELSE next_difficulty(blocks[h].difficulty,
                                SatSub(blocks[h].timestamp,
                                       blocks[SubSeq(h, 1, Len(h) - Window)].timestamp),
                                TargetBlockTime, Window)
<1> DEFINE k == Len(h)
           n == Append(h, "next")
           q == SubSeq(h, 1, k - Window)
           TimeAt(i) == IF i = 0 THEN GenesisTimestamp ELSE n[i].timestamp
<1>1. h \in Seq(HeaderFields) /\ k \in Nat
  BY LenProperties DEF TreeInv, Hash
<1>2. Len(n) = k + 1 /\ \A i \in 1..k : n[i] = h[i]
  <2>1. h \in Seq(HeaderFields \cup {"next"})
    BY <1>1, SeqMonotonic
  <2> QED BY <2>1, AppendProperties
<1>3. Window \in Nat \ {0}
  BY GenesisAssumption DEF Window, AtLeast
<1>4. PrescribedDifficulty(n) =
        IF k < Window THEN InitialDifficulty
        ELSE next_difficulty(n[k].difficulty, SatSub(TimeAt(k), TimeAt(k - Window)),
                             TargetBlockTime, Window)
  <2> HIDE DEF n
  <2>1. Len(n) - 1 = k
    BY <1>1, <1>2
  <2> QED BY <2>1 DEF PrescribedDifficulty
<1>5. CASE k < Window
  BY <1>4, <1>5
<1>6. CASE ~ (k < Window)
  <2>1. h # genesis_block_hash /\ k \in 1..k /\ k # 0
    BY <1>1, <1>3, <1>6 DEF genesis_block_hash
  <2>2. n[k].difficulty = blocks[h].difficulty /\ TimeAt(k) = blocks[h].timestamp
    BY <1>2, <2>1, StoredHeader
  <2>3. k - Window \in 0..k /\ q \in DOMAIN blocks
    BY <1>1, <1>3, <1>6 DEF TreeInv
  <2>4. TimeAt(k - Window) = blocks[q].timestamp
    <3>1. CASE k = Window
      <4>1. q = genesis_block_hash /\ k - Window = 0
        BY <1>1, <1>3, <3>1 DEF genesis_block_hash
      <4> HIDE DEF q
      <4> QED BY <4>1 DEF GenesisBlock
    <3>2. CASE k # Window
      <4>1. k - Window \in 1..k /\ k - Window # 0
        BY <1>1, <1>3, <1>6, <3>2
      <4> HIDE DEF n
      <4>2. Len(q) = k - Window /\ q[k - Window] = h[k - Window]
        BY <1>1, <4>1
      <4>3. q # genesis_block_hash
        BY <4>1, <4>2 DEF genesis_block_hash
      <4>4. q[Len(q)].timestamp = blocks[q].timestamp
        BY <2>3, <4>3, StoredHeader
      <4> QED BY <1>2, <4>1, <4>2, <4>4
    <3> QED BY <3>1, <3>2
  <2> QED BY <1>4, <1>6, <2>2, <2>4
<1> QED BY <1>5, <1>6

\* A step that neither ends a call nor reads for a template.
LEMMA TemplateKept ==
  ASSUME TemplateInv, UNCHANGED <<settled, template, tip>>,
         call.pc = "commit" => call'.pc = "commit",
         blocks'[genesis_block_hash] = GenesisBlock
  PROVE  TemplateInv'
<1>1. Overtaken => Overtaken'
  BY DEF Overtaken
<1>2. SettledIndex'
  BY DEF TemplateInv, SettledIndex
<1>3. \A h : PrescribedDifficulty(h)' = PrescribedDifficulty(h)
  BY DEF PrescribedDifficulty
<1> QED BY <1>1, <1>2, <1>3 DEF TemplateInv

LEMMA ReadTipTemplate ==
  ASSUME CommitInv, torn = FALSE, StoreSurvivesCrash, TemplateInv, ReadTip
  PROVE  TemplateInv'
<1>1. /\ UNCHANGED <<blocks, tip, settled, call>>
      /\ template' = IF tip.height + 1 <= Window
                     THEN [pc |-> "answer", prev_hash |-> tip.hash,
                           difficulty |-> InitialDifficulty]
                     ELSE [pc |-> "last", height |-> tip.height, prev_hash |-> tip.hash]
  BY DEF ReadTip
<1>2. TreeInv /\ tip = settled.tip
  BY LiveAndSettled DEF CommitInv
<1>3. tip.hash \in DOMAIN settled.blocks /\ tip.hash \in DOMAIN blocks
      /\ tip.height = Len(tip.hash) /\ tip.height \in Nat
  BY <1>2 DEF TemplateInv, SettledIndex, TreeInv
<1>4. Window \in Nat
  BY GenesisAssumption DEF Window, AtLeast
<1>5. SettledIndex' /\ blocks'[genesis_block_hash] = GenesisBlock
  BY <1>1 DEF TemplateInv, SettledIndex
<1>6. CASE tip.height + 1 <= Window
  <2>1. PrescribedDifficulty(Append(tip.hash, "next")) = InitialDifficulty
    BY <1>2, <1>3, <1>4, <1>6, PrescribedRead DEF TemplateInv
  <2>2. /\ template'.pc = "answer" /\ template'.prev_hash = tip.hash
        /\ template'.difficulty = InitialDifficulty
    BY <1>1, <1>6
  <2>3. template'.difficulty = PrescribedDifficulty(Append(template'.prev_hash, "next"))
    BY <2>1, <2>2
  <2>4. template'.difficulty = PrescribedDifficulty(Append(template.prev_hash, "next"))'
    BY <2>3 DEF PrescribedDifficulty
  <2> QED BY <1>1, <1>3, <1>5, <2>2, <2>4 DEF TemplateInv
<1>7. CASE ~ (tip.height + 1 <= Window)
  <2>1. /\ template'.pc = "last" /\ template'.prev_hash = tip.hash
        /\ template'.height = tip.height
    BY <1>1, <1>7
  <2> QED BY <1>1, <1>3, <1>4, <1>5, <1>7, <2>1 DEF TemplateInv
<1> QED BY <1>6, <1>7

LEMMA ReadLastTemplate ==
  ASSUME CommitInv, torn = FALSE, TemplateInv, ReadLast
  PROVE  TemplateInv'
<1>1. /\ UNCHANGED <<blocks, tip, settled, call>> /\ template.pc = "last"
      /\ template' = IF template.height \in DOMAIN heights
                     THEN [pc |-> "start", height |-> template.height,
                           prev_hash |-> template.prev_hash,
                           last |-> heights[template.height]]
                     ELSE NoTemplate
  BY DEF ReadLast
<1>2. SettledIndex' /\ blocks'[genesis_block_hash] = GenesisBlock
  BY <1>1 DEF TemplateInv, SettledIndex
<1>3. CASE template.height \in DOMAIN heights
  <2>1. /\ template'.pc = "start" /\ template'.height = template.height
        /\ template'.prev_hash = template.prev_hash /\ template'.last = heights[template.height]
    BY <1>1, <1>3
  <2>2. template'.last = template.prev_hash \/ Overtaken
    <3> SUFFICES ASSUME ~ Overtaken PROVE heights[template.height] = template.prev_hash
      BY <2>1
    <3>1. template.prev_hash = tip.hash /\ tip = settled.tip /\ heights = settled.heights
      BY LiveAndSettled DEF Overtaken
    <3>2. tip.hash \in Seq(HeaderFields) /\ template.height = Len(tip.hash) /\ Len(tip.hash) \in Nat
      BY <1>1, <3>1, LenProperties DEF CommitInv, TreeInv, TemplateInv, Hash
    <3>3. heights[Len(tip.hash)] = SubSeq(tip.hash, 1, Len(tip.hash))
      BY <3>1, <3>2 DEF TemplateInv, SettledIndex
    <3> QED BY <3>1, <3>2, <3>3, SubSeqFull
  <2>3. Overtaken => Overtaken'
    BY <1>1, <2>1 DEF Overtaken
  <2> QED BY <1>1, <1>2, <2>1, <2>2, <2>3 DEF TemplateInv
<1>4. CASE template.height \notin DOMAIN heights
  <2>1. template' = NoTemplate
    BY <1>1, <1>4
  <2> QED BY <1>2, <2>1 DEF TemplateInv, NoTemplate
<1> QED BY <1>3, <1>4

LEMMA ReadStartTemplate ==
  ASSUME CommitInv, torn = FALSE, StoreSurvivesCrash, TemplateInv, ReadStart
  PROVE  TemplateInv'
<1> DEFINE k    == template.height - Window
           last == blocks[template.last]
           d    == next_difficulty(last.difficulty,
                                   SatSub(last.timestamp, blocks[heights[k]].timestamp),
                                   TargetBlockTime, Window)
<1>1. /\ UNCHANGED <<blocks, tip, settled, call>> /\ template.pc = "start"
      /\ template' = IF k \in DOMAIN heights
                     THEN [pc |-> "answer", prev_hash |-> template.prev_hash,
                           difficulty |-> d]
                     ELSE NoTemplate
  BY DEF ReadStart
<1>2. SettledIndex' /\ blocks'[genesis_block_hash] = GenesisBlock
  BY <1>1 DEF TemplateInv, SettledIndex
<1>3. CASE k \in DOMAIN heights
  <2>1. /\ template'.pc = "answer" /\ template'.prev_hash = template.prev_hash
        /\ template'.difficulty = d
    BY <1>1, <1>3
  <2>2. d = PrescribedDifficulty(Append(template.prev_hash, "next")) \/ Overtaken
    <3> SUFFICES ASSUME ~ Overtaken
                 PROVE  d = PrescribedDifficulty(Append(template.prev_hash, "next"))
      OBVIOUS
    <3> DEFINE h == tip.hash
    <3>1. /\ template.prev_hash = h /\ tip = settled.tip /\ heights = settled.heights
          /\ template.last = h
      BY <1>1, LiveAndSettled DEF Overtaken, TemplateInv
    <3>2. /\ h \in DOMAIN blocks /\ Len(h) \in Nat /\ TreeInv
          /\ template.height = Len(h) /\ Window <= Len(h) /\ Window \in Nat \ {0}
      BY <1>1, <3>1, LenProperties, GenesisAssumption
         DEF CommitInv, TreeInv, TemplateInv, Hash, Window, AtLeast
    <3>3. k = Len(h) - Window /\ k \in 0..Len(h)
      BY <3>2
    <3>4. heights[k] = SubSeq(h, 1, Len(h) - Window)
      BY <3>1, <3>3 DEF TemplateInv, SettledIndex
    <3>5. PrescribedDifficulty(Append(h, "next")) =
            next_difficulty(blocks[h].difficulty,
                            SatSub(blocks[h].timestamp,
                                   blocks[SubSeq(h, 1, Len(h) - Window)].timestamp),
                            TargetBlockTime, Window)
      BY <3>2, PrescribedRead DEF TemplateInv
    <3> QED BY <3>1, <3>4, <3>5
  <2>3. Overtaken => Overtaken'
    BY <1>1, <2>1 DEF Overtaken
  <2> HIDE DEF d
  <2>4. \/ template'.difficulty = PrescribedDifficulty(Append(template.prev_hash, "next"))'
        \/ Overtaken'
    BY <2>1, <2>2, <2>3 DEF PrescribedDifficulty
  <2> QED BY <1>1, <1>2, <2>1, <2>4 DEF TemplateInv
<1>4. CASE k \notin DOMAIN heights
  <2>1. template' = NoTemplate
    BY <1>1, <1>4
  <2> QED BY <1>2, <2>1 DEF TemplateInv, NoTemplate
<1> QED BY <1>3, <1>4

\* The new tip is a block that was not stored before: it is nobody's parent
\* yet, so every template in progress is overtaken.
LEMMA SetTipTemplate ==
  ASSUME CommitInv, torn = FALSE, TemplateInv, set_tip
  PROVE  TemplateInv'
<1> DEFINE b == call.block
           s == settled.tip.hash
<1>1. /\ call.undo = << >> /\ call.apply = << >> /\ call.pc = "commit"
      /\ tip' = [height |-> b.height, hash |-> id(b)]
      /\ UNCHANGED <<blocks, heights, template>> /\ settled' = Trees'
  BY DEF set_tip, Return
<1>2. TreeInv /\ Committing /\ Pending(b)
  BY <1>1 DEF CommitInv, Idle, Storing, NoCall, Committing
<1>3. /\ b \in Submittable /\ id(b) \notin DOMAIN settled.blocks
      /\ blocks = Insert(settled.blocks, id(b), b) /\ tip = settled.tip
  BY <1>2, SameHash DEF Pending, Atomic!Storable, Atomic!Fresh
<1>4. /\ id(b) \in DOMAIN blocks /\ blocks[id(b)] = b
      /\ DOMAIN settled.blocks \subseteq DOMAIN blocks
  BY <1>3 DEF Insert
<1>5. /\ s \in Hash /\ id(b) \in Hash /\ b.height = Len(id(b))
  BY <1>2, <1>3, <1>4 DEF TreeInv
<1>6. Atomic!ReindexedHeights(s, id(b)) = Reindex(settled.heights, s, id(b))
  BY SamePaths, Zenon DEF Atomic!ReindexedHeights, Reindex
<1>7. settled.heights = [k \in 0..Len(s) |-> SubSeq(s, 1, k)]
  BY DEF TemplateInv, SettledIndex
<1>8. heights = [k \in 0..Len(id(b)) |-> SubSeq(id(b), 1, k)]
  BY <1>1, <1>2, <1>5, <1>6, <1>7, IndexDone, ReindexFacts
<1>9. /\ settled'.blocks = blocks /\ settled'.heights = heights
      /\ settled'.tip = [height |-> b.height, hash |-> id(b)]
  BY <1>1 DEF Trees
<1>10. SettledIndex'
  BY <1>4, <1>5, <1>8, <1>9 DEF SettledIndex
<1>11. template.pc # "none" => Overtaken'
  BY <1>1, <1>3 DEF Overtaken, TemplateInv
<1> QED BY <1>1, <1>4, <1>9, <1>10, <1>11 DEF TemplateInv

\* A call that returns without a new tip.
LEMMA ReturnTemplate ==
  ASSUME CommitInv, torn = FALSE, TemplateInv, call.pc = "store",
         UNCHANGED <<blocks, heights, tip, template>>, settled' = Trees'
  PROVE  TemplateInv'
<1>1. tip = settled.tip /\ heights = settled.heights /\ DOMAIN settled.blocks \subseteq DOMAIN blocks
  BY LiveAndSettled
<1>2. settled'.blocks = blocks /\ settled'.heights = heights /\ settled'.tip = tip
  BY DEF Trees
<1>3. SettledIndex'
  BY <1>1, <1>2 DEF TemplateInv, SettledIndex
<1>4. Overtaken => Overtaken'
  BY DEF Overtaken
<1>5. \A h : PrescribedDifficulty(h)' = PrescribedDifficulty(h)
  BY DEF PrescribedDifficulty
<1> QED BY <1>1, <1>2, <1>3, <1>4, <1>5 DEF TemplateInv

LEMMA TemplateInvInit == CommitInit => TemplateInv
<1> SUFFICES ASSUME CommitInit PROVE TemplateInv
  OBVIOUS
<1>1. Init /\ template = NoTemplate /\ settled = Trees
  BY DEF CommitInit
<1>2. StoreInv
  BY <1>1, StoreInvInit
<1>3. SettledIndex
  BY <1>1, <1>2 DEF StoreInv, CanonicalIndex, SettledIndex, Trees
<1> QED BY <1>1, <1>2, <1>3 DEF TemplateInv, NoTemplate, StoreInv

LEMMA TemplateInvNext ==
  ASSUME CommitInv, CrashInv, torn \/ TemplateInv, [CommitNext]_commit_vars
  PROVE  torn' \/ TemplateInv'
<1>1. CASE torn
  BY <1>1, TornStep
<1>2. CASE torn = FALSE
  <2> USE <1>2
  <2>1. TemplateInv /\ StoreSurvivesCrash /\ blocks[genesis_block_hash] = GenesisBlock
    BY DEF CrashInv, TemplateInv
  <2>2. CASE UNCHANGED commit_vars
    BY <2>1, <2>2, TemplateKept DEF commit_vars
  <2>3. ASSUME NEW b \in Submittable, ReturnWithoutWrite(b) PROVE TemplateInv'
    <3>1. UNCHANGED <<blocks, tip, settled, template, call>>
      BY <2>3 DEF ReturnWithoutWrite, RejectBeforeHash, ReturnAlreadyKnown, RejectStateless,
         ReturnOrphan, RejectContext, RejectMissingWork, StoreUnchanged
    <3> QED BY <2>1, <3>1, TemplateKept
  <2>4. ASSUME NEW b \in Submittable, store_block(b) PROVE TemplateInv'
    <3>1. /\ UNCHANGED <<tip, settled, template>> /\ call.pc # "commit"
          /\ blocks' = Insert(blocks, id(b), b) /\ id(b) # genesis_block_hash
      BY <2>4, IdFacts DEF store_block, NoCall
    <3>2. genesis_block_hash \in DOMAIN blocks
      BY DEF CrashInv, StoreSurvivesCrash
    <3>3. blocks'[genesis_block_hash] = GenesisBlock
      BY <2>1, <3>1, <3>2 DEF Insert
    <3> QED BY <2>1, <3>1, <3>3, TemplateKept
  <2>5. CASE set_chainwork
    <3>1. UNCHANGED <<blocks, heights, tip, template>> /\ call.pc = "store"
      BY <2>5 DEF set_chainwork
    <3>2. CASE settled' = settled
      BY <2>1, <3>1, <3>2, TemplateKept
    <3>3. CASE settled' = Trees'
      BY <2>1, <3>1, <3>3, ReturnTemplate
    <3> QED BY <2>5, <3>2, <3>3 DEF set_chainwork, Return
  <2>6. CASE \/ \E a \in Address : set_account(a)
             \/ remove_canonical_height \/ set_canonical_height
    <3>1. UNCHANGED <<blocks, tip, settled, template>> /\ call'.pc = "commit"
      <4>1. call.pc = "commit" /\ UNCHANGED <<blocks, tip, settled, template>>
        BY <2>6 DEF set_account, remove_canonical_height, set_canonical_height
      <4>2. DOMAIN call = {"pc", "block", "cache", "overlay", "undo", "apply", "result"}
        BY <4>1 DEF CrashInv, CallInv
      <4> QED BY <2>6, <4>1, <4>2 DEF set_account, remove_canonical_height, set_canonical_height
    <3> QED BY <2>1, <3>1, TemplateKept
  <2>7. CASE set_tip
    BY <2>1, <2>7, SetTipTemplate
  <2>8. CASE ReadTip
    BY <2>1, <2>8, ReadTipTemplate
  <2>9. CASE ReadLast
    BY <2>1, <2>9, ReadLastTemplate
  <2>10. CASE ReadStart
    BY <2>1, <2>10, ReadStartTemplate
  <2>11. CASE Crash
    <3>1. template' = NoTemplate /\ UNCHANGED <<blocks, settled>>
      BY <2>11 DEF Crash, Restart, StoreUnchanged
    <3>2. SettledIndex'
      BY <2>1, <3>1 DEF TemplateInv, SettledIndex
    <3> QED BY <2>1, <3>1, <3>2 DEF TemplateInv, NoTemplate
  <2> QED BY <2>2, <2>3, <2>4, <2>5, <2>6, <2>7, <2>8, <2>9, <2>10, <2>11
          DEF CommitNext, Begin, WriteStep
<1> QED BY <1>1, <1>2 DEF CommitInv

\* work_template reads without the lock, yet an answer whose parent is the tip
\* and stays it carries the difficulty submit_block will demand.
THEOREM TemplateFollowsTipTheorem == CommitSpec => []TemplateFollowsTip
<1>1. CommitInit => CommitInv /\ CrashInv /\ (torn \/ TemplateInv)
  BY CommitInvInit, CrashInvInit, TemplateInvInit
<1>2. CommitInv /\ CrashInv /\ (torn \/ TemplateInv) /\ [CommitNext]_commit_vars
        => CommitInv' /\ CrashInv' /\ (torn' \/ TemplateInv')
  BY CommitInvNext, CrashInvNext, TemplateInvNext
<1>3. torn \/ TemplateInv => TemplateFollowsTip
  BY DEF TemplateInv, Overtaken, TemplateFollowsTip
<1> QED BY <1>1, <1>2, <1>3, PTL DEF CommitSpec

-----------------------------------------------------------------------------
(* Between two calls the store is whole.                                   *)

\* The ledger of a store: its accounts replay its canonical chain, and no
\* branch that checks out has more work.
LedgerWhole(s) ==
  /\ LedgerTree(s.blocks) /\ s.tip.hash \in DOMAIN s.blocks
  /\ \A h \in DOMAIN s.blocks : s.chainwork[h] \in Nat
  /\ Replay(s.blocks, s.tip.hash).ok
  /\ s.accounts = Replay(s.blocks, s.tip.hash).accounts
  /\ \A h \in DOMAIN s.blocks :
       Replay(s.blocks, h).ok => s.chainwork[h] <= s.chainwork[s.tip.hash]

SettledLedger == LedgerWhole(settled)

\* One more block, adopted if and only if it checks out with more work.
LEMMA GrowLedger ==
  ASSUME NEW s, NEW t, LedgerWhole(s), NEW new, new \notin DOMAIN s.blocks, NEW work \in Nat,
         LedgerTree(t.blocks), DOMAIN t.blocks = DOMAIN s.blocks \cup {new},
         \A h \in DOMAIN s.blocks : t.blocks[h] = s.blocks[h],
         \A h \in DOMAIN s.blocks : t.chainwork[h] = s.chainwork[h],
         t.chainwork[new] = work,
         \/ /\ t.tip = s.tip /\ t.accounts = s.accounts
            /\ Replay(t.blocks, new).ok => work <= s.chainwork[s.tip.hash]
         \/ /\ t.tip.hash = new /\ work > s.chainwork[s.tip.hash]
            /\ Replay(t.blocks, new).ok /\ t.accounts = Replay(t.blocks, new).accounts
  PROVE  LedgerWhole(t)
<1>1. /\ LedgerTree(s.blocks) /\ s.tip.hash \in DOMAIN s.blocks
      /\ \A h \in DOMAIN s.blocks : s.chainwork[h] \in Nat
      /\ Replay(s.blocks, s.tip.hash).ok
      /\ s.accounts = Replay(s.blocks, s.tip.hash).accounts
      /\ \A h \in DOMAIN s.blocks :
           Replay(s.blocks, h).ok => s.chainwork[h] <= s.chainwork[s.tip.hash]
  BY DEF LedgerWhole
<1>2. \A h \in DOMAIN s.blocks : Replay(t.blocks, h) = Replay(s.blocks, h)
  BY <1>1, ReplayInsert
<1>3. t.tip.hash \in DOMAIN t.blocks /\ \A h \in DOMAIN t.blocks : t.chainwork[h] \in Nat
  BY <1>1
<1>4. Replay(t.blocks, t.tip.hash).ok /\ t.accounts = Replay(t.blocks, t.tip.hash).accounts
  BY <1>1, <1>2
<1>5. ASSUME NEW h \in DOMAIN t.blocks, Replay(t.blocks, h).ok
      PROVE  t.chainwork[h] <= t.chainwork[t.tip.hash]
  <2>1. CASE h \in DOMAIN s.blocks
    <3>1. s.chainwork[h] <= s.chainwork[s.tip.hash] /\ s.chainwork[h] \in Nat
          /\ s.chainwork[s.tip.hash] \in Nat
      BY <1>1, <1>2, <1>5, <2>1
    <3>2. t.chainwork[t.tip.hash] = s.chainwork[s.tip.hash]
          \/ t.chainwork[t.tip.hash] > s.chainwork[s.tip.hash]
      BY <1>1
    <3>3. t.chainwork[t.tip.hash] \in Nat /\ t.chainwork[h] = s.chainwork[h]
      BY <1>3, <2>1
    <3> QED BY ONLY <3>1, <3>2, <3>3
  <2>2. CASE h = new
    BY <1>1, <1>5, <2>2
  <2> QED BY <2>1, <2>2
<1> QED BY <1>3, <1>4, <1>5 DEF LedgerWhole

\* A pending call's block extends the settled tree, and what the call will
\* leave in the accounts is the replay of the block's branch.
LEMMA PendingLedger ==
  ASSUME TreeInv, NEW b, Pending(b), LedgerWhole(settled)
  PROVE  /\ LedgerTree(blocks) /\ id(b) \notin DOMAIN settled.blocks
         /\ DOMAIN blocks = DOMAIN settled.blocks \cup {id(b)}
         /\ \A h \in DOMAIN settled.blocks : blocks[h] = settled.blocks[h]
         /\ Target(b) = Replay(blocks, id(b))
         /\ Atomic!ThisWork(b) \in Nat
<1>1. /\ b \in Submittable /\ Atomic!Storable(b)
      /\ blocks = Insert(settled.blocks, id(b), b)
  BY DEF Pending
<1>2. /\ id(b) \notin DOMAIN settled.blocks /\ b.prev_hash \in DOMAIN settled.blocks
  BY <1>1, SameHash DEF Atomic!Storable, Atomic!Fresh, Atomic!ParentStored
<1>3. /\ DOMAIN blocks = DOMAIN settled.blocks \cup {id(b)}
      /\ blocks[id(b)] = b
      /\ \A h \in DOMAIN settled.blocks : blocks[h] = settled.blocks[h]
  BY <1>1, <1>2 DEF Insert
<1>4. LedgerTree(settled.blocks) /\ settled.tip.hash \in DOMAIN settled.blocks
      /\ Replay(settled.blocks, settled.tip.hash).ok
      /\ settled.accounts = Replay(settled.blocks, settled.tip.hash).accounts
      /\ settled.chainwork[b.prev_hash] \in Nat
  BY <1>2 DEF LedgerWhole
<1>5. LedgerTree(blocks)
  <2>1. /\ DOMAIN blocks \subseteq Hash
        /\ \A h \in DOMAIN blocks : /\ blocks[h].height = Len(h) /\ Len(h) < EpochLength
                                    /\ \A k \in 0..Len(h) : SubSeq(h, 1, k) \in DOMAIN blocks
    BY DEF TreeInv
  <2>2. genesis_block_hash \in DOMAIN blocks
    BY <1>3, <1>4 DEF LedgerTree
  <2>3. \A h \in DOMAIN blocks \ {genesis_block_hash} : blocks[h] \in Submittable
    BY <1>1, <1>3, <1>4 DEF LedgerTree
  <2> QED BY <2>1, <2>2, <2>3 DEF LedgerTree
<1>6. Replay(blocks, settled.tip.hash) = Replay(settled.blocks, settled.tip.hash)
  BY <1>3, <1>4, ReplayInsert
<1>7. Reorg(blocks, settled.accounts, settled.tip.hash, id(b)) = Replay(blocks, id(b))
  <2>1. settled.tip.hash \in DOMAIN blocks /\ id(b) \in DOMAIN blocks
        /\ Replay(blocks, settled.tip.hash).ok
        /\ settled.accounts = Replay(blocks, settled.tip.hash).accounts
    BY <1>3, <1>4, <1>6
  <2> QED BY <1>5, <2>1, ReorgIsReplay
<1>8. Target(b) = Reorg(blocks, settled.accounts, settled.tip.hash, id(b))
  BY SameApply, SameUndo, SameBlocksAt, SamePaths DEF Target, Atomic!SimulateReorg, Reorg
<1>9. Atomic!ThisWork(b) \in Nat
  <2>1. b.difficulty \in Nat
    BY <1>1, SubmittableAssumption, MaxU64Assumption DEF Block, U64
  <2> QED BY <1>4, <2>1 DEF Atomic!ThisWork, Atomic!block_work
<1> QED BY <1>2, <1>3, <1>5, <1>7, <1>8, <1>9

\* A call that returns after its writes leaves a whole ledger.
LEMMA ReturnLedger ==
  ASSUME TreeInv, NEW b, Pending(b), LedgerWhole(settled), settled' = Trees',
         blocks' = blocks, chainwork' = Insert(settled.chainwork, id(b), Atomic!ThisWork(b)),
         \/ /\ tip' = settled.tip /\ accounts' = settled.accounts
            /\ ~ Atomic!OutworksTip(b) \/ ~ Target(b).ok
         \/ /\ tip'.hash = id(b) /\ Atomic!OutworksTip(b)
            /\ Target(b).ok /\ accounts' = Target(b).accounts
  PROVE  LedgerWhole(settled')
<1> DEFINE new == id(b)
           work == Atomic!ThisWork(b)
<1>1. /\ LedgerTree(blocks) /\ new \notin DOMAIN settled.blocks
      /\ DOMAIN blocks = DOMAIN settled.blocks \cup {new}
      /\ \A h \in DOMAIN settled.blocks : blocks[h] = settled.blocks[h]
      /\ Target(b) = Replay(blocks, new)
      /\ work \in Nat
  BY PendingLedger
<1>2. /\ settled'.blocks = blocks /\ settled'.chainwork = chainwork'
      /\ settled'.tip = tip' /\ settled'.accounts = accounts'
  BY DEF Trees
<1>3. DOMAIN settled.chainwork = DOMAIN settled.blocks
  BY DEF Pending
<1>4. /\ chainwork'[new] = work
      /\ \A h \in DOMAIN settled.blocks : chainwork'[h] = settled.chainwork[h]
  BY <1>1, <1>3 DEF Insert
<1>5. Atomic!OutworksTip(b) <=> work > settled.chainwork[settled.tip.hash]
  BY DEF Atomic!OutworksTip
<1>6. settled.chainwork[settled.tip.hash] \in Nat
  BY DEF LedgerWhole
<1> HIDE DEF new, work
<1>7. \/ /\ tip' = settled.tip /\ accounts' = settled.accounts
         /\ Replay(blocks, new).ok => work <= settled.chainwork[settled.tip.hash]
      \/ /\ tip'.hash = new /\ work > settled.chainwork[settled.tip.hash]
         /\ Replay(blocks, new).ok /\ accounts' = Replay(blocks, new).accounts
  BY <1>1, <1>5, <1>6 DEF new
<1> QED BY <1>1, <1>2, <1>4, <1>7, GrowLedger

LEMMA LedgerWholeInit == CommitInit => SettledLedger
<1> SUFFICES ASSUME CommitInit PROVE SettledLedger
  OBVIOUS
<1>1. Init /\ settled = Trees
  BY DEF CommitInit
<1>2. StoreInv /\ StoredSubmitted /\ AccountsReplayCanonical /\ TipIsHeaviestValid
  BY <1>1, ChainInvInit DEF ChainInv
<1>3. LedgerTree(blocks)
  BY <1>2, StoredTree
<1>4. \A h \in DOMAIN blocks : chainwork[h] \in Nat
  BY <1>2 DEF StoreInv, StoreTypeOK, BlockTree
<1>5. tip.hash \in DOMAIN blocks
  BY <1>2 DEF StoreInv, CanonicalIndex
<1>6. /\ settled.blocks = blocks /\ settled.chainwork = chainwork
      /\ settled.tip = tip /\ settled.accounts = accounts
  BY <1>1 DEF Trees
<1>7. LedgerWhole(Trees)
  BY <1>2, <1>3, <1>4, <1>5, ReplayIsReplayOf
     DEF LedgerWhole, Trees, AccountsReplayCanonical, TipIsHeaviestValid
<1> QED BY <1>1, <1>7 DEF SettledLedger

LEMMA LedgerWholeNext ==
  ASSUME CommitInv, torn \/ SettledLedger, [CommitNext]_commit_vars
  PROVE  torn' \/ SettledLedger'
<1> USE DEF SettledLedger
<1>1. CASE torn
  BY <1>1, TornStep
<1>2. CASE torn = FALSE /\ settled' = settled
  BY <1>2
<1>3. CASE torn = FALSE /\ set_chainwork
  <2> DEFINE b == call.block
  <2>1. TreeInv /\ Storing
    <3>1. NoCall.pc = "none" /\ call.pc = "store"
      BY <1>3 DEF NoCall, set_chainwork
    <3> QED BY <1>3, <3>1 DEF CommitInv, Idle, Committing
  <2>2. /\ Pending(b) /\ tip = settled.tip /\ chainwork = settled.chainwork
        /\ accounts = settled.accounts
    BY <2>1 DEF Storing, Pending
  <2>3. /\ ThisWork(b) = Atomic!ThisWork(b)
        /\ OutworksTip(b) <=> Atomic!OutworksTip(b)
    BY <2>2 DEF ThisWork, Atomic!ThisWork, OutworksTip, Atomic!OutworksTip, block_work,
       Atomic!block_work
  <2>4. /\ chainwork' = Insert(settled.chainwork, id(b), Atomic!ThisWork(b))
        /\ blocks' = blocks /\ tip' = settled.tip /\ accounts' = settled.accounts
    BY <1>3, <2>2, <2>3 DEF set_chainwork
  <2>5. SimulateReorg(blocks, tip.hash, id(b)) = Target(b)
    BY <2>2, TargetSame
  <2>6. \/ settled' = settled
        \/ settled' = Trees' /\ (~ Atomic!OutworksTip(b) \/ ~ Target(b).ok)
    BY <1>3, <2>3, <2>5 DEF set_chainwork, Return
  <2> QED BY <1>3, <2>1, <2>2, <2>4, <2>6, ReturnLedger
<1>4. CASE torn = FALSE /\ set_tip
  <2> DEFINE b == call.block
  <2>1. TreeInv /\ Committing
    <3>1. NoCall.pc = "none" /\ call.pc = "commit"
      BY <1>4 DEF NoCall, set_tip
    <3> QED BY <1>4, <3>1 DEF CommitInv, Idle, Storing
  <2>2. /\ Pending(b) /\ Atomic!OutworksTip(b) /\ AccountsLeft(b)
        /\ chainwork = Insert(settled.chainwork, id(b), Atomic!ThisWork(b))
    BY <2>1 DEF Committing
  <2>3. /\ DOMAIN call.overlay = {} /\ tip'.hash = id(b) /\ settled' = Trees'
        /\ UNCHANGED <<blocks, chainwork, accounts>>
    BY <1>4 DEF set_tip, Return
  <2>4. accounts = Target(b).accounts /\ Target(b).ok
    BY <2>1, <2>2, <2>3 DEF AccountsLeft, Simulation, Accounts, TreeInv
  <2> QED BY <1>4, <2>1, <2>2, <2>3, <2>4, ReturnLedger
<1>5. settled' = settled \/ set_chainwork \/ set_tip
  BY DEF CommitNext, Begin, ReturnWithoutWrite, store_block, WriteStep, set_account,
     remove_canonical_height, set_canonical_height, ReadTip, ReadLast, ReadStart, Crash,
     commit_vars
<1> QED BY <1>1, <1>2, <1>3, <1>4, <1>5 DEF CommitInv

\* Until a crash tears a call, what submit_block leaves between two calls is
\* whole, whatever the writes of the calls before were: the index, the
\* accounts and the fork choice.
THEOREM WholeTheorem == CommitSpec => []WholeBetweenCalls
<1>1. CommitInit => /\ CommitInv /\ CrashInv /\ (torn \/ TemplateInv)
                    /\ torn \/ SettledLedger
  BY CommitInvInit, CrashInvInit, TemplateInvInit, LedgerWholeInit
<1>2. /\ CommitInv /\ CrashInv /\ (torn \/ TemplateInv) /\ (torn \/ SettledLedger)
      /\ [CommitNext]_commit_vars
      => /\ CommitInv' /\ CrashInv' /\ (torn' \/ TemplateInv')
         /\ torn' \/ SettledLedger'
  BY CommitInvNext, CrashInvNext, TemplateInvNext, LedgerWholeNext
<1>3. CommitInv /\ (torn \/ TemplateInv) /\ (torn \/ SettledLedger) => WholeBetweenCalls
  <2> SUFFICES ASSUME CommitInv, TemplateInv, SettledLedger, call = NoCall, ~ torn
               PROVE  CanonicalIndex /\ AccountsReplayCanonical /\ TipIsHeaviestValid
    BY DEF WholeBetweenCalls
  <2>1. settled = Trees
    <3>1. NoCall.pc = "none"
      BY DEF NoCall
    <3> QED BY <3>1 DEF CommitInv, Idle, Storing, Committing
  <2>2. /\ settled.blocks = blocks /\ settled.chainwork = chainwork
        /\ settled.heights = heights /\ settled.tip = tip /\ settled.accounts = accounts
    BY <2>1 DEF Trees
  <2>3. CanonicalIndex
    BY <2>2 DEF TemplateInv, SettledIndex, CanonicalIndex
  <2>4. AccountsReplayCanonical
    BY <2>2, ReplayIsReplayOf DEF SettledLedger, LedgerWhole, AccountsReplayCanonical
  <2>5. TipIsHeaviestValid
    BY <2>2, ReplayIsReplayOf DEF SettledLedger, LedgerWhole,
       TipIsHeaviestValid
  <2> QED BY <2>3, <2>4, <2>5
<1> QED BY <1>1, <1>2, <1>3, PTL DEF CommitSpec

=============================================================================
