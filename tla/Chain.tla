-------------------------------- MODULE Chain --------------------------------
(***************************************************************************)
(* The consensus core: Chain::submit_block of ondris-core/src/chain.rs     *)
(* over the sled trees of state.rs.  submit_block holds `write_lock` from  *)
(* its first line to its last, so one call is one atomic step here; what   *)
(* is left on disk when a call fails half way is part of the step.         *)
(*                                                                         *)
(* A hash is modelled as the chain of headers it commits to: id(b) appends *)
(* b's own header fields to b.prev_hash.  Equal hashes then mean equal     *)
(* headers and equal ancestors, which is the collision resistance the code *)
(* relies on, and a hash's ancestor at height k is its prefix of length k. *)
(* The root in a header is the leaves of its Merkle tree (module Merkle).  *)
(***************************************************************************)
EXTENDS Ledger, Merkle, FiniteSets

CONSTANTS InitialDifficulty, TargetBlockTime, RetargetWindow,
          GenesisTimestamp,
          Premine,           \* balance each address starts with
          EpochLength,       \* ondris_pow::EPOCH_LENGTH
          ZERO,              \* Hash256::ZERO and the all-zero address
          Submittable,       \* the blocks miners and peers may submit
          MaxBlocks          \* bound: blocks stored beside genesis

ASSUME GenesisAssumption ==
  /\ InitialDifficulty \in U64
  /\ TargetBlockTime \in U64
  /\ RetargetWindow \in Nat
  /\ GenesisTimestamp \in U64
  /\ Premine \in [Address -> U64]

ASSUME EpochAssumption == EpochLength \in Nat \ {0}

HeaderFields == [height : Nat, tx_root : Seq(Transaction), timestamp : U64,
                 difficulty : U64, miner : Address \cup {ZERO},
                 nonce : {"solves", "misses"}]
Hash == Seq(HeaderFields)
Block == [height : Nat, prev_hash : Hash \cup {ZERO}, tx_root : Seq(Transaction),
          timestamp : U64, difficulty : U64, miner : Address \cup {ZERO},
          nonce : {"solves", "misses"}, transactions : Seq(Transaction)]

ASSUME SubmittableAssumption ==
  \A b \in Submittable : b \in Block /\ b.prev_hash # ZERO /\ b.miner # ZERO

VARIABLES
  blocks,         \* tree "blocks":    hash -> block, every block ever stored
  chainwork,      \* tree "chainwork": hash -> cumulative work
  heights,        \* tree "heights":   height -> hash, the canonical chain
  tip,            \* tree "meta":      [height, hash]
  accounts,       \* tree "accounts":  address -> [balance, nonce]
  dataset_cache,  \* Option<(epoch, dataset)>: a set of at most one entry
  outcome         \* what the last submit_block returned

vars == <<blocks, chainwork, heights, tip, accounts, dataset_cache, outcome>>

-----------------------------------------------------------------------------
(* Hashes, work and branches.                                              *)

genesis_block_hash == << >>

id(b) == Append(b.prev_hash,
                [height |-> b.height, tx_root |-> b.tx_root,
                 timestamp |-> b.timestamp, difficulty |-> b.difficulty,
                 miner |-> b.miner, nonce |-> b.nonce])

block_work(difficulty) == difficulty

\* The block `depth` steps back from h along prev_hash (block_ancestor).
block_ancestor(h, depth) == SubSeq(h, 1, Len(h) - depth)

\* fork_paths walks both branches back until their hashes meet: at the
\* longest common prefix.
ForkHeight(old_tip, new_tip) ==
  CHOOSE k \in 0..Len(old_tip) :
    /\ k <= Len(new_tip)
    /\ SubSeq(old_tip, 1, k) = SubSeq(new_tip, 1, k)
    /\ \/ k = Len(old_tip)
       \/ k = Len(new_tip)
       \/ old_tip[k+1] # new_tip[k+1]

undo_list(old_tip, new_tip) ==      \* tip first
  [i \in 1..(Len(old_tip) - ForkHeight(old_tip, new_tip)) |->
     block_ancestor(old_tip, i - 1)]

apply_list(old_tip, new_tip) ==     \* ancestor first
  LET k == ForkHeight(old_tip, new_tip)
  IN  [i \in 1..(Len(new_tip) - k) |-> SubSeq(new_tip, 1, k + i)]

\* The blocks behind a list of hashes, in a given block tree.
BlocksAt(tree, hashes) == [i \in DOMAIN hashes |-> tree[hashes[i]]]

TxsOf(bs) == UNION {{bs[i].transactions[j] : j \in DOMAIN bs[i].transactions} :
                      i \in DOMAIN bs}

\* Adding or overwriting one key of a tree.
Insert(tree, key, value) ==
  [k \in DOMAIN tree \cup {key} |-> IF k = key THEN value ELSE tree[k]]

-----------------------------------------------------------------------------
(* Difficulty: on the canonical index, and on a block's own branch.        *)

Window == AtLeast(RetargetWindow, 1)

compute_next_difficulty(next_height) ==
  IF next_height <= Window THEN InitialDifficulty
  ELSE LET last  == blocks[heights[next_height - 1]]
           start == blocks[heights[next_height - 1 - Window]]
       IN  next_difficulty(last.difficulty, SatSub(last.timestamp, start.timestamp),
                           TargetBlockTime, Window)

\* Mutation: the window start is read off the canonical index instead of the
\* parent's own branch.
expected_difficulty_canonical(parent_hash) ==
  LET parent == blocks[parent_hash]
  IN  IF parent.height + 1 <= Window THEN InitialDifficulty
      ELSE LET k     == parent.height - Window
               start == IF k \in DOMAIN heights THEN blocks[heights[k]] ELSE parent
           IN  next_difficulty(parent.difficulty,
                               SatSub(parent.timestamp, start.timestamp),
                               TargetBlockTime, Window)

expected_difficulty_after(parent_hash) ==
  LET parent == blocks[parent_hash]
  IN  IF parent.height + 1 <= Window THEN InitialDifficulty
      ELSE LET start == blocks[block_ancestor(parent_hash, Window)]
           IN  next_difficulty(parent.difficulty,
                               SatSub(parent.timestamp, start.timestamp),
                               TargetBlockTime, Window)

-----------------------------------------------------------------------------
(* dataset_for_height: the PoW dataset of a height's epoch, from the cache,*)
(* from the fixed seed of epoch 0, or from the canonical block at the      *)
(* epoch's first height.  Hashing needs it, so does building a template.   *)

epoch_of(height) == height \div EpochLength

IsCached(epoch) == \E d \in dataset_cache : d.epoch = epoch

DatasetAvailable(height) ==
  \/ IsCached(epoch_of(height))
  \/ epoch_of(height) = 0
  \/ epoch_of(height) * EpochLength \in DOMAIN heights

CacheAfter(height) ==
  LET epoch == epoch_of(height)
  IN  IF IsCached(epoch) THEN dataset_cache
      ELSE {[epoch |-> epoch,
             seed  |-> IF epoch = 0 THEN ZERO ELSE heights[epoch * EpochLength]]}

-----------------------------------------------------------------------------
(* submit_block, one action per way it returns.  Each action repeats the   *)
(* order of the checks: what precedes its own exit has passed.             *)

NotGenesis(b)     == b.height > 0
StatelessValid(b) == /\ b.tx_root = merkle_root(b.transactions)
                     /\ b.nonce = "solves"
                     /\ \A i \in DOMAIN b.transactions : b.transactions[i].sig
ParentStored(b)   == b.prev_hash \in DOMAIN blocks
FollowsParent(b)  == /\ blocks[b.prev_hash].height + 1 = b.height
                     /\ b.difficulty = expected_difficulty_after(b.prev_hash)

\* The dataset was found and the hash is new to the store.
Fresh(b) == /\ NotGenesis(b)
            /\ DatasetAvailable(b.height)
            /\ id(b) \notin DOMAIN blocks

StoreUnchanged == UNCHANGED <<blocks, chainwork, heights, tip, accounts>>

\* ensure! height > 0, or the epoch boundary block is missing.
RejectBeforeHash(b) ==
  /\ ~ (NotGenesis(b) /\ DatasetAvailable(b.height))
  /\ outcome' = [kind |-> "Err"]
  /\ StoreUnchanged /\ UNCHANGED dataset_cache

ReturnAlreadyKnown(b) ==
  /\ NotGenesis(b) /\ DatasetAvailable(b.height)
  /\ id(b) \in DOMAIN blocks
  /\ dataset_cache' = CacheAfter(b.height)
  /\ outcome' = [kind |-> "AlreadyKnown"]
  /\ StoreUnchanged

\* tx_root, PoW target or a signature.
RejectStateless(b) ==
  /\ Fresh(b)
  /\ ~ StatelessValid(b)
  /\ dataset_cache' = CacheAfter(b.height)
  /\ outcome' = [kind |-> "Err"]
  /\ StoreUnchanged

ReturnOrphan(b) ==
  /\ Fresh(b) /\ StatelessValid(b)
  /\ ~ ParentStored(b)
  /\ dataset_cache' = CacheAfter(b.height)
  /\ outcome' = [kind |-> "Orphan", missing_parent |-> b.prev_hash]
  /\ StoreUnchanged

\* Wrong height after this parent, or wrong difficulty on this branch.
RejectContext(b) ==
  /\ Fresh(b) /\ StatelessValid(b) /\ ParentStored(b)
  /\ ~ FollowsParent(b)
  /\ dataset_cache' = CacheAfter(b.height)
  /\ outcome' = [kind |-> "Err"]
  /\ StoreUnchanged

\* Every check before storing has passed.
Storable(b) == Fresh(b) /\ StatelessValid(b) /\ ParentStored(b) /\ FollowsParent(b)

\* Mutation: work accumulated on top of the tip instead of the parent.
ThisWorkOnTip(b) == chainwork[tip.hash] + block_work(b.difficulty)

ThisWork(b) == chainwork[b.prev_hash] + block_work(b.difficulty)

\* Mutations: a tie displaces the tip; the longest branch wins instead of the
\* heaviest; only a direct extension of the tip is ever adopted.
TiesWithTip(b) == ThisWork(b) >= chainwork[tip.hash]
OutgrowsTip(b) == b.height > tip.height
ExtendsTip(b)  == b.prev_hash = tip.hash

OutworksTip(b) == ThisWork(b) > chainwork[tip.hash]

StoreBlock(b) ==
  /\ dataset_cache' = CacheAfter(b.height)
  /\ blocks' = Insert(blocks, id(b), b)
  /\ chainwork' = Insert(chainwork, id(b), ThisWork(b))

StoreSideBranch(b) ==
  /\ Storable(b) /\ ~ OutworksTip(b)
  /\ StoreBlock(b)
  /\ outcome' = [kind |-> "SideBranch", hash |-> id(b), height |-> b.height]
  /\ UNCHANGED <<heights, tip, accounts>>

\* The overlay simulation of reconsider_tip: undo the old branch down to
\* the fork, apply the new one on top.
SimulateReorg(tree, old_tip, new_tip) ==
  ApplyBlocks(UndoBlocks(accounts, BlocksAt(tree, undo_list(old_tip, new_tip))),
              BlocksAt(tree, apply_list(old_tip, new_tip)))

\* reconsider_tip fails on a transaction of the new branch: submit_block
\* returns the error with the block and its work already stored.
StoreThenFail(b) ==
  /\ Storable(b) /\ OutworksTip(b)
  /\ StoreBlock(b)
  /\ ~ SimulateReorg(blocks', tip.hash, id(b)).ok
  /\ outcome' = [kind |-> "Err"]
  /\ UNCHANGED <<heights, tip, accounts>>

\* Mutation: only the new tip's height is indexed.
ReindexedTipOnly(old_tip, new_tip) ==
  [k \in {j \in DOMAIN heights : j < Len(new_tip)} \cup {Len(new_tip)} |->
     IF k = Len(new_tip) THEN new_tip ELSE heights[k]]

\* remove_canonical_height for every undone block, then
\* set_canonical_height for every applied one.
ReindexedHeights(old_tip, new_tip) ==
  LET undone  == {Len(old_tip) + 1 - i : i \in DOMAIN undo_list(old_tip, new_tip)}
      applied == {Len(apply_list(old_tip, new_tip)[i]) :
                    i \in DOMAIN apply_list(old_tip, new_tip)}
  IN  [k \in (DOMAIN heights \ undone) \cup applied |->
         IF k \in applied THEN SubSeq(new_tip, 1, k) ELSE heights[k]]

\* Mutation: every undone transaction is handed back.
RequeueAll(tree, old_tip, new_tip) ==
  TxsOf(BlocksAt(tree, undo_list(old_tip, new_tip)))

Requeue(tree, old_tip, new_tip) ==
  TxsOf(BlocksAt(tree, undo_list(old_tip, new_tip)))
    \ TxsOf(BlocksAt(tree, apply_list(old_tip, new_tip)))

StoreAndAdopt(b) ==
  /\ Storable(b) /\ OutworksTip(b)
  /\ StoreBlock(b)
  /\ LET sim == SimulateReorg(blocks', tip.hash, id(b))
     IN  sim.ok /\ accounts' = sim.accounts
  /\ heights' = ReindexedHeights(tip.hash, id(b))
  /\ tip' = [height |-> b.height, hash |-> id(b)]
  /\ outcome' = [kind    |-> "Accepted", hash |-> id(b), height |-> b.height,
                 reorged |-> tip.hash # b.prev_hash,
                 requeue |-> Requeue(blocks', tip.hash, id(b))]

submit_block(b) ==
  \/ RejectBeforeHash(b)
  \/ ReturnAlreadyKnown(b)
  \/ RejectStateless(b)
  \/ ReturnOrphan(b)
  \/ RejectContext(b)
  \/ StoreSideBranch(b)
  \/ StoreThenFail(b)
  \/ StoreAndAdopt(b)

-----------------------------------------------------------------------------
(* The other operations that touch this state.                             *)

\* work_template reads the tip and leaves the next height's dataset cached.
work_template ==
  /\ DatasetAvailable(tip.height + 1)
  /\ dataset_cache' = CacheAfter(tip.height + 1)
  /\ StoreUnchanged /\ UNCHANGED outcome

\* Chain::open on an existing database: the trees are back, the cache is not.
Restart ==
  /\ dataset_cache' = {}
  /\ outcome' = [kind |-> "None"]
  /\ StoreUnchanged

\* Chain::open on an empty database: init_genesis.
GenesisBlock ==
  [height |-> 0, prev_hash |-> ZERO, tx_root |-> << >>,
   timestamp |-> GenesisTimestamp, difficulty |-> InitialDifficulty,
   miner |-> ZERO, nonce |-> "misses", transactions |-> << >>]

GenesisAccounts == [a \in Address |-> [balance |-> Premine[a], nonce |-> 0]]

Init ==
  /\ blocks = [h \in {genesis_block_hash} |-> GenesisBlock]
  /\ chainwork = [h \in {genesis_block_hash} |-> block_work(InitialDifficulty)]
  /\ heights = [k \in {0} |-> genesis_block_hash]
  /\ tip = [height |-> 0, hash |-> genesis_block_hash]
  /\ accounts = GenesisAccounts
  /\ dataset_cache = {}
  /\ outcome = [kind |-> "None"]

\* The bound on stored blocks; blocks already stored may be resubmitted.
WithinBound(b) == id(b) \in DOMAIN blocks \/ Cardinality(DOMAIN blocks) <= MaxBlocks

Submit(b) == WithinBound(b) /\ submit_block(b)

Next == \/ \E b \in Submittable : Submit(b)
        \/ work_template
        \/ Restart

Spec == Init /\ [][Next]_vars

=============================================================================
