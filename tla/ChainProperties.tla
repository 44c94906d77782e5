-------------------------- MODULE ChainProperties --------------------------
(***************************************************************************)
(* What makes the consensus core correct.                                  *)
(***************************************************************************)
EXTENDS Chain, FiniteSetsExt

\* The block trees, the index and the tip hold keys and values of their type.
StoreTypeOK ==
  /\ DOMAIN blocks \subseteq Hash /\ blocks \in [DOMAIN blocks -> Block]
  /\ DOMAIN chainwork \subseteq Hash /\ chainwork \in [DOMAIN chainwork -> Nat]
  /\ DOMAIN heights \subseteq Nat /\ heights \in [DOMAIN heights -> Hash]
  /\ tip \in [height : Nat, hash : Hash]

\* At most one dataset is cached.
CacheTypeOK ==
  /\ dataset_cache \in SUBSET [epoch : Nat, seed : Hash \cup {ZERO}]
  /\ Cardinality(dataset_cache) <= 1

\* Every tree, and the dataset cache, holds keys and values of its type.
TypeOK == StoreTypeOK /\ CacheTypeOK /\ accounts \in Accounts

-----------------------------------------------------------------------------

\* The hashes from the block after genesis up to h, and their blocks.
PathTo(h)   == [k \in 1..Len(h) |-> SubSeq(h, 1, k)]
BranchOf(h) == BlocksAt(blocks, PathTo(h))

\* Replaying a stored branch from the genesis balances.
ReplayOf(h) == ApplyBlocks(GenesisAccounts, BranchOf(h))

CanonicalTxs == TxsOf(BranchOf(tip.hash))

\* The store is a tree: every stored block sits under the hash of its own
\* header, its parent is stored one height below, and its chain work is its
\* parent's plus its own ("sum of block_work(difficulty) back to genesis").
BlockTree ==
  /\ DOMAIN chainwork = DOMAIN blocks
  /\ genesis_block_hash \in DOMAIN blocks
  /\ chainwork[genesis_block_hash] = InitialDifficulty
  /\ \A h \in DOMAIN blocks \ {genesis_block_hash} :
       /\ h = id(blocks[h])
       /\ blocks[h].height = Len(h)
       /\ blocks[h].prev_hash \in DOMAIN blocks
       /\ chainwork[h] = chainwork[blocks[h].prev_hash] + blocks[h].difficulty

\* After any sequence of extensions and reorgs, also ones to a shorter but
\* heavier branch, the canonical index lists exactly the tip's ancestors: no
\* height of an undone block is left behind, none is missing.
CanonicalIndex ==
  /\ tip.hash \in DOMAIN blocks
  /\ tip.height = Len(tip.hash)
  /\ heights = [k \in 0..tip.height |-> SubSeq(tip.hash, 1, k)]

\* Undo and reapply are exact: the accounts are those that replaying the
\* canonical chain from genesis gives, whatever branches were tried before.
AccountsReplayCanonical ==
  LET replay == ReplayOf(tip.hash)
  IN  replay.ok /\ accounts = replay.accounts

\* Fork choice: no stored branch whose transactions check out has more work
\* than the tip, in whatever order blocks arrived and whichever failed.
TipIsHeaviestValid ==
  \A h \in DOMAIN blocks : ReplayOf(h).ok => chainwork[h] <= chainwork[tip.hash]

\* The rewards of the first n blocks after genesis.
RewardsUpTo(n) == SumFunction([k \in 1..n |-> block_reward(k)])

\* Money is only created by rewards and only destroyed by fees: balances add
\* up to premine plus canonical rewards minus canonical fees.
SupplyConserved ==
  LET fees == [k \in 1..tip.height |-> FeesIn(blocks[heights[k]])]
  IN  Supply(accounts) + SumFunction(fees) = SumFunction(Premine) + RewardsUpTo(tip.height)

\* u64 is wide enough: the premine and all rewards an epoch can pay stay below
\* its limit, and so does the number of transactions in an epoch of blocks.
ASSUME WidthAssumption ==
  /\ SumFunction(Premine) + RewardsUpTo(EpochLength - 1) < MaxU64
  /\ \A b \in Submittable : Len(b.transactions) <= MaxU64 \div EpochLength

\* No transaction is executed twice on the canonical chain, within a block
\* or across blocks, and the account nonces count what was executed.
NoReplay ==
  LET TxsAt(k) == blocks[heights[k]].transactions
  IN  /\ \A j, k \in 1..tip.height :
           \A x \in DOMAIN TxsAt(j), y \in DOMAIN TxsAt(k) :
             TxsAt(j)[x] = TxsAt(k)[y] => j = k /\ x = y
      /\ \A a \in Address :
           accounts[a].nonce = Cardinality({tx \in CanonicalTxs : tx.from = a})

-----------------------------------------------------------------------------

\* The tip only ever moves to strictly more work: no sequence of submissions
\* makes it go back or oscillate between equal branches.
TipWorkGrows ==
  [][tip' # tip => chainwork'[tip'.hash] > chainwork[tip.hash]]_vars

\* A reorg loses no transaction: each one executed before is executed after
\* or handed back for the mempool, and nothing executed is handed back.
RequeueExact ==
  [][outcome' # outcome /\ outcome'.kind = "Accepted" =>
       /\ CanonicalTxs \subseteq CanonicalTxs' \cup outcome'.requeue
       /\ outcome'.requeue \cap CanonicalTxs' = {}]_vars

-----------------------------------------------------------------------------
(* Retargeting.                                                            *)

\* The difficulty the headers of a hash's own ancestors prescribe for its
\* last block (the hash alone, not the store, is consulted).
PrescribedDifficulty(h) ==
  LET k == Len(h) - 1
      TimeAt(i) == IF i = 0 THEN GenesisTimestamp ELSE h[i].timestamp
  IN  IF k < Window THEN InitialDifficulty
      ELSE next_difficulty(h[k].difficulty, SatSub(TimeAt(k), TimeAt(k - Window)),
                           TargetBlockTime, Window)

\* Every stored block, on whatever branch and however the canonical chain
\* moved since, carries the difficulty its own ancestors prescribe.
BranchRetarget ==
  \A h \in DOMAIN blocks \ {genesis_block_hash} :
    h[Len(h)].difficulty = PrescribedDifficulty(h)

-----------------------------------------------------------------------------
(* Epochs.                                                                 *)

\* What becomes of the epoch rule: the dataset of a height at or past
\* EPOCH_LENGTH is seeded by a canonical block that can itself only be hashed
\* with that dataset, so the store never leaves epoch 0.
StaysInFirstEpoch ==
  /\ \A h \in DOMAIN blocks : blocks[h].height < EpochLength
  /\ \A d \in dataset_cache : d.epoch = 0

-----------------------------------------------------------------------------
(* Liveness, as long as every block keeps being offered.                   *)

Fairness == \A b \in Submittable : WF_vars(Submit(b))

FairSpec == Spec /\ Fairness

\* The hashes whose whole branch may be submitted and passes every check.
Deliverable ==
  LET OnPath(h, k) == {b \in Submittable : id(b) = SubSeq(h, 1, k) /\ StatelessValid(b)}
  IN  {h \in {id(b) : b \in Submittable} :
         /\ \A k \in 1..Len(h) :
              OnPath(h, k) # {} /\ h[k].difficulty = PrescribedDifficulty(SubSeq(h, 1, k))
         /\ ApplyBlocks(GenesisAccounts,
                        [k \in 1..Len(h) |-> CHOOSE b \in OnPath(h, k) : TRUE]).ok}

WorkOf(h) == InitialDifficulty + MapThenSumSet(LAMBDA k : h[k].difficulty, 1..Len(h))

\* docs/ALGORITHM.md on EPOCH_LENGTH: "How often the dataset is regenerated":
\* while blocks keep being offered the chain grows into the next epoch.
ChainEntersNextEpoch == <>(tip.height >= EpochLength)

=============================================================================
