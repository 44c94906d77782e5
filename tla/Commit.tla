------------------------------- MODULE Commit -------------------------------
(***************************************************************************)
(* Chain::submit_block as the series of sled writes it is.  Module Chain   *)
(* takes a call as one step, because calls exclude one another.  Two       *)
(* things do see the store between two writes: the process can stop there, *)
(* and GET /work (Chain::work_template) reads tip, index and blocks        *)
(* without the lock.                                                       *)
(*                                                                         *)
(* All trees of a sled database share one log, so what a crash leaves is   *)
(* the effect of a prefix of the writes; a write that is lost with the     *)
(* unflushed tail of the log is a crash before that write.                 *)
(***************************************************************************)
EXTENDS ChainProperties

CONSTANT MaxCrashes          \* bound: crashes of the process

ASSUME CrashAssumption == MaxCrashes \in Nat

VARIABLES
  call,       \* the running submit_block: what it still has to write, and (history)
              \*   the dataset cache it started with
  template,   \* a work_template in progress, or the answer it came to
  settled,    \* history: the trees between two calls, up to a torn one
  torn,       \* history: a crash interrupted a call
  crashes     \* crashes so far

commit_vars == <<blocks, chainwork, heights, tip, accounts, dataset_cache, outcome,
                 call, template, settled, torn, crashes>>

Trees == [blocks |-> blocks, chainwork |-> chainwork, heights |-> heights,
          tip |-> tip, accounts |-> accounts]

NoCall     == [pc |-> "none"]
NoTemplate == [pc |-> "none"]

\* The running call returns.
Return(result) ==
  /\ call' = NoCall
  /\ outcome' = result
  /\ settled' = IF torn THEN settled ELSE Trees'

-----------------------------------------------------------------------------
(* submit_block.                                                           *)

\* A crash can leave a block without its chain work.
ParentHasWork(b) == b.prev_hash \in DOMAIN chainwork

\* "missing chainwork for known parent"
RejectMissingWork(b) ==
  /\ Storable(b) /\ ~ ParentHasWork(b)
  /\ dataset_cache' = CacheAfter(b.height)
  /\ outcome' = [kind |-> "Err"]
  /\ StoreUnchanged

\* The returns before the first write.
ReturnWithoutWrite(b) ==
  /\ call = NoCall
  /\ \/ RejectBeforeHash(b)
     \/ ReturnAlreadyKnown(b)
     \/ RejectStateless(b)
     \/ ReturnOrphan(b)
     \/ RejectContext(b)
     \/ RejectMissingWork(b)
  /\ UNCHANGED <<call, template, settled, torn, crashes>>

store_block(b) ==
  /\ call = NoCall
  /\ Storable(b) /\ ParentHasWork(b)
  /\ call' = [pc |-> "store", block |-> b, cache |-> dataset_cache]
  /\ dataset_cache' = CacheAfter(b.height)
  /\ blocks' = Insert(blocks, id(b), b)
  /\ UNCHANGED <<chainwork, heights, tip, accounts, outcome, template, settled, torn,
                 crashes>>

\* The addresses in the overlay of reconsider_tip: everyone the undone and
\* the applied blocks touch.
Touched(bs) ==
  {bs[i].miner : i \in DOMAIN bs} \cup UNION {{tx.from, tx.to} : tx \in TxsOf(bs)}

\* The writes reconsider_tip ends with: the accounts (a HashMap, in any
\* order), the undone heights, the applied heights, the tip.
WritesOf(b, sim) ==
  LET undo  == undo_list(tip.hash, id(b))
      apply == apply_list(tip.hash, id(b))
  IN  [pc      |-> "commit",
       block   |-> b,
       cache   |-> call.cache,
       overlay |-> [a \in Touched(BlocksAt(blocks, undo \o apply)) |-> sim.accounts[a]],
       undo    |-> undo,
       apply   |-> apply,
       result  |-> [kind    |-> "Accepted", hash |-> id(b), height |-> b.height,
                    reorged |-> tip.hash # b.prev_hash,
                    requeue |-> Requeue(blocks, tip.hash, id(b))]]

\* set_chainwork, the comparison with the tip and the simulation.  Unless the
\* block is adopted this is the call's last write.
set_chainwork ==
  LET b    == call.block
      work == ThisWork(b)
      sim  == SimulateReorg(blocks, tip.hash, id(b))
  IN  /\ call.pc = "store"
      /\ chainwork' = Insert(chainwork, id(b), work)
      /\ UNCHANGED <<blocks, heights, tip, accounts, dataset_cache, template, torn,
                     crashes>>
      /\ \/ /\ ~ OutworksTip(b)
            /\ Return([kind |-> "SideBranch", hash |-> id(b), height |-> b.height])
         \/ /\ OutworksTip(b) /\ ~ sim.ok
            /\ Return([kind |-> "Err"])
         \/ /\ OutworksTip(b) /\ sim.ok
            /\ call' = WritesOf(b, sim)
            /\ UNCHANGED <<outcome, settled>>

set_account(a) ==
  /\ call.pc = "commit" /\ a \in DOMAIN call.overlay
  /\ accounts' = [accounts EXCEPT ![a] = call.overlay[a]]
  /\ call' = [call EXCEPT !.overlay = [x \in DOMAIN @ \ {a} |-> @[x]]]
  /\ UNCHANGED <<blocks, chainwork, heights, tip, dataset_cache, outcome, template,
                 settled, torn, crashes>>

\* Mutations: the undone heights stay; they are overwritten with a zero hash.
remove_canonical_height_not ==
  /\ call.pc = "commit" /\ DOMAIN call.overlay = {} /\ call.undo # << >>
  /\ call' = [call EXCEPT !.undo = Tail(@)]
  /\ UNCHANGED <<blocks, chainwork, heights, tip, accounts, dataset_cache, outcome,
                 template, settled, torn, crashes>>
remove_canonical_height_zeroing ==
  /\ call.pc = "commit" /\ DOMAIN call.overlay = {} /\ call.undo # << >>
  /\ heights' = [heights EXCEPT ![blocks[Head(call.undo)].height] = ZERO]
  /\ call' = [call EXCEPT !.undo = Tail(@)]
  /\ UNCHANGED <<blocks, chainwork, tip, accounts, dataset_cache, outcome, template,
                 settled, torn, crashes>>

remove_canonical_height ==
  /\ call.pc = "commit" /\ DOMAIN call.overlay = {} /\ call.undo # << >>
  /\ heights' = [k \in DOMAIN heights \ {blocks[Head(call.undo)].height} |-> heights[k]]
  /\ call' = [call EXCEPT !.undo = Tail(@)]
  /\ UNCHANGED <<blocks, chainwork, tip, accounts, dataset_cache, outcome, template,
                 settled, torn, crashes>>

set_canonical_height ==
  /\ call.pc = "commit" /\ DOMAIN call.overlay = {} /\ call.undo = << >>
  /\ call.apply # << >>
  /\ LET h == Head(call.apply) IN heights' = Insert(heights, blocks[h].height, h)
  /\ call' = [call EXCEPT !.apply = Tail(@)]
  /\ UNCHANGED <<blocks, chainwork, tip, accounts, dataset_cache, outcome, template,
                 settled, torn, crashes>>

\* The last write; the call returns.
set_tip ==
  /\ call.pc = "commit" /\ DOMAIN call.overlay = {}
  /\ call.undo = << >> /\ call.apply = << >>
  /\ tip' = [height |-> call.block.height, hash |-> id(call.block)]
  /\ UNCHANGED <<blocks, chainwork, heights, accounts, dataset_cache, template, torn,
                 crashes>>
  /\ Return(call.result)

Begin(b) == WithinBound(b) /\ (ReturnWithoutWrite(b) \/ store_block(b))

WriteStep ==
  \/ set_chainwork
  \/ \E a \in Address : set_account(a)
  \/ remove_canonical_height
  \/ set_canonical_height
  \/ set_tip

-----------------------------------------------------------------------------
(* work_template, one action per read of the tip or the index.  In epoch 0, *)
(* the only one a chain reaches, the dataset needs no read of the store.   *)

ReadTip ==
  /\ template.pc \in {"none", "answer"}
  /\ DatasetAvailable(tip.height + 1)
  /\ dataset_cache' = CacheAfter(tip.height + 1)
  /\ template' = IF tip.height + 1 <= Window
                 THEN [pc |-> "answer", prev_hash |-> tip.hash,
                       difficulty |-> InitialDifficulty]
                 ELSE [pc |-> "last", height |-> tip.height, prev_hash |-> tip.hash]
  /\ UNCHANGED <<blocks, chainwork, heights, tip, accounts, outcome, call, settled,
                 torn, crashes>>

\* "block not found": the request fails when an index entry is missing.
ReadLast ==
  /\ template.pc = "last"
  /\ template' = IF template.height \in DOMAIN heights
                 THEN [pc |-> "start", height |-> template.height,
                       prev_hash |-> template.prev_hash,
                       last |-> heights[template.height]]
                 ELSE NoTemplate
  /\ UNCHANGED <<blocks, chainwork, heights, tip, accounts, dataset_cache, outcome,
                 call, settled, torn, crashes>>

\* Mutation: the window starts one block late.
ReadStartLate ==
  /\ template.pc = "start"
  /\ LET k    == template.height - Window + 1
         last == blocks[template.last]
     IN  template' =
           IF k \in DOMAIN heights
           THEN [pc |-> "answer", prev_hash |-> template.prev_hash,
                 difficulty |->
                   next_difficulty(last.difficulty,
                                   SatSub(last.timestamp, blocks[heights[k]].timestamp),
                                   TargetBlockTime, Window)]
           ELSE NoTemplate
  /\ UNCHANGED <<blocks, chainwork, heights, tip, accounts, dataset_cache, outcome,
                 call, settled, torn, crashes>>

ReadStart ==
  /\ template.pc = "start"
  /\ LET k    == template.height - Window
         last == blocks[template.last]
     IN  template' =
           IF k \in DOMAIN heights
           THEN [pc |-> "answer", prev_hash |-> template.prev_hash,
                 difficulty |->
                   next_difficulty(last.difficulty,
                                   SatSub(last.timestamp, blocks[heights[k]].timestamp),
                                   TargetBlockTime, Window)]
           ELSE NoTemplate
  /\ UNCHANGED <<blocks, chainwork, heights, tip, accounts, dataset_cache, outcome,
                 call, settled, torn, crashes>>

-----------------------------------------------------------------------------

\* The process stops, within a call or between two, and Chain::open finds a
\* database with a tip: it repairs nothing.
Crash ==
  /\ crashes < MaxCrashes
  /\ crashes' = crashes + 1
  /\ torn' = (torn \/ call # NoCall)
  /\ call' = NoCall /\ template' = NoTemplate
  /\ Restart
  /\ UNCHANGED settled

CommitInit ==
  /\ Init
  /\ call = NoCall /\ template = NoTemplate
  /\ settled = Trees /\ torn = FALSE /\ crashes = 0

CommitNext ==
  \/ \E b \in Submittable : Begin(b)
  \/ WriteStep
  \/ ReadTip \/ ReadLast \/ ReadStart
  \/ Crash

CommitSpec == CommitInit /\ [][CommitNext]_commit_vars

-----------------------------------------------------------------------------
(* What the writes promise.                                                *)

\* The atomic core, over what there is between two calls.
Atomic == INSTANCE Chain WITH
            blocks        <- settled.blocks,
            chainwork     <- settled.chainwork,
            heights       <- settled.heights,
            tip           <- settled.tip,
            accounts      <- settled.accounts,
            dataset_cache <- IF torn THEN {}
                             ELSE IF call = NoCall THEN dataset_cache ELSE call.cache,
            outcome       <- IF torn THEN [kind |-> "None"] ELSE outcome

\* chain.rs takes write_lock "for the whole call": until a crash interrupts
\* one, the series of writes of a call, whatever template requests read in
\* between, leaves what the atomic submit_block of module Chain leaves.
ImplementsAtomic == Atomic!Spec

\* What any crash leaves is still a tree of blocks: parents are there, a chain
\* work is the sum along its branch, a block without chain work is one whose
\* call was cut short and has no children, the tip has its work, and every
\* index entry names a stored block of that height.
StoreSurvivesCrash ==
  /\ genesis_block_hash \in DOMAIN chainwork
  /\ chainwork[genesis_block_hash] = block_work(InitialDifficulty)
  /\ DOMAIN chainwork \subseteq DOMAIN blocks
  /\ \A h \in DOMAIN blocks \ {genesis_block_hash} :
       /\ h = id(blocks[h])
       /\ blocks[h].prev_hash \in DOMAIN chainwork
       /\ h \in DOMAIN chainwork =>
            chainwork[h] = chainwork[blocks[h].prev_hash] + block_work(blocks[h].difficulty)
  /\ LET cut_short == DOMAIN blocks \ DOMAIN chainwork
     IN  Cardinality(cut_short) <= crashes + (IF call.pc = "store" THEN 1 ELSE 0)
  /\ tip.hash \in DOMAIN chainwork
  /\ \A k \in DOMAIN heights : heights[k] \in DOMAIN blocks /\ Len(heights[k]) = k

\* Between two calls the store is what docs and readers rely on, also after a
\* reorg to a shorter branch under changing difficulties: the index lists the
\* tip's ancestors, the accounts are their replay, and no stored branch that
\* checks out has more work.
WholeBetweenCalls ==
  call = NoCall /\ ~ torn =>
    CanonicalIndex /\ AccountsReplayCanonical /\ TipIsHeaviestValid

\* A template carries the difficulty submit_block will demand on its parent,
\* although its reads may straddle a reorg: if not, the parent is about to
\* stop being the tip or has stopped, so the work was stale anyway.
TemplateFollowsTip ==
  template.pc = "answer" =>
    \/ template.difficulty = PrescribedDifficulty(Append(template.prev_hash, "next"))
    \/ template.prev_hash # tip.hash
    \/ call.pc = "commit"
    \/ torn

=============================================================================
