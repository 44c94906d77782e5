----------------------------- MODULE NodeProofs -----------------------------
(***************************************************************************)
(* A node implements the consensus core, so what is proved of the core     *)
(* holds of a node with any number of tasks, orphans and restarts.         *)
(***************************************************************************)
EXTENDS NodeProperties, ChainProofs

\* A task's record holds blocks that peers announced or miners submitted.
WorkOK(w) ==
  /\ w.children \in Seq(Submittable)
  /\ w.pc = "buffer" => w.block \in Submittable

TasksOK   == task = [t \in Task |-> task[t]] /\ \A t \in Task : WorkOK(task[t])
OrphansOK == \A h \in DOMAIN orphans : orphans[h] \in Seq(Submittable)
NodeInv   == TasksOK /\ OrphansOK

\* Leaving a loop body, and a return of submit_block, keep the record sound.
LEMMA ContinueOK ==
  ASSUME NEW queue, NEW children \in Seq(Submittable)
  PROVE  WorkOK(Continue(queue, children))
BY DEF Continue, Work, Idle, WorkOK

LEMMA AfterSubmitOK ==
  ASSUME NEW b \in Submittable, NEW result, NEW queue,
         NEW children \in Seq(Submittable)
  PROVE  WorkOK(AfterSubmit(b, result, queue, children))
<1>1. WorkOK(Continue(queue, children))
  BY ContinueOK
<1>2. WorkOK(Work("announce", b, result, queue, children))
  BY DEF WorkOK, Work
<1>3. WorkOK(Work("buffer", b, result, queue, children))
  BY DEF WorkOK, Work
<1> QED BY <1>1, <1>2, <1>3 DEF AfterSubmit

\* Replacing one task's record by a sound one keeps all of them sound.
LEMMA OneTask ==
  ASSUME TasksOK, NEW t \in Task, NEW w, WorkOK(w),
         task' = [task EXCEPT ![t] = w]
  PROVE  TasksOK'
<1>1. task' = [u \in Task |-> IF u = t THEN w ELSE task[u]]
  BY DEF TasksOK
<1>2. \A u \in Task : WorkOK(task'[u])
  BY <1>1 DEF TasksOK
<1>3. \A u \in Task : WorkOK(task[u])'
  BY <1>2 DEF WorkOK
<1> QED BY <1>1, <1>3 DEF TasksOK

\* Nobody but the environment's blocks reach submit_block, and the buffers
\* keep nothing else.
LEMMA SubmitAsStep ==
  ASSUME TasksOK, NEW t \in Task, NEW b \in Submittable, NEW queue,
         NEW children \in Seq(Submittable), SubmitAs(t, b, queue, children)
  PROVE  TasksOK' /\ Next
<1>1. TasksOK'
  <2>1. WorkOK(AfterSubmit(b, outcome', queue, children))
    BY AfterSubmitOK
  <2> QED BY <2>1, OneTask DEF SubmitAs
<1>2. Next
  BY DEF SubmitAs, Next
<1> QED BY <1>1, <1>2

\* An empty buffer is sound.
LEMMA EmptyOrphans ==
  ASSUME NEW o, o = << >>
  PROVE  \A h \in DOMAIN o : o[h] \in Seq(Submittable)
<1>1. DOMAIN o = 1..0
  BY EmptySeq, LenProperties
<1> QED BY <1>1

LEMMA IdleOK == WorkOK(Idle)
BY DEF WorkOK, Idle, Work

\* The initial state and a restart leave every task idle.
LEMMA AllIdle ==
  ASSUME NEW f, f = [t \in Task |-> Idle]
  PROVE  f = [t \in Task |-> f[t]] /\ \A t \in Task : WorkOK(f[t])
BY IdleOK

LEMMA NodeInvInit == NodeInit => NodeInv
<1> SUFFICES ASSUME NodeInit PROVE NodeInv
  OBVIOUS
<1>1. TasksOK
  BY AllIdle DEF NodeInit, TasksOK
<1>2. OrphansOK
  BY EmptyOrphans DEF NodeInit, OrphansOK
<1> QED BY <1>1, <1>2 DEF NodeInv

\* A step that is not a submission leaves the core alone.
LEMMA NodeStep ==
  ASSUME NodeInv, NEW t \in Task, Step(t)
  PROVE  NodeInv' /\ [Next]_vars
<1> USE DEF NodeInv
<1> DEFINE w == task[t]
<1>0. WorkOK(w) /\ w.children \in Seq(Submittable)
  BY DEF TasksOK, WorkOK
<1> HIDE DEF w
<1>1. CASE Announce(t)
  <2>1. WorkOK(Continue(w.queue, w.children))
    BY <1>0, ContinueOK
  <2>2. WorkOK(Work("prune", w.block, w.outcome, w.queue, w.children))
    BY <1>0 DEF WorkOK, Work
  <2>3. TasksOK'
    BY <1>1, <2>1, <2>2, OneTask DEF Announce, w
  <2>4. OrphansOK' /\ UNCHANGED vars
    BY <1>1 DEF Announce, OrphansOK
  <2> QED BY <2>3, <2>4
<1>2. CASE Prune(t)
  <2>1. WorkOK(Work("requeue", w.block, w.outcome, w.queue, w.children))
    BY <1>0 DEF WorkOK, Work
  <2>2. TasksOK'
    BY <1>2, <2>1, OneTask DEF Prune, w
  <2>3. OrphansOK' /\ UNCHANGED vars
    BY <1>2 DEF Prune, OrphansOK
  <2> QED BY <2>2, <2>3
<1>3. CASE RequeueDisplaced(t)
  <2>1. WorkOK(Continue(Append(w.queue, w.outcome.hash), w.children))
    BY <1>0, ContinueOK
  <2>2. TasksOK'
    BY <1>3, <2>1, OneTask DEF RequeueDisplaced, w
  <2>3. OrphansOK' /\ UNCHANGED vars
    BY <1>3 DEF RequeueDisplaced, OrphansOK
  <2> QED BY <2>2, <2>3
<1>4. CASE BufferOrphan(t)
  <2> DEFINE h == w.outcome.missing_parent
             waiting == IF h \in DOMAIN orphans THEN orphans[h] ELSE << >>
             longer == Append(waiting, w.block)
  <2>1. w.block \in Submittable
    BY <1>0, <1>4 DEF BufferOrphan, WorkOK, w
  <2>2. waiting \in Seq(Submittable)
    BY DEF OrphansOK
  <2>3. longer \in Seq(Submittable)
    <3> HIDE DEF waiting
    <3> QED BY <2>1, <2>2, AppendProperties
  <2>4. orphans' = Insert(orphans, h, longer)
    BY <1>4 DEF BufferOrphan, w
  <2>5. OrphansOK'
    <3> HIDE DEF h, longer
    <3> QED BY <2>3, <2>4 DEF OrphansOK, Insert
  <2>6. WorkOK(Continue(w.queue, w.children))
    BY <1>0, ContinueOK
  <2>7. TasksOK'
    BY <1>4, <2>6, OneTask DEF BufferOrphan, w
  <2>8. UNCHANGED vars
    BY <1>4 DEF BufferOrphan
  <2> QED BY <2>5, <2>7, <2>8
<1>5. CASE TakeOrphans(t)
  <2> DEFINE h == Head(w.queue)
             found == IF h \in DOMAIN orphans THEN orphans[h] ELSE << >>
  <2>1. found \in Seq(Submittable)
    BY DEF OrphansOK
  <2>2. WorkOK(Continue(Tail(w.queue), found))
    <3> HIDE DEF found
    <3> QED BY <2>1, ContinueOK
  <2>3. task' = [task EXCEPT ![t] = Continue(Tail(w.queue), found)]
    BY <1>5 DEF TakeOrphans, w
  <2>4. TasksOK'
    <3> HIDE DEF found
    <3> QED BY <2>2, <2>3, OneTask
  <2>5. OrphansOK' /\ UNCHANGED vars
    BY <1>5 DEF TakeOrphans, OrphansOK
  <2> QED BY <2>4, <2>5
<1>6. CASE SubmitChild(t)
  <2>1. w.children # << >> /\ SubmitAs(t, Head(w.children), w.queue, Tail(w.children))
    BY <1>6 DEF SubmitChild, w
  <2>2. Head(w.children) \in Submittable /\ Tail(w.children) \in Seq(Submittable)
    BY <1>0, <2>1, HeadTailProperties
  <2>3. TasksOK' /\ Next
    BY <2>1, <2>2, SubmitAsStep, Zenon
  <2>4. OrphansOK'
    BY <1>6 DEF SubmitChild, OrphansOK
  <2> QED BY <2>3, <2>4
<1> QED BY <1>1, <1>2, <1>3, <1>4, <1>5, <1>6 DEF Step

\* So does every step of the node, or it is one of the core's.
LEMMA NodeInvNext ==
  ASSUME NodeInv, [NodeNext]_node_vars
  PROVE  NodeInv' /\ [Next]_vars
<1> USE DEF NodeInv
<1>0. << >> \in Seq(Submittable)
  OBVIOUS
<1>1. CASE \E t \in Task : Step(t)
  BY <1>1, NodeStep
<1>2. ASSUME NEW t \in Task, NEW b \in Submittable, Arrive(t, b)
      PROVE  NodeInv' /\ [Next]_vars
  <2>1. SubmitAs(t, b, << >>, << >>) /\ OrphansOK'
    BY <1>2 DEF Arrive, OrphansOK
  <2>2. TasksOK' /\ Next
    BY <1>0, <2>1, SubmitAsStep, Zenon
  <2> QED BY <2>1, <2>2
<1>3. ASSUME NEW h \in asked, NEW b \in Submittable, Respond(h, b)
      PROVE  NodeInv' /\ [Next]_vars
  <2>1. "net" \in Task /\ SubmitAs("net", b, << >>, << >>) /\ OrphansOK'
    BY <1>3 DEF Respond, OrphansOK
  <2>2. TasksOK' /\ Next
    BY <1>0, <2>1, SubmitAsStep, Zenon
  <2> QED BY <2>1, <2>2
<1>4. ASSUME NEW h \in asked, NoAnswer(h)
      PROVE  NodeInv' /\ [Next]_vars
  BY <1>4 DEF NoAnswer, TasksOK, WorkOK, OrphansOK
<1>5. ASSUME NEW tx \in Offered, NewTransaction(tx)
      PROVE  NodeInv' /\ [Next]_vars
  BY <1>5 DEF NewTransaction, TasksOK, WorkOK, OrphansOK
<1>6. CASE GetWork
  <2>1. TasksOK' /\ OrphansOK'
    BY <1>6 DEF GetWork, TasksOK, WorkOK, OrphansOK
  <2>2. Next
    BY <1>6 DEF GetWork, Next
  <2> QED BY <2>1, <2>2
<1>7. CASE RestartNode
  <2>1. TasksOK'
    BY <1>7, AllIdle DEF RestartNode, TasksOK, WorkOK
  <2>2. OrphansOK'
    BY <1>7, EmptyOrphans DEF RestartNode, OrphansOK
  <2>3. Next
    BY <1>7 DEF RestartNode, Next
  <2> QED BY <2>1, <2>2, <2>3
<1>8. CASE UNCHANGED node_vars
  <2>1. TasksOK' /\ OrphansOK'
    BY <1>8 DEF node_vars, TasksOK, WorkOK, OrphansOK
  <2>2. UNCHANGED vars
    BY <1>8 DEF node_vars, vars
  <2> QED BY <2>1, <2>2
<1> QED BY <1>1, <1>2, <1>3, <1>4, <1>5, <1>6, <1>7, <1>8 DEF NodeNext

-----------------------------------------------------------------------------

\* A node implements the consensus core: whatever its tasks, peers, miners
\* and restarts do (accept_and_broadcast, handle_outcome, the event loop), the
\* store only changes as submit_block, work_template and Chain::open say.
THEOREM NodeImplementsChain == NodeSpec => ImplementsChain
<1>1. NodeInit => Init
  BY DEF NodeInit
<1>2. NodeInv /\ [NodeNext]_node_vars => NodeInv' /\ [Next]_vars
  BY NodeInvNext
<1> QED BY NodeInvInit, <1>1, <1>2, PTL DEF NodeSpec, ImplementsChain, Spec

\* Hence a node's block tree, canonical index and tip are those of the core,
\* under any interleaving of tasks.
THEOREM NodeStoreTheorem ==
  NodeSpec => /\ []BlockTree
              /\ []CanonicalIndex
              /\ TipWorkGrows
BY NodeImplementsChain, BlockTreeTheorem, CanonicalIndexTheorem, TipWorkGrowsTheorem, PTL
   DEF ImplementsChain

\* So are its ledger, its fork choice and what a reorg hands back.
THEOREM NodeLedgerTheorem ==
  NodeSpec => /\ []AccountsReplayCanonical
              /\ []TipIsHeaviestValid
              /\ []SupplyConserved
              /\ []NoReplay
              /\ RequeueExact
BY NodeImplementsChain, AccountsReplayTheorem, ForkChoiceTheorem, SupplyTheorem,
   NoReplayTheorem, RequeueExactTheorem, PTL
   DEF ImplementsChain

-----------------------------------------------------------------------------
(* What one submission does, as the task that made it sees it.             *)

\* The canonical transactions, read off the index or along the tip's branch.
LEMMA SameCanonical == ChainInv => CanonicalTransactions = CanonicalTxs
<1> SUFFICES ASSUME ChainInv PROVE CanonicalTransactions = CanonicalTxs
  OBVIOUS
<1>1. /\ tip.height = Len(tip.hash)
      /\ \A k \in 1..tip.height : heights[k] = SubSeq(tip.hash, 1, k)
  BY CanonicalSound
<1>2. BranchOf(tip.hash) = [k \in 1..tip.height |-> blocks[SubSeq(tip.hash, 1, k)]]
  BY <1>1 DEF BranchOf, BlocksAt, PathTo
<1>3. [k \in 1..tip.height |-> blocks[heights[k]]] = BranchOf(tip.hash)
  BY <1>1, <1>2
<1> QED BY <1>3, Zenon DEF CanonicalTransactions, CanonicalTxs

IndexReadsBranch == CanonicalTransactions = CanonicalTxs

LEMMA SameCanonicalNext == ChainInv' => CanonicalTransactions' = CanonicalTxs'
<1>1. ChainInv => IndexReadsBranch
  BY SameCanonical DEF IndexReadsBranch
<1>2. ChainInv' => IndexReadsBranch'
  BY <1>1, PTL
<1> QED BY <1>2 DEF IndexReadsBranch

\* The ways a call of submit_block returns.
LEMMA SubmitCases ==
  ASSUME NEW b \in Submittable, Submit(b)
  PROVE  \/ outcome'.kind = "Accepted" /\ StoreAndAdopt(b)
         \/ outcome'.kind = "SideBranch" /\ StoreSideBranch(b)
         \/ /\ outcome'.kind = "Orphan" /\ StoreUnchanged
            /\ outcome'.missing_parent = b.prev_hash /\ b.prev_hash \notin DOMAIN blocks
         \/ outcome'.kind \in {"Err", "AlreadyKnown"} /\ (StoreUnchanged \/ StoreThenFail(b))
BY DEF Submit, submit_block, RejectBeforeHash, ReturnAlreadyKnown, RejectStateless,
   ReturnOrphan, RejectContext, StoreSideBranch, StoreThenFail, StoreAndAdopt, ParentStored

\* What the outcome says of the store.
Reported(b) ==
  /\ \A h \in DOMAIN blocks' :
       ReplayOf(h)'.ok =>
         \/ h \in DOMAIN blocks /\ ReplayOf(h).ok
         \/ outcome'.kind \in {"Accepted", "SideBranch"} /\ outcome'.hash = h
  /\ outcome'.kind = "Accepted" =>
       /\ tip' = [height |-> outcome'.height, hash |-> outcome'.hash]
       /\ tip'.hash # genesis_block_hash /\ tip'.hash \in Hash
       /\ blocks'[tip'.hash] = b
       /\ CanonicalTransactions \subseteq CanonicalTransactions' \cup outcome'.requeue
  /\ outcome'.kind # "Accepted" =>
       tip' = tip /\ CanonicalTransactions' = CanonicalTransactions
  /\ outcome'.kind = "Orphan" => outcome'.missing_parent \notin DOMAIN blocks'

LEMMA SubmitReports ==
  ASSUME ChainInv, ChainInv', NEW b \in Submittable, Submit(b)
  PROVE  Reported(b)
<1>1. CanonicalTransactions = CanonicalTxs /\ CanonicalTransactions' = CanonicalTxs'
  BY SameCanonical, SameCanonicalNext
<1>2. CASE StoreUnchanged /\ outcome'.kind \in {"Orphan", "Err", "AlreadyKnown"}
  <2>1. \A h : ReplayOf(h)' = ReplayOf(h)
    BY <1>2 DEF StoreUnchanged, ReplayOf, BranchOf, PathTo, GenesisAccounts
  <2>2. CanonicalTransactions' = CanonicalTransactions
    BY <1>2 DEF StoreUnchanged, CanonicalTransactions
  <2>3. outcome'.kind = "Orphan" => outcome'.missing_parent \notin DOMAIN blocks'
    BY <1>2, SubmitCases DEF StoreUnchanged
  <2> QED BY <1>2, <2>1, <2>2, <2>3 DEF Reported, StoreUnchanged
<1>3. ASSUME Storable(b), StoreBlock(b)
      PROVE  /\ \A h \in DOMAIN blocks : ReplayOf(h)' = ReplayOf(h)
             /\ SimulateReorg(blocks', tip.hash, id(b)) = ReplayOf(id(b))'
             /\ DOMAIN blocks' = DOMAIN blocks \cup {id(b)}
             /\ blocks'[id(b)] = b
             /\ tip.hash \in DOMAIN blocks
             /\ LedgerTree(blocks)
             /\ \A h \in DOMAIN blocks : blocks'[h] = blocks[h]
  BY <1>3, StoreReplay DEF StoreBlock, Insert
<1>4. ASSUME Storable(b), StoreBlock(b), tip' = tip
      PROVE  CanonicalTransactions' = CanonicalTransactions
  <2>1. CanonicalTxs = TxsOn(blocks, tip.hash)
    BY PathTxs DEF CanonicalTxs, BranchOf
  <2>2. CanonicalTxs' = TxsOn(blocks', tip.hash)
    <3>1. CanonicalTxs' = TxsOf(BlocksAt(blocks', PathTo(tip'.hash)))
      BY DEF CanonicalTxs, BranchOf, PathTo
    <3> QED BY <1>4, <3>1, PathTxs
  <2>3. TxsOn(blocks', tip.hash) = TxsOn(blocks, tip.hash)
    BY <1>3, <1>4, TxsInsert
  <2> QED BY <1>1, <2>1, <2>2, <2>3
<1>5. CASE StoreSideBranch(b)
  <2>1. /\ Storable(b) /\ StoreBlock(b) /\ tip' = tip
        /\ outcome'.kind = "SideBranch" /\ outcome'.hash = id(b)
    BY <1>5 DEF StoreSideBranch
  <2> QED BY <1>3, <1>4, <2>1 DEF Reported
<1>6. CASE StoreThenFail(b)
  <2>1. /\ Storable(b) /\ StoreBlock(b) /\ tip' = tip /\ outcome'.kind = "Err"
        /\ ~ SimulateReorg(blocks', tip.hash, id(b)).ok
    BY <1>6 DEF StoreThenFail
  <2> QED BY <1>3, <1>4, <2>1 DEF Reported
<1>7. CASE StoreAndAdopt(b)
  <2>1. /\ Storable(b) /\ StoreBlock(b) /\ outcome'.kind = "Accepted"
        /\ outcome'.hash = id(b) /\ outcome'.height = b.height
        /\ tip' = [height |-> b.height, hash |-> id(b)]
    BY <1>7 DEF StoreAndAdopt
  <2>2. id(b) # genesis_block_hash /\ id(b) \in Hash
    BY IdFacts
  <2>3. CanonicalTransactions \subseteq CanonicalTransactions' \cup outcome'.requeue
    BY <1>1, <1>7, RequeueStep
  <2> QED BY <1>3, <2>1, <2>2, <2>3 DEF Reported
<1> QED BY <1>2, <1>5, <1>6, <1>7, SubmitCases

-----------------------------------------------------------------------------
(* Every canonical block was passed on, by any number of tasks.            *)

\* A stored block that checks out is announced, or about to be.
AnnounceInv ==
  /\ restarts \in Nat
  /\ restarts = 0 =>
       \A h \in DOMAIN blocks \ {genesis_block_hash} :
         ReplayOf(h).ok =>
           \/ h \in announced
           \/ \E t \in Task : task[t].pc = "announce" /\ task[t].outcome.hash = h

LEMMA AnnounceSubmit ==
  ASSUME TasksOK, ChainInv, ChainInv', AnnounceInv, NEW t \in Task, NEW b \in Submittable,
         NEW queue, NEW children, task[t].pc # "announce", SubmitAs(t, b, queue, children)
  PROVE  AnnounceInv'
<1>1. /\ Submit(b) /\ announced' = announced /\ restarts' = restarts
      /\ task' = [task EXCEPT ![t] = AfterSubmit(b, outcome', queue, children)]
  BY DEF SubmitAs
<1>2. Reported(b)
  BY <1>1, SubmitReports
<1>3. /\ task'[t] = AfterSubmit(b, outcome', queue, children)
      /\ \A u \in Task : u # t => task'[u] = task[u]
  BY <1>1 DEF TasksOK
<1>4. outcome'.kind \in {"Accepted", "SideBranch"} =>
        task'[t].pc = "announce" /\ task'[t].outcome = outcome'
  BY <1>3 DEF AfterSubmit, Work
<1>5. ASSUME restarts' = 0, NEW h \in DOMAIN blocks' \ {genesis_block_hash}, ReplayOf(h)'.ok
      PROVE  \/ h \in announced'
             \/ \E u \in Task : task'[u].pc = "announce" /\ task'[u].outcome.hash = h
  <2>1. CASE h \in DOMAIN blocks /\ ReplayOf(h).ok
    BY <1>1, <1>3, <1>5, <2>1 DEF AnnounceInv
  <2>2. CASE outcome'.kind \in {"Accepted", "SideBranch"} /\ outcome'.hash = h
    BY <1>4, <2>2
  <2> QED BY <1>2, <1>5, <2>1, <2>2 DEF Reported
<1> QED BY <1>1, <1>5 DEF AnnounceInv, genesis_block_hash

\* A step that leaves the store alone and forgets no announcement in hand.
LEMMA AnnounceKept ==
  ASSUME AnnounceInv, StoreUnchanged, restarts' = restarts, announced \subseteq announced',
         \A t \in Task :
           task[t].pc = "announce" =>
             \/ task'[t].pc = "announce" /\ task'[t].outcome = task[t].outcome
             \/ task[t].outcome.hash \in announced'
  PROVE  AnnounceInv'
<1>1. \A h : ReplayOf(h)' = ReplayOf(h)
  BY DEF StoreUnchanged, ReplayOf, BranchOf, PathTo, GenesisAccounts
<1> QED BY <1>1 DEF AnnounceInv, StoreUnchanged, genesis_block_hash

LEMMA AnnounceInvInit == NodeInit => AnnounceInv
BY DEF NodeInit, Init, AnnounceInv

LEMMA AnnounceInvNext ==
  ASSUME NodeInv, ChainInv, ChainInv', AnnounceInv, [NodeNext]_node_vars
  PROVE  AnnounceInv'
<1> USE DEF NodeInv
<1>1. ASSUME NEW t \in Task, Announce(t) PROVE AnnounceInv'
  <2>1. /\ announced' = announced \cup {task[t].outcome.hash} /\ restarts' = restarts
        /\ \A u \in Task : u # t => task'[u] = task[u]
        /\ StoreUnchanged
    BY <1>1 DEF Announce, TasksOK, vars, env_vars, StoreUnchanged
  <2> QED BY <2>1, AnnounceKept
<1>2. ASSUME NEW t \in Task,
             Prune(t) \/ RequeueDisplaced(t) \/ BufferOrphan(t) \/ TakeOrphans(t)
      PROVE  AnnounceInv'
  <2>1. /\ announced' = announced /\ restarts' = restarts /\ task[t].pc # "announce"
        /\ \A u \in Task : u # t => task'[u] = task[u]
        /\ StoreUnchanged
    BY <1>2 DEF Prune, RequeueDisplaced, BufferOrphan, TakeOrphans, TasksOK, vars, env_vars,
       StoreUnchanged
  <2> QED BY <2>1, AnnounceKept
<1>3. ASSUME NEW t \in Task, SubmitChild(t) PROVE AnnounceInv'
  <2>1. /\ task[t].pc = "drain" /\ task[t].children # << >>
        /\ SubmitAs(t, Head(task[t].children), task[t].queue, Tail(task[t].children))
    BY <1>3 DEF SubmitChild
  <2>2. Head(task[t].children) \in Submittable
    <3>1. task[t].children \in Seq(Submittable)
      BY DEF TasksOK, WorkOK
    <3> QED BY <2>1, <3>1, HeadTailProperties
  <2> QED BY <2>1, <2>2, AnnounceSubmit
<1>4. ASSUME NEW t \in Task, NEW b \in Submittable, Arrive(t, b) PROVE AnnounceInv'
  BY <1>4, AnnounceSubmit DEF Arrive
<1>5. ASSUME NEW h \in asked, NEW b \in Submittable, Respond(h, b) PROVE AnnounceInv'
  BY <1>5, AnnounceSubmit DEF Respond
<1>6. CASE \/ \E h \in asked : NoAnswer(h)
           \/ \E tx \in Offered : NewTransaction(tx)
           \/ GetWork
           \/ UNCHANGED node_vars
  <2>1. UNCHANGED <<announced, restarts, task>> /\ StoreUnchanged
    BY <1>6 DEF NoAnswer, NewTransaction, GetWork, work_template, node_vars, env_vars, vars,
       StoreUnchanged
  <2> QED BY <2>1, AnnounceKept
<1>7. CASE RestartNode
  <2>1. restarts' = restarts + 1
    BY <1>7 DEF RestartNode
  <2> QED BY <2>1 DEF AnnounceInv
<1> QED BY <1>1, <1>2, <1>3, <1>4, <1>5, <1>6, <1>7 DEF NodeNext, Step

\* Whatever the tasks and the order of blocks, also of one stored on a side
\* branch and adopted later as an ancestor: a block on the canonical chain of a
\* settled node was broadcast (accept_and_broadcast).
THEOREM CanonicalAnnouncedTheorem == NodeSpec => []CanonicalAnnounced
<1>1. NodeInit => NodeInv /\ ChainInv /\ AnnounceInv
  BY NodeInvInit, AnnounceInvInit, ChainInvInit DEF NodeInit
<1>2. NodeInv /\ ChainInv /\ AnnounceInv /\ [NodeNext]_node_vars
        => NodeInv' /\ ChainInv' /\ AnnounceInv'
  BY NodeInvNext, ChainInvNext, AnnounceInvNext
<1>3. ChainInv /\ AnnounceInv => CanonicalAnnounced
  <2> SUFFICES ASSUME ChainInv, AnnounceInv, Quiet, restarts = 0,
                      NEW k \in DOMAIN heights \ {0}
               PROVE  heights[k] \in announced
    BY DEF CanonicalAnnounced
  <2>1. /\ StoreInv /\ StoredSubmitted /\ AccountsReplayCanonical
        /\ tip.hash \in DOMAIN blocks /\ tip.height = Len(tip.hash)
        /\ heights = [j \in 0..tip.height |-> SubSeq(tip.hash, 1, j)]
    BY DEF ChainInv, StoreInv, CanonicalIndex
  <2>2. LedgerTree(blocks) /\ Replay(blocks, tip.hash).ok
    BY <2>1, StoredTree, ReplayIsReplayOf DEF AccountsReplayCanonical
  <2>3. k \in 0..Len(tip.hash) /\ k \in 1..Len(tip.hash) /\ heights[k] = SubSeq(tip.hash, 1, k)
    <3>1. Len(tip.hash) \in Nat
      BY <2>1, <2>2, PrefixFacts
    <3> QED BY <2>1, <3>1
  <2>4. ReplayOf(heights[k]).ok
    BY <2>1, <2>2, <2>3, BranchFacts, ReplayIsReplayOf
  <2>5. heights[k] \in DOMAIN blocks \ {genesis_block_hash}
    BY <2>1, <2>2, <2>3, PrefixFacts
  <2>6. \A t \in Task : task[t].pc # "announce"
    BY DEF Quiet
  <2> QED BY <2>4, <2>5, <2>6 DEF AnnounceInv
<1> QED BY <1>1, <1>2, <1>3, PTL DEF NodeSpec

-----------------------------------------------------------------------------
(* A node whose blocks all come in through one task, the event loop.  With *)
(* a second one, a request that submits between another task's submission  *)
(* and what that task does about its outcome, none of what follows holds.  *)

SingleTask == \E t \in {"net", "rpc"} : Task = {t}

\* An accepted block whose outcome is still being dealt with.
InHand(w) == w.pc \in {"announce", "prune", "requeue"} /\ w.outcome.kind = "Accepted"

\* Where the task stands fits the store: nobody else moves the tip.
LoopInv(w) ==
  /\ w.queue \in Seq(Hash)
  /\ w.pc \in {"idle", "announce", "buffer", "prune", "requeue", "drain"}
  /\ w.pc = "idle" => w.queue = << >>
  /\ w.pc = "drain" => w.queue # << >> \/ w.children # << >>
  /\ w.pc \in {"prune", "requeue"} => w.outcome.kind = "Accepted"
  /\ InHand(w) =>
       /\ tip = [height |-> w.outcome.height, hash |-> w.outcome.hash]
       /\ tip.hash # genesis_block_hash /\ tip.hash \in Hash
       /\ blocks[tip.hash] = w.block
  /\ w.pc = "buffer" => w.outcome.missing_parent \notin DOMAIN blocks

\* The height is the tip's, or about to be set.
Advertised(w) == my_height = tip.height \/ (w.pc = "announce" /\ InHand(w))

\* The blocks buffered under the tip are about to be retried.
Retried(w) ==
  tip.hash \in DOMAIN orphans =>
    InHand(w) \/ \E i \in DOMAIN w.queue : w.queue[i] = tip.hash

\* What was executed is still executed, pending, or about to be put back.
Kept(w) ==
  restarts = 0 =>
    executed \subseteq CanonicalTransactions \cup mempool
                         \cup (IF InHand(w) THEN w.outcome.requeue ELSE {})

Solo(w) == LoopInv(w) /\ Advertised(w) /\ Retried(w) /\ Kept(w)
SoloInv == restarts \in Nat /\ \A t \in Task : Solo(task[t])

LEMMA ContinueFacts ==
  \A q, c : LET w == Continue(q, c)
            IN  /\ w.queue = q /\ w.pc \in {"idle", "drain"} /\ ~ InHand(w)
                /\ w.pc = "idle" => q = << >>
                /\ w.pc = "drain" => q # << >> \/ w.children # << >>
BY DEF Continue, Idle, Work, InHand

\* The transactions of the tip's block are canonical.
LEMMA TipTransactions ==
  ASSUME ChainInv, tip.hash # genesis_block_hash
  PROVE  TxsOf(<<blocks[tip.hash]>>) \subseteq CanonicalTransactions
<1> DEFINE n == tip.height
           list == [k \in 1..n |-> blocks[heights[k]]]
<1>1. /\ tip.hash \in DOMAIN blocks /\ n = Len(tip.hash)
      /\ heights = [k \in 0..n |-> SubSeq(tip.hash, 1, k)]
      /\ LedgerTree(blocks)
  BY StoredTree DEF ChainInv, StoreInv, CanonicalIndex
<1>2. n \in Nat \ {0} /\ SubSeq(tip.hash, 1, n) = tip.hash
  BY <1>1, PrefixFacts, ParentFacts
<1>3. n \in 1..n /\ n \in 0..n
  BY <1>2
<1>4. n \in DOMAIN list /\ list[n] = blocks[tip.hash]
  BY <1>1, <1>2, <1>3
<1>5. TxsOf(list) = CanonicalTransactions
  BY DEF CanonicalTransactions
<1>6. TxsOf(<<blocks[tip.hash]>>) = {blocks[tip.hash].transactions[j] :
                                       j \in DOMAIN blocks[tip.hash].transactions}
  BY DEF TxsOf
<1> HIDE DEF list
<1> QED BY <1>4, <1>5, <1>6 DEF TxsOf

\* A submission by a task that has nothing in hand.
LEMMA SoloSubmit ==
  ASSUME NEW t, Task = {t}, TasksOK, ChainInv, ChainInv', SoloInv,
         task[t].pc \in {"idle", "drain"}, NEW b \in Submittable, NEW children,
         SubmitAs(t, b, task[t].queue, children), orphans' = orphans
  PROVE  SoloInv'
<1> DEFINE w == task[t]
           v == task'[t]
<1>1. /\ Submit(b) /\ UNCHANGED <<mempool, my_height, restarts>>
      /\ task' = [task EXCEPT ![t] = AfterSubmit(b, outcome', w.queue, children)]
      /\ executed' = executed \cup CanonicalTransactions'
  BY DEF SubmitAs
<1>2. Reported(b)
  BY <1>1, SubmitReports
<1>3. v = AfterSubmit(b, outcome', w.queue, children)
  BY <1>1 DEF TasksOK
<1>4. LoopInv(w) /\ Advertised(w) /\ Retried(w) /\ Kept(w) /\ ~ InHand(w) /\ restarts \in Nat
  BY DEF SoloInv, Solo, InHand
<1>5. w.queue \in Seq(Hash) /\ v.queue = w.queue
  <2>1. v.queue = w.queue
    BY <1>3, ContinueFacts DEF AfterSubmit, Work
  <2> QED BY <1>4, <2>1 DEF LoopInv
<1>6. CASE outcome'.kind = "Accepted"
  <2>1. v.pc = "announce" /\ v.outcome = outcome' /\ v.block = b /\ InHand(v)
    BY <1>3, <1>6 DEF AfterSubmit, Work, InHand
  <2>2. LoopInv(task[t])'
    BY <1>2, <1>5, <1>6, <2>1 DEF LoopInv, InHand, Reported, genesis_block_hash, Hash, HeaderFields, U64
  <2>3. Advertised(task[t])' /\ Retried(task[t])'
    BY <2>1 DEF Advertised, Retried, InHand
  <2>4. Kept(task[t])'
    BY <1>1, <1>2, <1>4, <1>6, <2>1 DEF Kept, Reported, InHand
  <2> QED BY <1>1, <1>4, <2>2, <2>3, <2>4 DEF SoloInv, Solo
<1>7. CASE outcome'.kind # "Accepted"
  <2>1. tip' = tip /\ CanonicalTransactions' = CanonicalTransactions
    BY <1>2, <1>7 DEF Reported
  <2>2. ~ InHand(v)
    BY <1>3, <1>7, ContinueFacts DEF AfterSubmit, Work, InHand
  <2>3. /\ v.pc \in {"idle", "announce", "buffer", "drain"}
        /\ v.pc = "idle" => v.queue = << >>
        /\ v.pc = "drain" => v.queue # << >> \/ v.children # << >>
    BY <1>3, <1>5, ContinueFacts DEF AfterSubmit, Work
  <2>4. v.pc = "buffer" => v.outcome.missing_parent \notin DOMAIN blocks'
    BY <1>2, <1>3, ContinueFacts DEF AfterSubmit, Work, Reported
  <2>5. LoopInv(task[t])'
    BY <1>5, <2>2, <2>3, <2>4 DEF LoopInv, InHand, Hash, HeaderFields, U64
  <2>6. Advertised(task[t])' /\ Retried(task[t])'
    BY <1>1, <1>4, <1>5, <2>1 DEF Advertised, Retried
  <2>7. Kept(task[t])'
    BY <1>1, <1>4, <2>1, <2>2 DEF Kept, InHand
  <2> QED BY <1>1, <1>4, <2>5, <2>6, <2>7 DEF SoloInv, Solo
<1> QED BY <1>6, <1>7

\* A step that only others see.
LEMMA SoloKept ==
  ASSUME SoloInv, StoreUnchanged, UNCHANGED <<task, orphans, my_height, restarts, executed>>,
         mempool \subseteq mempool'
  PROVE  SoloInv'
<1>1. CanonicalTransactions' = CanonicalTransactions
  BY DEF StoreUnchanged, CanonicalTransactions
<1>2. ASSUME NEW t \in Task PROVE Solo(task[t])'
  <2>1. Solo(task[t])
    BY DEF SoloInv
  <2>2. LoopInv(task[t])'
    BY <2>1 DEF Solo, LoopInv, InHand, StoreUnchanged, genesis_block_hash, Hash, HeaderFields, U64
  <2>3. Advertised(task[t])' /\ Retried(task[t])'
    BY <2>1 DEF Solo, Advertised, Retried, InHand, StoreUnchanged
  <2>4. Kept(task[t])'
    BY <1>1, <2>1 DEF Solo, Kept, InHand
  <2> QED BY <2>2, <2>3, <2>4 DEF Solo
<1> QED BY <1>2 DEF SoloInv

\* A step of the task that leaves the store alone.
LEMMA SoloLocal ==
  ASSUME NEW t, Task = {t}, TasksOK, ChainInv, SoloInv,
         \/ Announce(t) \/ Prune(t) \/ RequeueDisplaced(t)
         \/ BufferOrphan(t) \/ TakeOrphans(t)
  PROVE  SoloInv'
<1> DEFINE w == task[t]
           v == task'[t]
<1>1. /\ StoreUnchanged /\ UNCHANGED <<restarts, executed>>
      /\ CanonicalTransactions' = CanonicalTransactions
  BY DEF Announce, Prune, RequeueDisplaced, BufferOrphan, TakeOrphans, vars, env_vars,
     StoreUnchanged, CanonicalTransactions
<1>2. LoopInv(w) /\ Advertised(w) /\ Retried(w) /\ Kept(w) /\ restarts \in Nat
  BY DEF SoloInv, Solo
<1>3. ASSUME LoopInv(v), LoopInv(v) => LoopInv(task[t])',
             Advertised(task[t])', Retried(task[t])', Kept(task[t])'
      PROVE  SoloInv'
  BY <1>1, <1>2, <1>3 DEF SoloInv, Solo
<1>4. LoopInv(v) => LoopInv(task[t])'
  BY <1>1 DEF LoopInv, InHand, StoreUnchanged, genesis_block_hash, Hash, HeaderFields, U64
<1>5. \A q \in Seq(Hash) : \A c : LoopInv(Continue(q, c))
  BY ContinueFacts DEF LoopInv, InHand
<1>6. CASE Announce(t)
  <2>1. /\ v = IF w.outcome.kind = "Accepted"
               THEN Work("prune", w.block, w.outcome, w.queue, w.children)
               ELSE Continue(w.queue, w.children)
        /\ my_height' = IF w.outcome.kind = "Accepted" THEN w.outcome.height ELSE my_height
        /\ UNCHANGED <<mempool, orphans>> /\ w.pc = "announce"
    BY <1>6 DEF Announce, TasksOK
  <2>2. InHand(v) <=> InHand(w)
    BY <2>1, ContinueFacts DEF InHand, Work
  <2>3. InHand(v) => v.outcome = w.outcome /\ v.block = w.block /\ v.pc = "prune"
    BY <2>1, <2>2 DEF InHand, Work
  <2>4. v.queue = w.queue
    BY <2>1, ContinueFacts DEF Work
  <2>5. LoopInv(v)
    <3>1. CASE w.outcome.kind = "Accepted"
      BY <1>2, <2>1, <3>1 DEF LoopInv, InHand, Work
    <3>2. CASE w.outcome.kind # "Accepted"
      BY <1>2, <1>5, <2>1, <3>2 DEF LoopInv
    <3> QED BY <3>1, <3>2
  <2>6. Advertised(task[t])'
    BY <1>1, <1>2, <2>1 DEF Advertised, LoopInv, InHand, StoreUnchanged
  <2>7. Retried(task[t])'
    BY <1>1, <1>2, <2>1, <2>2, <2>4 DEF Retried, InHand, StoreUnchanged
  <2>8. Kept(task[t])'
    BY <1>1, <1>2, <2>1, <2>2, <2>3 DEF Kept, InHand
  <2> QED BY <1>3, <1>4, <2>5, <2>6, <2>7, <2>8
<1>7. CASE Prune(t)
  <2>1. /\ v = Work("requeue", w.block, w.outcome, w.queue, w.children)
        /\ mempool' = mempool \ TxsOf(<<w.block>>)
        /\ UNCHANGED <<orphans, my_height>> /\ w.pc = "prune"
    BY <1>7 DEF Prune, TasksOK, mempool_remove
  <2>2. InHand(w) /\ InHand(v) /\ v.outcome = w.outcome /\ v.queue = w.queue
    BY <1>2, <2>1 DEF InHand, Work, LoopInv
  <2>3. LoopInv(v)
    BY <1>2, <2>1, <2>2 DEF LoopInv, InHand, Work
  <2>4. Advertised(task[t])' /\ Retried(task[t])'
    BY <1>1, <1>2, <2>1, <2>2 DEF Advertised, Retried, InHand, StoreUnchanged
  <2>5. TxsOf(<<w.block>>) \subseteq CanonicalTransactions
    BY <1>2, <2>2, TipTransactions DEF LoopInv
  <2>6. Kept(task[t])'
    BY <1>1, <1>2, <2>1, <2>2, <2>5 DEF Kept, InHand
  <2> QED BY <1>3, <1>4, <2>3, <2>4, <2>6
<1>8. CASE RequeueDisplaced(t)
  <2> DEFINE q == Append(w.queue, w.outcome.hash)
  <2>1. /\ v = Continue(q, w.children)
        /\ mempool' = mempool \cup w.outcome.requeue
        /\ UNCHANGED <<orphans, my_height>> /\ w.pc = "requeue"
    BY <1>8 DEF RequeueDisplaced, TasksOK, mempool_insert
  <2>2. /\ InHand(w) /\ w.queue \in Seq(Hash)
        /\ tip.hash = w.outcome.hash /\ tip.hash \in Hash
    BY <1>2, <2>1 DEF InHand, LoopInv
  <2>3. q \in Seq(Hash) /\ \E i \in DOMAIN q : q[i] = tip.hash
    <3>1. q \in Seq(Hash) /\ Len(w.queue) + 1 \in DOMAIN q /\ q[Len(w.queue) + 1] = w.outcome.hash
      BY <2>2
    <3> QED BY <2>2, <3>1
  <2> HIDE DEF q
  <2>4. v.queue = q /\ ~ InHand(v)
    BY <2>1, ContinueFacts
  <2>5. LoopInv(v)
    BY <1>5, <2>1, <2>3
  <2>6. Advertised(task[t])' /\ Retried(task[t])'
    BY <1>1, <1>2, <2>1, <2>3, <2>4 DEF Advertised, Retried, StoreUnchanged
  <2>7. Kept(task[t])'
    BY <1>1, <1>2, <2>1, <2>2 DEF Kept, InHand
  <2> QED BY <1>3, <1>4, <2>5, <2>6, <2>7
<1>9. CASE BufferOrphan(t)
  <2>1. /\ v = Continue(w.queue, w.children) /\ w.pc = "buffer"
        /\ DOMAIN orphans' = DOMAIN orphans \cup {w.outcome.missing_parent}
        /\ UNCHANGED <<mempool, my_height>>
    BY <1>9 DEF BufferOrphan, TasksOK, Insert
  <2>2. v.queue = w.queue /\ ~ InHand(v) /\ ~ InHand(w)
    BY <2>1, ContinueFacts DEF InHand
  <2>3. LoopInv(v)
    BY <1>2, <1>5, <2>1 DEF LoopInv
  <2>4. tip.hash # w.outcome.missing_parent
    BY <1>2, <2>1 DEF LoopInv, ChainInv, StoreInv, CanonicalIndex
  <2>5. Advertised(task[t])'
    BY <1>1, <1>2, <2>1, <2>2 DEF Advertised, StoreUnchanged
  <2>6. Retried(task[t])'
    BY <1>1, <1>2, <2>1, <2>2, <2>4 DEF Retried, StoreUnchanged
  <2>7. Kept(task[t])'
    BY <1>1, <1>2, <2>1, <2>2 DEF Kept, InHand
  <2> QED BY <1>3, <1>4, <2>3, <2>5, <2>6, <2>7
<1>10. CASE TakeOrphans(t)
  <2> DEFINE q == w.queue
             c == IF Head(q) \in DOMAIN orphans THEN orphans[Head(q)] ELSE << >>
  <2>1. /\ v = Continue(Tail(q), c) /\ w.pc = "drain"
        /\ DOMAIN orphans' = DOMAIN orphans \ {Head(q)}
        /\ UNCHANGED <<mempool, my_height>>
    BY <1>10 DEF TakeOrphans, TasksOK
  <2>2. v.queue = Tail(q) /\ ~ InHand(v) /\ ~ InHand(w)
    BY <2>1, ContinueFacts DEF InHand
  <2>3. q \in Seq(Hash) /\ q # << >>
    BY <1>2, <1>10 DEF LoopInv, TakeOrphans
  <2>4. /\ Tail(q) \in Seq(Hash)
        /\ \A i \in DOMAIN q : q[i] # Head(q) => \E j \in DOMAIN Tail(q) : Tail(q)[j] = q[i]
    <3> HIDE DEF q
    <3>1. Tail(q) \in Seq(Hash) /\ Head(q) = q[1] /\ DOMAIN q = 1..Len(q) /\ Len(q) \in Nat
      BY <2>3
    <3>2. DOMAIN Tail(q) = 1..(Len(q) - 1) /\ \A j \in 1..(Len(q) - 1) : Tail(q)[j] = q[j + 1]
      BY <2>3
    <3>3. ASSUME NEW i \in DOMAIN q, q[i] # Head(q) PROVE \E j \in DOMAIN Tail(q) : Tail(q)[j] = q[i]
      <4>1. i \in 1..Len(q) /\ i # 1
        BY <3>1, <3>3
      <4>2. i - 1 \in 1..(Len(q) - 1) /\ (i - 1) + 1 = i
        BY <3>1, <4>1
      <4> QED BY <3>2, <4>2
    <3> QED BY <3>1, <3>3
  <2>5. LoopInv(v)
    BY <1>5, <2>1, <2>4
  <2>6. Advertised(task[t])'
    BY <1>1, <1>2, <2>1, <2>2 DEF Advertised, StoreUnchanged
  <2>7. Retried(task[t])'
    BY <1>1, <1>2, <2>1, <2>2, <2>4 DEF Retried, StoreUnchanged
  <2>8. Kept(task[t])'
    BY <1>1, <1>2, <2>1, <2>2 DEF Kept, InHand
  <2> QED BY <1>3, <1>4, <2>5, <2>6, <2>7, <2>8
<1> QED BY <1>6, <1>7, <1>8, <1>9, <1>10

LEMMA SoloInit == ASSUME SingleTask, NodeInit PROVE SoloInv
<1>1. /\ \A t \in Task : task[t] = Idle
      /\ orphans = << >> /\ my_height = 0 /\ tip.height = 0 /\ restarts = 0 /\ executed = {}
  BY DEF NodeInit, Init
<1>2. DOMAIN orphans = {}
  BY <1>1
<1>3. LoopInv(Idle)
  BY DEF LoopInv, Idle, Work, InHand, Hash
<1> QED BY <1>1, <1>2, <1>3 DEF SoloInv, Solo, Advertised, Retried, Kept

LEMMA SoloNext ==
  ASSUME SingleTask, NodeInv, ChainInv, ChainInv', SoloInv, [NodeNext]_node_vars
  PROVE  SoloInv'
<1> USE DEF NodeInv
<1>0. PICK one \in {"net", "rpc"} : Task = {one}
  BY DEF SingleTask
<1>1. ASSUME NEW t \in Task, Step(t) PROVE SoloInv'
  <2>1. Task = {t}
    BY <1>0
  <2>2. CASE SubmitChild(t)
    <3>1. /\ task[t].pc = "drain" /\ task[t].children # << >> /\ orphans' = orphans
          /\ SubmitAs(t, Head(task[t].children), task[t].queue, Tail(task[t].children))
      BY <2>2 DEF SubmitChild
    <3>2. Head(task[t].children) \in Submittable
      <4>1. task[t].children \in Seq(Submittable)
        BY DEF TasksOK, WorkOK
      <4> QED BY <3>1, <4>1, HeadTailProperties
    <3> QED BY <2>1, <3>1, <3>2, SoloSubmit
  <2> QED BY <1>1, <2>1, <2>2, SoloLocal DEF Step
<1>2. ASSUME NEW t \in Task, NEW b \in Submittable, task[t].pc = "idle", orphans' = orphans,
             SubmitAs(t, b, << >>, << >>)
      PROVE  SoloInv'
  <2>1. task[t].queue = << >>
    BY <1>2 DEF SoloInv, Solo, LoopInv
  <2>2. SubmitAs(t, b, task[t].queue, << >>) /\ Task = {t}
    BY <1>0, <1>2, <2>1
  <2> QED BY <1>2, <2>2, SoloSubmit
<1>3. ASSUME NEW t \in Task, NEW b \in Submittable, Arrive(t, b) PROVE SoloInv'
  BY <1>2, <1>3 DEF Arrive
<1>4. ASSUME NEW h \in asked, NEW b \in Submittable, Respond(h, b) PROVE SoloInv'
  BY <1>2, <1>4 DEF Respond
<1>5. CASE \/ \E h \in asked : NoAnswer(h)
           \/ \E tx \in Offered : NewTransaction(tx)
           \/ GetWork
           \/ UNCHANGED node_vars
  <2>1. /\ StoreUnchanged /\ UNCHANGED <<task, orphans, my_height, restarts, executed>>
        /\ mempool \subseteq mempool'
    BY <1>5 DEF NoAnswer, NewTransaction, GetWork, work_template, node_vars, env_vars, vars,
       StoreUnchanged, mempool_insert
  <2> QED BY <2>1, SoloKept
<1>6. CASE RestartNode
  <2>1. /\ restarts' = restarts + 1 /\ tip' = tip /\ my_height' = tip.height
        /\ \A t \in Task : task'[t] = Idle
        /\ orphans' = << >>
    BY <1>6 DEF RestartNode, Restart, StoreUnchanged
  <2>2. DOMAIN orphans' = {}
    BY <2>1
  <2>3. restarts' \in Nat /\ restarts' # 0
    BY <2>1 DEF SoloInv
  <2>4. ASSUME NEW t \in Task PROVE Solo(task[t])'
    <3>1. LoopInv(task[t])'
      <4>1. task'[t].pc = "idle" /\ task'[t].queue = << >>
        BY <2>1 DEF Idle, Work
      <4>2. \A S : << >> \in Seq(S)
        OBVIOUS
      <4> QED BY <4>1, <4>2 DEF LoopInv, InHand
    <3>2. Advertised(task[t])' /\ Retried(task[t])' /\ Kept(task[t])'
      BY <2>1, <2>2, <2>3 DEF Advertised, Retried, Kept
    <3> QED BY <3>1, <3>2 DEF Solo
  <2> QED BY <2>3, <2>4 DEF SoloInv
<1> QED BY <1>1, <1>3, <1>4, <1>5, <1>6 DEF NodeNext

\* With one task, its place in accept_and_broadcast always fits the store.
THEOREM SoloInvariant ==
  ASSUME SingleTask
  PROVE  NodeSpec => [](NodeInv /\ ChainInv /\ SoloInv)
<1>1. NodeInit => NodeInv /\ ChainInv /\ SoloInv
  BY NodeInvInit, ChainInvInit, SoloInit DEF NodeInit
<1>2. NodeInv /\ ChainInv /\ SoloInv /\ [NodeNext]_node_vars
        => NodeInv' /\ ChainInv' /\ SoloInv'
  BY NodeInvNext, ChainInvNext, SoloNext
<1> QED BY <1>1, <1>2, PTL DEF NodeSpec

\* With one task, the handshake of a settled node names the tip's height, after
\* any reorg, to a lower height too, and after any restart (set_height).
THEOREM HeightAdvertisedTheorem == ASSUME SingleTask PROVE NodeSpec => []HeightAdvertised
<1>1. SoloInv => HeightAdvertised
  <2>1. Task # {}
    BY DEF SingleTask
  <2> QED BY <2>1 DEF SoloInv, Solo, Advertised, HeightAdvertised, Quiet
<1> QED BY SoloInvariant, <1>1, PTL

\* With one task, a settled node buffers no block whose parent is the tip: the
\* queue of accepted hashes reaches every block that waited for one of them.
THEOREM NoOrphanOnTipTheorem == ASSUME SingleTask PROVE NodeSpec => []NoOrphanOnTip
<1>1. SoloInv => NoOrphanOnTip
  <2>1. Task # {}
    BY DEF SingleTask
  <2>2. \A i \in DOMAIN << >> : FALSE
    OBVIOUS
  <2> QED BY <2>1, <2>2 DEF SoloInv, Solo, LoopInv, Retried, NoOrphanOnTip, Quiet, InHand
<1> QED BY SoloInvariant, <1>1, PTL

\* With one task and no restart, what was ever executed is executed on the
\* canonical chain or pending (Prune and mempool_insert after a reorg).
THEOREM DisplacedKeptTheorem == ASSUME SingleTask PROVE NodeSpec => []DisplacedKeptWhileUp
<1>1. SoloInv => DisplacedKeptWhileUp
  <2>1. Task # {}
    BY DEF SingleTask
  <2> QED BY <2>1 DEF SoloInv, Solo, Kept, InHand, DisplacedKeptWhileUp, DisplacedKept, Quiet
<1> QED BY SoloInvariant, <1>1, PTL

\* With one task, a transaction leaves the mempool only while it is on the
\* canonical chain (mempool_remove for the accepted block).
THEOREM PendingUntilMinedTheorem == ASSUME SingleTask PROVE NodeSpec => PendingUntilMined
<1>1. NodeInv /\ ChainInv /\ SoloInv /\ [NodeNext]_node_vars
        => [mempool \ mempool' \subseteq CanonicalTransactions]_node_vars
  <2> SUFFICES ASSUME NodeInv, ChainInv, SoloInv, NodeNext
               PROVE  mempool \ mempool' \subseteq CanonicalTransactions
    OBVIOUS
  <2>1. CASE \E t \in Task : Prune(t)
    <3>1. PICK t \in Task : Prune(t)
      BY <2>1
    <3>2. LoopInv(task[t]) /\ task[t].pc = "prune"
          /\ mempool' = mempool \ TxsOf(<<task[t].block>>)
      BY <3>1 DEF SoloInv, Solo, Prune, mempool_remove
    <3>3. TxsOf(<<task[t].block>>) \subseteq CanonicalTransactions
      BY <3>2, TipTransactions DEF LoopInv, InHand
    <3> QED BY <3>2, <3>3
  <2>2. CASE ~ \E t \in Task : Prune(t)
    <3>1. mempool \subseteq mempool'
      BY <2>2 DEF NodeNext, Step, Announce, RequeueDisplaced, BufferOrphan, TakeOrphans,
         SubmitChild, SubmitAs, Arrive, Respond, NoAnswer, NewTransaction, GetWork,
         RestartNode, mempool_insert
    <3> QED BY <3>1
  <2> QED BY <2>1, <2>2
<1> QED BY SoloInvariant, <1>1, PTL DEF NodeSpec, PendingUntilMined

=============================================================================
