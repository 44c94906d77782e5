-------------------------------- MODULE Node --------------------------------
(***************************************************************************)
(* A running node (ondris-node/src/main.rs): the consensus core, the       *)
(* mempool, the orphan buffer and the tasks that feed blocks to the core.  *)
(* The event loop handles network events one at a time; every HTTP request *)
(* is a task of its own on the same multi-threaded runtime.  A task runs   *)
(* accept_and_broadcast: only the calls to Chain::submit_block exclude one *)
(* another (write_lock), so tasks interleave between a call and what is    *)
(* done about its outcome.                                                 *)
(*                                                                         *)
(* Peers and miners are the environment: they announce each block once,    *)
(* answer or lose a GetBlock, and offer transactions.                      *)
(***************************************************************************)
EXTENDS Chain

CONSTANTS Task,            \* "net", the event loop, and "rpc", a request
          Offered,         \* transactions wallets and peers may send
          MaxRestarts      \* bound: restarts of the process

ASSUME TaskAssumption == Task \subseteq {"net", "rpc"}

VARIABLES
  mempool,       \* tree "mempool": the pending transactions
  orphans,       \* AppState.orphans: parent hash -> blocks waiting for it
  my_height,     \* Network.my_height, sent in every handshake
  task,          \* task -> where it stands in accept_and_broadcast
  announced,     \* hashes broadcast as NewBlock
  asked,         \* GetBlock requests no peer has answered yet
  undelivered,   \* blocks not announced to this node yet
  restarts,      \* restarts so far
  executed       \* history: transactions that were canonical at some time

node_vars == <<blocks, chainwork, heights, tip, accounts, dataset_cache, outcome,
               mempool, orphans, my_height, task, announced, asked, undelivered,
               restarts, executed>>

env_vars == <<undelivered, asked, restarts>>

\* Where a task stands: the block in hand and what submit_block returned for
\* it, the accepted hashes still to look up, the orphans still to submit.
Work(pc, b, result, queue, children) ==
  [pc |-> pc, block |-> b, outcome |-> result, queue |-> queue, children |-> children]

\* Between two blocks: nothing in hand.
Nothing == [kind |-> "None"]
Idle == Work("idle", << >>, Nothing, << >>, << >>)

\* Mutation: the blocks waiting for an accepted one are not looked up.
ContinueWithoutQueue(queue, children) ==
  IF children = << >> THEN Idle ELSE Work("drain", << >>, Nothing, queue, children)

\* The end of a loop body: go on with the queue, or return.
Continue(queue, children) ==
  IF queue = << >> /\ children = << >> THEN Idle
  ELSE Work("drain", << >>, Nothing, queue, children)

mempool_insert(pool, txs) == pool \cup txs
mempool_remove(pool, txs) == pool \ txs

CanonicalTransactions == TxsOf([k \in 1..tip.height |-> blocks[heights[k]]])

-----------------------------------------------------------------------------
(* accept_and_broadcast and handle_outcome.                                *)

\* Where a task stands once submit_block(b) has returned.  An error ends the
\* request; for a buffered orphan it is only logged.
AfterSubmit(b, result, queue, children) ==
  CASE result.kind \in {"Accepted", "SideBranch"} ->
         Work("announce", b, result, queue, children)
    [] result.kind = "Orphan" -> Work("buffer", b, result, queue, children)
    [] OTHER -> Continue(queue, children)

SubmitAs(t, b, queue, children) ==
  /\ Submit(b)
  /\ task' = [task EXCEPT ![t] = AfterSubmit(b, outcome', queue, children)]
  /\ executed' = executed \cup CanonicalTransactions'
  /\ UNCHANGED <<mempool, my_height, announced, restarts>>

\* The block a task was called with.
Arrive(t, b) ==
  /\ task[t].pc = "idle"
  /\ b \in undelivered
  /\ undelivered' = undelivered \ {b}
  /\ SubmitAs(t, b, << >>, << >>)
  /\ UNCHANGED <<orphans, asked>>

\* Mutation: a side-branch block is not passed on.
AnnounceAcceptedOnly(t) ==
  LET w == task[t]
      accepted == w.outcome.kind = "Accepted"
  IN  /\ w.pc = "announce"
      /\ my_height' = IF accepted THEN w.outcome.height ELSE my_height
      /\ announced' = IF accepted THEN announced \cup {w.outcome.hash} ELSE announced
      /\ task' = [task EXCEPT ![t] =
                    IF accepted THEN Work("prune", w.block, w.outcome, w.queue, w.children)
                                ELSE Continue(w.queue, w.children)]
      /\ UNCHANGED <<mempool, orphans, executed>> /\ UNCHANGED env_vars /\ UNCHANGED vars

\* Mutation: a side branch's height is advertised too.
AnnounceEveryHeight(t) ==
  LET w == task[t]
  IN  /\ w.pc = "announce"
      /\ my_height' = w.outcome.height
      /\ announced' = announced \cup {w.outcome.hash}
      /\ task' = [task EXCEPT ![t] =
                    IF w.outcome.kind = "Accepted"
                    THEN Work("prune", w.block, w.outcome, w.queue, w.children)
                    ELSE Continue(w.queue, w.children)]
      /\ UNCHANGED <<mempool, orphans, executed>> /\ UNCHANGED env_vars /\ UNCHANGED vars

\* set_height for an accepted block, then NewBlock to every peer.
Announce(t) ==
  LET w == task[t]
      accepted == w.outcome.kind = "Accepted"
  IN  /\ w.pc = "announce"
      /\ my_height' = IF accepted THEN w.outcome.height ELSE my_height
      /\ announced' = announced \cup {w.outcome.hash}
      /\ task' = [task EXCEPT ![t] =
                    IF accepted THEN Work("prune", w.block, w.outcome, w.queue, w.children)
                                ELSE Continue(w.queue, w.children)]
      /\ UNCHANGED <<mempool, orphans, executed>> /\ UNCHANGED env_vars /\ UNCHANGED vars

\* mempool_remove for the transactions of the accepted block itself.
Prune(t) ==
  LET w == task[t]
  IN  /\ w.pc = "prune"
      /\ mempool' = mempool_remove(mempool, TxsOf(<<w.block>>))
      /\ task' = [task EXCEPT ![t] =
                    Work("requeue", w.block, w.outcome, w.queue, w.children)]
      /\ UNCHANGED <<orphans, my_height, announced, executed>>
      /\ UNCHANGED env_vars /\ UNCHANGED vars

\* Mutation: nothing displaced is put back.
RequeueNothing(t) ==
  LET w == task[t]
  IN  /\ w.pc = "requeue"
      /\ task' = [task EXCEPT ![t] =
                    Continue(Append(w.queue, w.outcome.hash), w.children)]
      /\ UNCHANGED <<mempool, orphans, my_height, announced, executed>>
      /\ UNCHANGED env_vars /\ UNCHANGED vars

\* mempool_insert for what the reorg displaced; the accepted hash goes on the
\* queue of parents whose orphans can be retried.
RequeueDisplaced(t) ==
  LET w == task[t]
  IN  /\ w.pc = "requeue"
      /\ mempool' = mempool_insert(mempool, w.outcome.requeue)
      /\ task' = [task EXCEPT ![t] =
                    Continue(Append(w.queue, w.outcome.hash), w.children)]
      /\ UNCHANGED <<orphans, my_height, announced, executed>>
      /\ UNCHANGED env_vars /\ UNCHANGED vars

\* The block waits for its parent, which every peer is asked for.
BufferOrphan(t) ==
  LET w == task[t]
      h == w.outcome.missing_parent
      waiting == IF h \in DOMAIN orphans THEN orphans[h] ELSE << >>
  IN  /\ w.pc = "buffer"
      /\ orphans' = Insert(orphans, h, Append(waiting, w.block))
      /\ asked' = asked \cup {h}
      /\ task' = [task EXCEPT ![t] = Continue(w.queue, w.children)]
      /\ UNCHANGED <<mempool, my_height, announced, executed, undelivered, restarts>>
      /\ UNCHANGED vars

\* Pop an accepted hash and take the blocks that were waiting for it.
TakeOrphans(t) ==
  LET w == task[t]
      h == Head(w.queue)
      found == h \in DOMAIN orphans
  IN  /\ w.pc = "drain" /\ w.children = << >>
      /\ orphans' = [k \in DOMAIN orphans \ {h} |-> orphans[k]]
      /\ task' = [task EXCEPT ![t] =
                    Continue(Tail(w.queue), IF found THEN orphans[h] ELSE << >>)]
      /\ UNCHANGED <<mempool, my_height, announced, executed>>
      /\ UNCHANGED env_vars /\ UNCHANGED vars

\* The next of the orphans taken.
SubmitChild(t) ==
  LET w == task[t]
  IN  /\ w.pc = "drain" /\ w.children # << >>
      /\ SubmitAs(t, Head(w.children), w.queue, Tail(w.children))
      /\ UNCHANGED <<orphans, asked, undelivered>>

-----------------------------------------------------------------------------
(* The other events and requests.                                          *)

\* A peer answers a GetBlock with the block; the event loop treats it like
\* any other.
Respond(h, b) ==
  /\ "net" \in Task /\ task["net"].pc = "idle"
  /\ h \in asked /\ id(b) = h
  /\ asked' = asked \ {h}
  /\ SubmitAs("net", b, << >>, << >>)
  /\ UNCHANGED <<orphans, undelivered>>

\* No peer has it (BlockResponse(None)), or the peer is gone.
NoAnswer(h) ==
  /\ h \in asked
  /\ asked' = asked \ {h}
  /\ UNCHANGED <<mempool, orphans, my_height, task, announced, undelivered,
                 restarts, executed>>
  /\ UNCHANGED vars

\* NewTransaction from a peer, when the event loop is free, or a wallet's
\* POST /tx/submit: only the signature is checked.
NewTransaction(tx) ==
  /\ tx.sig
  /\ mempool' = mempool_insert(mempool, {tx})
  /\ UNCHANGED <<orphans, my_height, task, announced, executed>>
  /\ UNCHANGED env_vars /\ UNCHANGED vars

\* Mutation: building a template takes the transactions out of the mempool.
GetWorkDraining ==
  /\ work_template
  /\ mempool' = {}
  /\ UNCHANGED <<orphans, my_height, task, announced, executed>>
  /\ UNCHANGED env_vars

\* GET /work: mempool_all is a read, work_template may fill the cache.
GetWork ==
  /\ work_template
  /\ UNCHANGED <<mempool, orphans, my_height, task, announced, executed>>
  /\ UNCHANGED env_vars

\* Mutation: opening the database writes the genesis tip again.
RestartFromGenesis ==
  /\ restarts < MaxRestarts
  /\ restarts' = restarts + 1
  /\ dataset_cache' = {} /\ outcome' = [kind |-> "None"]
  /\ tip' = [height |-> 0, hash |-> genesis_block_hash]
  /\ task' = [t \in Task |-> Idle]
  /\ orphans' = << >> /\ asked' = {} /\ my_height' = 0
  /\ UNCHANGED <<blocks, chainwork, heights, accounts,
                 mempool, announced, undelivered, executed>>

\* The process stops between any two steps and starts again: the trees are
\* there, tasks, orphans and outstanding requests are gone.
RestartNode ==
  /\ restarts < MaxRestarts
  /\ restarts' = restarts + 1
  /\ Restart
  /\ task' = [t \in Task |-> Idle]
  /\ orphans' = << >>
  /\ asked' = {}
  /\ my_height' = tip.height
  /\ UNCHANGED <<mempool, announced, undelivered, executed>>

-----------------------------------------------------------------------------

NodeInit ==
  /\ Init
  /\ mempool = {} /\ orphans = << >> /\ my_height = 0
  /\ task = [t \in Task |-> Idle]
  /\ announced = {} /\ asked = {} /\ undelivered = Submittable
  /\ restarts = 0 /\ executed = {}

\* What a task does by itself once it was given a block.
Step(t) ==
  \/ Announce(t) \/ Prune(t) \/ RequeueDisplaced(t)
  \/ BufferOrphan(t) \/ TakeOrphans(t) \/ SubmitChild(t)

NodeNext ==
  \/ \E t \in Task : Step(t)
  \/ \E t \in Task, b \in Submittable : Arrive(t, b)
  \/ \E h \in asked, b \in Submittable : Respond(h, b)
  \/ \E h \in asked : NoAnswer(h)
  \/ \E tx \in Offered : NewTransaction(tx)
  \/ GetWork
  \/ RestartNode

NodeSpec == NodeInit /\ [][NodeNext]_node_vars

=============================================================================
