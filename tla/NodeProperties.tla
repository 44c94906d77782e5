--------------------------- MODULE NodeProperties ---------------------------
(***************************************************************************)
(* What a node promises its peers, miners and wallets.                     *)
(***************************************************************************)
EXTENDS Node, ChainProperties

\* No task has anything left to do.
Quiet == \A t \in Task : task[t].pc = "idle"

\* Everything a node does to the store is a step of the consensus core: no
\* order of tasks, retries and restarts writes a tree except submit_block.
ImplementsChain == Spec

\* docs/ARCHITECTURE.md: "a transaction is only actually removed once the
\* block containing it is truly `Accepted` onto the canonical chain": what
\* leaves the mempool is canonical at that moment.
PendingUntilMined ==
  [][mempool \ mempool' \subseteq CanonicalTransactions]_node_vars

\* README.md: "transactions displaced by a reorg [are] automatically
\* re-queued": once a node has settled, what was ever executed is executed on
\* the canonical chain or pending.
DisplacedKept == Quiet => executed \subseteq CanonicalTransactions \cup mempool

\* The same as long as the process was not restarted (a restart between a
\* reorg and its mempool_insert calls loses the list).
DisplacedKeptWhileUp == restarts = 0 => DisplacedKept

\* A block only became canonical after, or together with, being passed on to
\* the peers, also one that was first stored on a side branch and adopted
\* later under another tip.
CanonicalAnnounced ==
  Quiet /\ restarts = 0 => {heights[k] : k \in DOMAIN heights \ {0}} \subseteq announced

\* After any reorg, to a lower height too, and after a restart, the height in
\* the handshake is the tip's.
HeightAdvertised == Quiet => my_height = tip.height

\* main.rs on the orphan buffer: "Retried once that parent is accepted": when
\* a node has settled, no block is still buffered under its tip.
NoOrphanOnTip == Quiet => tip.hash \notin DOMAIN orphans

-----------------------------------------------------------------------------
(* Catching up.  Tasks run on, a block that was mined reaches the node, and *)
(* a peer that has the block answers the GetBlock.                         *)

NodeFairness ==
  /\ \A t \in Task : WF_node_vars(Step(t))
  /\ \A b \in Submittable :
       WF_node_vars(\/ \E t \in Task : Arrive(t, b)
                    \/ Respond(id(b), b))

\* No answer is lost.
ReliableNext ==
  \/ \E t \in Task : Step(t)
  \/ \E t \in Task, b \in Submittable : Arrive(t, b)
  \/ \E h \in asked, b \in Submittable : Respond(h, b)

FairNodeSpec == NodeInit /\ [][ReliableNext]_node_vars /\ NodeFairness

\* docs/ARCHITECTURE.md: a block that arrives before its parent is kept,
\* "retrying the buffered block (and anything buffered on top of it) once the
\* parent arrives": in whatever order blocks arrive, the node ends on a branch
\* no valid branch outweighs.
CatchesUp == <>[](\A h \in Deliverable : WorkOf(h) <= chainwork[tip.hash])

=============================================================================
