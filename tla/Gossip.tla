------------------------------- MODULE Gossip -------------------------------
(***************************************************************************)
(* Several nodes and the connections between them: the peer map and the    *)
(* life of a connection in ondris-network/src/lib.rs, and the event loop   *)
(* and the rebroadcast timer of ondris-node/src/main.rs on top of it.      *)
(*                                                                         *)
(* Forks are modules Chain's and Node's: the chain is a line here, a block *)
(* is its height and a node's store is the blocks up to its own height.    *)
(* A node handles one event at a time.  What is under way on a connection  *)
(* arrives in order; what is queued already is not queued again (bound: in *)
(* the code the queues are unbounded, and what nodes echo multiplies).     *)
(* Blocks and transactions do not meet here: a run has one or the other.   *)
(***************************************************************************)
EXTENDS Integers, FiniteSets, SequencesExt

CONSTANTS Node,
          Connection,     \* [dialer, target]: every --peer of every node
          NetworkOf,      \* node -> network name of its genesis
          Tx,             \* transactions wallets may submit
          Miner,          \* nodes that miners submit blocks to
          MaxHeight,      \* bound: blocks that are mined
          MaxFailures     \* bound: lost connections and restarts

ASSUME GossipAssumption ==
  /\ Connection \subseteq [dialer : Node, target : Node]
  /\ \A c \in Connection : c.dialer # c.target
  /\ Miner \subseteq Node /\ \A n, m \in Miner : NetworkOf[n] = NetworkOf[m]
  /\ MaxHeight \in Nat /\ MaxFailures \in Nat /\ IsFiniteSet(Tx)

VARIABLES
  running,    \* nodes that were started
  height,     \* node -> height of its chain
  mempool,    \* node -> pending transactions
  orphans,    \* node -> buffered blocks, each waiting for the one below
  stage,      \* connection -> its end's node -> how far handle_connection is
  inbox,      \* connection -> its end's node -> messages under way to it: on
              \*   the wire, and behind them in the queue of the other end
  failures,   \* failures so far
  foreign,    \* history: nodes that handled something of another network
  reached     \* history: the newest block was mined, and has been passed on
              \*   since, on a network in one piece

gossip_vars == <<running, height, mempool, orphans, stage, inbox, failures, foreign,
                 reached>>

Ends(c) == {c.dialer, c.target}
Other(c, n) == IF n = c.dialer THEN c.target ELSE c.dialer
ConnectionsOf(n) == {c \in Connection : n \in Ends(c)}

NewBlock(k)       == [kind |-> "block", height |-> k]   \* BlockResponse(Some) too
GetBlock(k)       == [kind |-> "get", height |-> k]
NewTransaction(t) == [kind |-> "tx", tx |-> t]
Handshake         == [kind |-> "handshake"]   \* of the node that wrote it

\* Network.peers: an entry in the map is there from the Noise handshake to the
\* end of the read loop.  (One whose Handshake could not be written stays for
\* ever, with nobody behind it: what is sent to it is lost.)
peers(n) == {c \in ConnectionsOf(n) : stage[c][n] \in {"open", "served"}}

\* Both ends have written their Handshake, write what is queued and read.
Established(c) == \A n \in Ends(c) : stage[c][n] = "served"

\* The nodes of a network hang together, directly or through others.
InOnePiece(conns) ==
  \A S \in SUBSET running :
    \A n \in S, m \in running \ S :
      NetworkOf[n] = NetworkOf[m] =>
        \E c \in conns : /\ c.dialer \in S <=> c.target \notin S
                         /\ NetworkOf[c.dialer] = NetworkOf[n]
                         /\ NetworkOf[c.target] = NetworkOf[n]

Connected == running = Node /\ InOnePiece({c \in Connection : Established(c)})

-----------------------------------------------------------------------------
(* Sending: broadcast and send_to put a message on the queues of peers.    *)

Enqueue(queue, msgs) ==
  IF \A i \in DOMAIN msgs : Contains(queue, msgs[i]) THEN queue ELSE queue \o msgs

Queued(conns, n, msgs, to) ==
  [c \in Connection |->
     IF c \in conns THEN [to[c] EXCEPT ![Other(c, n)] = Enqueue(@, msgs)] ELSE to[c]]

broadcast(n, msgs, to) == Queued(peers(n), n, msgs, to)
send_to(c, n, msg, to) == Queued(peers(n) \cap {c}, n, <<msg>>, to)

-----------------------------------------------------------------------------
(* The life of a connection.                                               *)

\* A node starts, or starts again, and dials each of its --peer once: a node
\* that does not run yet is not tried again.
Dialled(n, old) ==
  [c \in Connection |->
     IF c.dialer = n /\ c.target \in running
     THEN [e \in Ends(c) |-> "dialled"] ELSE old[c]]

Start(n) ==
  /\ n \notin running
  /\ running' = running \cup {n}
  /\ stage' = Dialled(n, stage)
  /\ UNCHANGED <<height, mempool, orphans, inbox, failures, foreign, reached>>

\* The Noise handshake is over: an entry in the peer map, and from now on
\* messages are queued for the other end.
Open(c, n) ==
  /\ stage[c][n] = "dialled"
  /\ stage' = [stage EXCEPT ![c][n] = "open"]
  /\ UNCHANGED <<running, height, mempool, orphans, inbox, failures, foreign, reached>>

\* Mutation: the write task is started before the Handshake is written.
WriteHandshakeLate(c, n) ==
  /\ stage[c][n] = "open"
  /\ stage' = [stage EXCEPT ![c][n] = "served"]
  /\ inbox' = [inbox EXCEPT ![c][Other(c, n)] = Append(@, Handshake)]
  /\ UNCHANGED <<running, height, mempool, orphans, failures, foreign, reached>>

\* The Handshake is written; only then do the write task, which takes over the
\* queue, and the read loop start.
WriteHandshake(c, n) ==
  /\ stage[c][n] = "open"
  /\ stage' = [stage EXCEPT ![c][n] = "served"]
  /\ inbox' = [inbox EXCEPT ![c][Other(c, n)] = <<Handshake>> \o @]
  /\ UNCHANGED <<running, height, mempool, orphans, failures, foreign, reached>>

Down(conns, old) ==
  [c \in Connection |-> IF c \in conns THEN [e \in Ends(c) |-> "none"] ELSE old[c]]
Lost(conns, old) ==
  [c \in Connection |-> IF c \in conns THEN [e \in Ends(c) |-> << >>] ELSE old[c]]

\* The next message the read loop of n gets: the other end has written it.
Arrived(c, n) ==
  /\ stage[c][n] = "served" /\ stage[c][Other(c, n)] = "served"
  /\ inbox[c][n] # << >>

\* Another network ends the connection, which the other end notices at its next
\* read.  The height in the Handshake is not looked at.
ReadHandshake(c, n) ==
  /\ Arrived(c, n) /\ Head(inbox[c][n]) = Handshake
  /\ IF NetworkOf[n] = NetworkOf[Other(c, n)]
     THEN /\ inbox' = [inbox EXCEPT ![c][n] = Tail(@)]
          /\ UNCHANGED stage
     ELSE /\ stage' = Down({c}, stage)
          /\ inbox' = Lost({c}, inbox)
  /\ UNCHANGED <<running, height, mempool, orphans, failures, foreign, reached>>

\* The connection is lost, with what was under way on it.  Nobody dials again.
Break(c) ==
  /\ failures < MaxFailures
  /\ \E n \in Ends(c) : stage[c][n] # "none"
  /\ failures' = failures + 1
  /\ stage' = Down({c}, stage)
  /\ inbox' = Lost({c}, inbox)
  /\ reached' = FALSE
  /\ UNCHANGED <<running, height, mempool, orphans, foreign>>

-----------------------------------------------------------------------------
(* Events.                                                                 *)

\* Mutation: the orphans waiting for a block are not tried.
TopFromAlone(n, k) == k

\* The height reached by accepting k and the orphans stacked on it.
TopFrom(n, k) ==
  CHOOSE top \in k..MaxHeight :
    /\ (k+1)..top \subseteq orphans[n]
    /\ top + 1 \notin orphans[n]

\* accept_and_broadcast: a known block is dropped, the next one is accepted with
\* the orphans it unlocks, each passed on, and any other is buffered and its
\* parent asked for.
Handle(n, k, rest) ==
  \/ /\ k <= height[n]
     /\ inbox' = rest
     /\ UNCHANGED <<height, orphans>>
  \/ /\ k = height[n] + 1
     /\ height' = [height EXCEPT ![n] = TopFrom(n, k)]
     /\ orphans' = [orphans EXCEPT ![n] = @ \ (k..TopFrom(n, k))]
     /\ inbox' = broadcast(n, [j \in 1..(TopFrom(n, k) - k + 1) |-> NewBlock(k + j - 1)], rest)
  \/ /\ k > height[n] + 1
     /\ orphans' = [orphans EXCEPT ![n] = @ \cup {k}]
     /\ inbox' = broadcast(n, <<GetBlock(k - 1)>>, rest)
     /\ UNCHANGED height

\* A miner's block on the newest one, submitted over RPC (bound: no forks).
Mine(n) ==
  /\ n \in Miner \cap running
  /\ \A m \in Miner : height[m] <= height[n]
  /\ height[n] < MaxHeight /\ \A m \in Node : mempool[m] = {}
  /\ Handle(n, height[n] + 1, inbox)
  /\ reached' = Connected
  /\ UNCHANGED <<running, mempool, stage, failures, foreign>>

SubmitTx(n, t) ==
  /\ n \in running
  /\ \A m \in Node : t \notin mempool[m] /\ height[m] = 0
  /\ mempool' = [mempool EXCEPT ![n] = @ \cup {t}]
  /\ inbox' = broadcast(n, <<NewTransaction(t)>>, inbox)
  /\ UNCHANGED <<running, height, orphans, stage, failures, foreign, reached>>

\* Mutation: the timer sends nothing.
RebroadcastNothing(n) ==
  /\ n \in running /\ mempool[n] # {}
  /\ UNCHANGED gossip_vars

\* Every 30 seconds, all that is pending goes to all peers again.
Rebroadcast(n) ==
  /\ n \in running /\ mempool[n] # {}
  /\ inbox' = broadcast(n, SetToSeq({NewTransaction(t) : t \in mempool[n]}), inbox)
  /\ UNCHANGED <<running, height, mempool, orphans, stage, failures, foreign,
                 reached>>

\* A message is read and handled.  A transaction is broadcast again by every
\* node it reaches, each time.
Receive(c, n) ==
  LET msg  == Head(inbox[c][n])
      rest == [inbox EXCEPT ![c][n] = Tail(@)]
  IN  /\ Arrived(c, n) /\ msg # Handshake
      /\ foreign' = IF NetworkOf[Other(c, n)] # NetworkOf[n] THEN foreign \cup {n} ELSE foreign
      /\ \/ /\ msg.kind = "block"
            /\ Handle(n, msg.height, rest)
            /\ UNCHANGED mempool
         \/ /\ msg.kind = "get"
            /\ inbox' = IF msg.height <= height[n]
                        THEN send_to(c, n, NewBlock(msg.height), rest) ELSE rest
            /\ UNCHANGED <<height, orphans, mempool>>
         \/ /\ msg.kind = "tx"
            /\ mempool' = [mempool EXCEPT ![n] = @ \cup {msg.tx}]
            /\ inbox' = broadcast(n, <<msg>>, rest)
            /\ UNCHANGED <<height, orphans>>
      /\ UNCHANGED <<running, stage, failures, reached>>

\* A node stops and starts again: chain and mempool are on disk, the rest is
\* gone.  It dials its own peers again; those that had dialled it do not.
Restart(n) ==
  /\ n \in running /\ failures < MaxFailures
  /\ failures' = failures + 1
  /\ stage' = Dialled(n, Down(ConnectionsOf(n), stage))
  /\ inbox' = Lost(ConnectionsOf(n), inbox)
  /\ orphans' = [orphans EXCEPT ![n] = {}]
  /\ reached' = FALSE
  /\ UNCHANGED <<running, height, mempool, foreign>>

-----------------------------------------------------------------------------

GossipInit ==
  /\ running = {} /\ height = [n \in Node |-> 0]
  /\ mempool = [n \in Node |-> {}] /\ orphans = [n \in Node |-> {}]
  /\ stage = [c \in Connection |-> [e \in Ends(c) |-> "none"]]
  /\ inbox = [c \in Connection |-> [e \in Ends(c) |-> << >>]]
  /\ failures = 0 /\ foreign = {} /\ reached = FALSE

GossipNext ==
  \/ \E n \in Node : Start(n) \/ Mine(n) \/ Rebroadcast(n) \/ Restart(n)
  \/ \E n \in Node, t \in Tx : SubmitTx(n, t)
  \/ \E c \in Connection :
       \/ Break(c)
       \/ \E n \in Ends(c) :
            \/ Open(c, n) \/ WriteHandshake(c, n)
            \/ ReadHandshake(c, n) \/ Receive(c, n)

GossipSpec == GossipInit /\ [][GossipNext]_gossip_vars

\* Nodes start, connections get through their handshakes, what is sent is
\* read, and the timer ticks.
FairGossipSpec ==
  /\ GossipSpec
  /\ WF_gossip_vars(\E n \in Node : Start(n))
  /\ WF_gossip_vars(\E c \in Connection : \E n \in Ends(c) :
       Open(c, n) \/ WriteHandshake(c, n) \/ ReadHandshake(c, n))
  /\ \A n \in Node : WF_gossip_vars(Rebroadcast(n))
  /\ \A c \in Connection : \A n \in Ends(c) : WF_gossip_vars(Receive(c, n))

-----------------------------------------------------------------------------
(* What the network promises.                                              *)

Fellows(n) == {m \in Node : NetworkOf[m] = NetworkOf[n]}

\* docs/ARCHITECTURE.md: "a transaction that only reached one node still
\* eventually reaches the rest of the network", also one submitted before a
\* connection was up, lost with one, or kept over a restart.
TransactionsSpread ==
  \A t \in Tx :
    (\E n \in Node : t \in mempool[n])
      ~> \/ ~ Connected
         \/ \A n \in Node : t \in mempool[n] => \A m \in Fellows(n) : t \in mempool[m]

\* A node that joined late, or lost connections or buffered blocks before,
\* catches up by asking back from the newest block: once that is mined in a
\* network in one piece all its nodes get it, and no orphan is left behind.
ChainsConverge ==
  reached ~> \/ ~ reached
             \/ \A n \in Miner : \A m \in Fellows(n) :
                  height[m] = height[n] /\ orphans[m] = {}

\* Nothing of another network is ever handled: the name in the Handshake is
\* compared before anything behind it is read, whatever was queued meanwhile.
NetworksStayApart == foreign = {}

=============================================================================
