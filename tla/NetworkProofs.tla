---------------------------- MODULE NetworkProofs ----------------------------
(***************************************************************************)
(* Theorems about the P2P network: what nodes of different networks        *)
(* exchange (module Gossip), and what one connection delivers (module      *)
(* Channel).  The two specifications have no variable in common.           *)
(***************************************************************************)
EXTENDS Gossip, Channel, SetInduction

-----------------------------------------------------------------------------
(***************************************************************************)
(* NetworksStayApart for every set of nodes, connections and networks.     *)
(*                                                                         *)
(* The invariant alone is not inductive.  A node handles the first message *)
(* under way to it, whatever it is: what has to be carried along is that   *)
(* between two networks this is the Handshake, from the moment the other   *)
(* end has started its write task, however long its queue was by then and  *)
(* whatever is queued behind it later.  That something is at the front of  *)
(* the messages and stays there needs the messages to be sequences, and so *)
(* the types of everything that is sent.                                   *)

GossipMessage ==
  [kind : {"block", "get"}, height : 1..MaxHeight] \cup [kind : {"tx"}, tx : Tx]
    \cup {Handshake}

\* What is under way: a sequence of messages for each end of each connection.
InboxShape(to) ==
  /\ DOMAIN to = Connection
  /\ \A c \in Connection : to[c] \in [Ends(c) -> Seq(GossipMessage)]

StageShape(st) ==
  /\ DOMAIN st = Connection
  /\ \A c \in Connection : DOMAIN st[c] = Ends(c)

NodesTypeOK ==
  /\ height \in [Node -> 0..MaxHeight]
  /\ mempool \in [Node -> SUBSET Tx]
  /\ orphans \in [Node -> SUBSET (1..MaxHeight)]

\* Between two networks the Handshake is in front of all that is written.
Greeted(st, to) ==
  \A c \in Connection : \A n \in Ends(c) :
    NetworkOf[n] # NetworkOf[Other(c, n)] /\ st[c][Other(c, n)] = "served"
      => to[c][n] # << >> /\ Head(to[c][n]) = Handshake

ConnectionsOK(st, to) == StageShape(st) /\ InboxShape(to) /\ Greeted(st, to)

ApartInv == NetworksStayApart /\ NodesTypeOK /\ ConnectionsOK(stage, inbox)

\* new has what is in front of the messages of old still in front.
FrontsKept(old, new) ==
  \A c \in Connection : \A e \in Ends(c) :
    old[c][e] # << >> => new[c][e] # << >> /\ Head(new[c][e]) = Head(old[c][e])

LEMMA EndsFacts ==
  ASSUME NEW c \in Connection, NEW n
  PROVE  /\ Ends(c) \subseteq Node /\ Other(c, n) \in Ends(c)
         /\ n \in Ends(c) => Other(c, Other(c, n)) = n /\ Other(c, n) # n
BY GossipAssumption DEF Ends, Other

LEMMA ConcatFront ==
  ASSUME NEW S, NEW s \in Seq(S), NEW t \in Seq(S), s # << >>
  PROVE  s \o t # << >> /\ Head(s \o t) = Head(s)
OBVIOUS

\* What is queued comes in behind what is there.
LEMMA QueuedBehind ==
  ASSUME NEW conns, NEW n, NEW to, InboxShape(to),
         NEW msgs \in Seq(GossipMessage)
  PROVE  InboxShape(Queued(conns, n, msgs, to)) /\ FrontsKept(to, Queued(conns, n, msgs, to))
<1> DEFINE new == Queued(conns, n, msgs, to)
<1>1. ASSUME NEW c \in Connection, NEW e \in Ends(c)
      PROVE  /\ Enqueue(to[c][e], msgs) \in Seq(GossipMessage)
             /\ to[c][e] # << >> => /\ Enqueue(to[c][e], msgs) # << >>
                                    /\ Head(Enqueue(to[c][e], msgs)) = Head(to[c][e])
  <2>1. to[c][e] \in Seq(GossipMessage)
    BY DEF InboxShape
  <2>2. to[c][e] \o msgs \in Seq(GossipMessage)
    BY <2>1
  <2> QED BY <2>1, <2>2, ConcatFront DEF Enqueue
<1>2. ASSUME NEW c \in Connection
      PROVE  /\ DOMAIN new[c] = Ends(c)
             /\ \A e \in Ends(c) : new[c][e] \in {to[c][e], Enqueue(to[c][e], msgs)}
             /\ new[c] = [e \in Ends(c) |-> new[c][e]]
  <2>1. to[c] \in [Ends(c) -> Seq(GossipMessage)]
    BY DEF InboxShape
  <2>2. CASE c \in conns
    <3>1. new[c] = [to[c] EXCEPT ![Other(c, n)] = Enqueue(to[c][Other(c, n)], msgs)]
      BY <2>2 DEF Queued
    <3> QED BY <2>1, <3>1
  <2>3. CASE c \notin conns
    BY <2>1, <2>3 DEF Queued
  <2> QED BY <2>2, <2>3
<1>3. DOMAIN new = Connection
  BY DEF Queued
<1> HIDE DEF new
<1>4. \A c \in Connection : \A e \in Ends(c) : new[c][e] \in Seq(GossipMessage)
  BY <1>1, <1>2 DEF InboxShape
<1>5. InboxShape(new)
  BY <1>2, <1>3, <1>4 DEF InboxShape
<1>6. FrontsKept(to, new)
  BY <1>1, <1>2 DEF FrontsKept
<1> QED BY <1>5, <1>6 DEF new

\* The cascade stops somewhere.
LEMMA TopType ==
  ASSUME NEW n \in Node, NEW k \in 1..MaxHeight, orphans[n] \subseteq 1..MaxHeight
  PROVE  TopFrom(n, k) \in k..MaxHeight
<1> USE GossipAssumption
<1> DEFINE Tops == {top \in k..MaxHeight : (k+1)..top \subseteq orphans[n]}
           Left == {l \in 0..MaxHeight : MaxHeight - l \in Tops}
<1>1. k \in Tops
  OBVIOUS
<1>2. MaxHeight - k \in Left /\ Left \in SUBSET Nat
  BY <1>1
<1>3. PICK m \in Left : \A l \in Left : m <= l
  BY <1>2, LeastNat
<1>4. PICK top \in Tops : top = MaxHeight - m
  OBVIOUS
<1>5. \A other \in Tops : other <= top
  <2> TAKE other \in Tops
  <2>1. MaxHeight - other \in Left
    OBVIOUS
  <2> QED BY <1>3, <1>4, <2>1
<1>6. top + 1 \notin orphans[n]
  <2> SUFFICES ASSUME top + 1 \in orphans[n] PROVE FALSE
    OBVIOUS
  <2>1. (k+1)..(top+1) \subseteq orphans[n] /\ top + 1 \in k..MaxHeight
    OBVIOUS
  <2> QED BY <1>5, <2>1
<1> QED BY <1>4, <1>6 DEF TopFrom

\* The pending transactions can be put in a sequence.
LEMMA PendingSeq ==
  ASSUME NEW T \in SUBSET Tx
  PROVE  SetToSeq({NewTransaction(t) : t \in T}) \in Seq(GossipMessage)
<1> DEFINE S == {NewTransaction(t) : t \in T}
<1>1. IsFiniteSet(T)
  BY GossipAssumption, FS_Subset
<1>2. IsFiniteSet(S)
  <2> DEFINE f == [t \in T |-> NewTransaction(t)]
  <2>1. f \in Surjection(T, S)
    BY DEF Surjection
  <2> QED BY <1>1, <2>1, FS_Surjection
<1>3. S \subseteq GossipMessage
  BY DEF NewTransaction, GossipMessage
<1> HIDE DEF S
<1>4. Cardinality(S) \in Nat /\ ExistsBijection(1..Cardinality(S), S)
  BY <1>2, FS_CardinalityType
<1>5. \E f \in [1..Cardinality(S) -> S] : IsInjective(f)
  BY <1>4 DEF ExistsBijection, Bijection, Injection, IsInjective
<1> DEFINE seq == SetToSeq(S)
           size == Cardinality(S)
<1>6. seq \in [1..size -> S]
  BY <1>5 DEF SetToSeq
<1> HIDE DEF seq, size
<1>7. seq \in [1..size -> GossipMessage] /\ size \in Nat
  BY <1>3, <1>4, <1>6 DEF size
<1>8. seq \in Seq(GossipMessage)
  BY <1>7
<1> QED BY <1>8 DEF S, seq

\* A block is handled: what is sent comes in behind what is there.
LEMMA HandleKeeps ==
  ASSUME NEW n \in Node, NEW k \in 1..MaxHeight, NEW rest, InboxShape(rest),
         height \in [Node -> 0..MaxHeight],
         orphans \in [Node -> SUBSET (1..MaxHeight)], Handle(n, k, rest)
  PROVE  /\ height' \in [Node -> 0..MaxHeight]
         /\ orphans' \in [Node -> SUBSET (1..MaxHeight)]
         /\ InboxShape(inbox') /\ FrontsKept(rest, inbox')
<1> USE GossipAssumption
<1>1. CASE /\ k <= height[n]
           /\ inbox' = rest
           /\ UNCHANGED <<height, orphans>>
  BY <1>1 DEF FrontsKept
<1>2. CASE /\ k = height[n] + 1
           /\ height' = [height EXCEPT ![n] = TopFrom(n, k)]
           /\ orphans' = [orphans EXCEPT ![n] = @ \ (k..TopFrom(n, k))]
           /\ inbox' = broadcast(n, [j \in 1..(TopFrom(n, k) - k + 1) |-> NewBlock(k + j - 1)], rest)
  <2>1. TopFrom(n, k) \in k..MaxHeight
    BY TopType
  <2> DEFINE top == TopFrom(n, k)
             count == top - k + 1
             blocks == [j \in 1..count |-> NewBlock(k + j - 1)]
  <2> HIDE DEF top
  <2>2. \A j \in 1..count : NewBlock(k + j - 1) \in GossipMessage
    BY <2>1 DEF NewBlock, GossipMessage, top
  <2>3. count \in Nat
    BY <2>1 DEF top
  <2> HIDE DEF count
  <2>4. blocks \in [1..count -> GossipMessage]
    BY <2>2
  <2> HIDE DEF blocks
  <2>5. blocks \in Seq(GossipMessage)
    BY <2>3, <2>4
  <2>6. InboxShape(inbox') /\ FrontsKept(rest, inbox')
    BY <1>2, <2>5, QueuedBehind DEF broadcast, blocks, count, top
  <2>7. /\ height' \in [Node -> 0..MaxHeight]
        /\ orphans' \in [Node -> SUBSET (1..MaxHeight)]
    BY <1>2, <2>1
  <2> QED BY <2>6, <2>7
<1>3. CASE /\ k > height[n] + 1
           /\ orphans' = [orphans EXCEPT ![n] = @ \cup {k}]
           /\ inbox' = broadcast(n, <<GetBlock(k - 1)>>, rest)
           /\ UNCHANGED height
  <2>1. k - 1 \in 1..MaxHeight
    BY <1>3
  <2>2. <<GetBlock(k - 1)>> \in Seq(GossipMessage)
    BY <2>1 DEF GetBlock, GossipMessage
  <2>3. InboxShape(inbox') /\ FrontsKept(rest, inbox')
    BY <1>3, <2>2, QueuedBehind DEF broadcast
  <2> QED BY <1>3, <2>3
<1> QED BY <1>1, <1>2, <1>3 DEF Handle

LEMMA ApartStart == GossipInit => ApartInv
<1> SUFFICES ASSUME GossipInit PROVE ApartInv
  OBVIOUS
<1>1. InboxShape(inbox) /\ StageShape(stage)
  BY DEF GossipInit, InboxShape, StageShape
<1>2. NodesTypeOK
  BY GossipAssumption DEF GossipInit, NodesTypeOK
<1>3. Greeted(stage, inbox)
  BY EndsFacts DEF GossipInit, Greeted
<1> QED BY <1>1, <1>2, <1>3 DEF ApartInv, ConnectionsOK, NetworksStayApart, GossipInit

\* Sending leaves the Handshakes in front.
LEMMA SendingKeeps ==
  ASSUME NEW rest, Greeted(stage, rest), StageShape(stage),
         InboxShape(inbox'), FrontsKept(rest, inbox'), UNCHANGED stage
  PROVE  ConnectionsOK(stage, inbox)'
<1>1. Greeted(stage, inbox')
  BY DEF Greeted, FrontsKept
<1> QED BY <1>1 DEF ConnectionsOK

\* Connections are dialled, and lost before that with what was under way.
LEMMA DialKeeps ==
  ASSUME NEW n, NEW conns, NEW st, ConnectionsOK(stage, inbox),
         \/ st = stage /\ inbox' = inbox
         \/ st = Down(conns, stage) /\ inbox' = Lost(conns, inbox),
         stage' = st \/ stage' = Dialled(n, st)
  PROVE  ConnectionsOK(stage, inbox)'
<1>1. DOMAIN stage' = Connection /\ DOMAIN inbox' = Connection
  BY DEF ConnectionsOK, StageShape, InboxShape, Down, Lost, Dialled
<1>2. ASSUME NEW c \in Connection
      PROVE  /\ DOMAIN stage'[c] = Ends(c)
             /\ inbox'[c] \in [Ends(c) -> Seq(GossipMessage)]
             /\ \/ \A e \in Ends(c) : stage'[c][e] # "served"
                \/ stage'[c] = stage[c] /\ inbox'[c] = inbox[c]
  <2>1. inbox[c] \in [Ends(c) -> Seq(GossipMessage)] /\ DOMAIN stage[c] = Ends(c)
    BY DEF ConnectionsOK, StageShape, InboxShape
  <2>2. [e \in Ends(c) |-> << >>] \in [Ends(c) -> Seq(GossipMessage)]
    OBVIOUS
  <2>3. \/ st[c] = stage[c] /\ inbox'[c] = inbox[c]
        \/ st[c] = [e \in Ends(c) |-> "none"] /\ inbox'[c] = [e \in Ends(c) |-> << >>]
    BY DEF Down, Lost
  <2>4. stage'[c] = st[c] \/ stage'[c] = [e \in Ends(c) |-> "dialled"]
    BY DEF Dialled
  <2>5. CASE stage'[c] = [e \in Ends(c) |-> "dialled"]
    BY <2>1, <2>2, <2>3, <2>5
  <2>6. CASE stage'[c] = st[c]
    BY <2>1, <2>2, <2>3, <2>6
  <2> QED BY <2>4, <2>5, <2>6
<1>3. Greeted(stage', inbox')
  <2> SUFFICES ASSUME NEW c \in Connection, NEW e \in Ends(c),
                      NetworkOf[e] # NetworkOf[Other(c, e)], stage'[c][Other(c, e)] = "served"
               PROVE  inbox'[c][e] # << >> /\ Head(inbox'[c][e]) = Handshake
    BY DEF Greeted
  <2>1. stage'[c] = stage[c] /\ inbox'[c] = inbox[c]
    BY <1>2, EndsFacts
  <2> QED BY <2>1 DEF ConnectionsOK, Greeted
<1> QED BY <1>1, <1>2, <1>3 DEF ConnectionsOK, StageShape, InboxShape

LEMMA ApartStep == ApartInv /\ [GossipNext]_gossip_vars => ApartInv'
<1> SUFFICES ASSUME ApartInv, [GossipNext]_gossip_vars PROVE ApartInv'
  OBVIOUS
<1>0. /\ foreign = {} /\ NodesTypeOK /\ ConnectionsOK(stage, inbox)
      /\ StageShape(stage) /\ InboxShape(inbox) /\ Greeted(stage, inbox)
      /\ height \in [Node -> 0..MaxHeight] /\ orphans \in [Node -> SUBSET (1..MaxHeight)]
  BY DEF ApartInv, NetworksStayApart, ConnectionsOK, NodesTypeOK
<1>1. CASE UNCHANGED gossip_vars
  BY <1>0, <1>1 DEF gossip_vars, ApartInv, NetworksStayApart, NodesTypeOK
<1>2. ASSUME NEW n \in Node, Start(n) PROVE ApartInv'
  <2>1. ConnectionsOK(stage, inbox)'
    BY <1>0, <1>2, DialKeeps DEF Start
  <2> QED BY <1>0, <1>2, <2>1 DEF Start, ApartInv, NetworksStayApart, NodesTypeOK
<1>3. ASSUME NEW n \in Node, Mine(n) PROVE ApartInv'
  <2>1. height[n] + 1 \in 1..MaxHeight
    BY <1>0, <1>3, GossipAssumption DEF Mine
  <2>2. /\ NodesTypeOK' /\ InboxShape(inbox') /\ FrontsKept(inbox, inbox')
    BY <1>0, <1>3, <2>1, HandleKeeps DEF Mine, NodesTypeOK
  <2>3. ConnectionsOK(stage, inbox)'
    BY <1>0, <1>3, <2>2, SendingKeeps DEF Mine
  <2> QED BY <1>0, <1>3, <2>2, <2>3 DEF Mine, ApartInv, NetworksStayApart
<1>4. ASSUME NEW n \in Node, NEW t \in Tx, SubmitTx(n, t) PROVE ApartInv'
  <2>1. <<NewTransaction(t)>> \in Seq(GossipMessage)
    BY DEF NewTransaction, GossipMessage
  <2>2. InboxShape(inbox') /\ FrontsKept(inbox, inbox')
    BY <1>0, <1>4, <2>1, QueuedBehind DEF SubmitTx, broadcast
  <2>3. ConnectionsOK(stage, inbox)'
    BY <1>0, <1>4, <2>2, SendingKeeps DEF SubmitTx
  <2> QED BY <1>0, <1>4, <2>3 DEF SubmitTx, ApartInv, NetworksStayApart, NodesTypeOK
<1>5. ASSUME NEW n \in Node, Rebroadcast(n) PROVE ApartInv'
  <2>1. SetToSeq({NewTransaction(t) : t \in mempool[n]}) \in Seq(GossipMessage)
    BY <1>0, PendingSeq DEF NodesTypeOK
  <2>2. InboxShape(inbox') /\ FrontsKept(inbox, inbox')
    BY <1>0, <1>5, <2>1, QueuedBehind DEF Rebroadcast, broadcast
  <2>3. ConnectionsOK(stage, inbox)'
    BY <1>0, <1>5, <2>2, SendingKeeps DEF Rebroadcast
  <2> QED BY <1>0, <1>5, <2>3 DEF Rebroadcast, ApartInv, NetworksStayApart, NodesTypeOK
<1>6. ASSUME NEW n \in Node, Restart(n) PROVE ApartInv'
  <2>1. ConnectionsOK(stage, inbox)'
    BY <1>0, <1>6, DialKeeps DEF Restart
  <2> QED BY <1>0, <1>6, <2>1 DEF Restart, ApartInv, NetworksStayApart, NodesTypeOK
<1>7. ASSUME NEW c \in Connection, Break(c) PROVE ApartInv'
  <2>1. ConnectionsOK(stage, inbox)'
    BY <1>0, <1>7, DialKeeps DEF Break
  <2> QED BY <1>0, <1>7, <2>1 DEF Break, ApartInv, NetworksStayApart, NodesTypeOK
<1>8. ASSUME NEW c \in Connection, NEW n \in Ends(c), Open(c, n) PROVE ApartInv'
  <2>1. /\ StageShape(stage')
        /\ \A d \in Connection : \A m \in Ends(d) :
             stage'[d][m] = IF d = c /\ m = n THEN "open" ELSE stage[d][m]
    <3>1. stage' = [stage EXCEPT ![c][n] = "open"]
      BY <1>8 DEF Open
    <3> QED BY <1>0, <3>1 DEF StageShape
  <2>2. Greeted(stage', inbox)
    BY <1>0, <2>1, EndsFacts DEF Greeted
  <2> QED BY <1>0, <1>8, <2>1, <2>2
          DEF Open, ConnectionsOK, ApartInv, NetworksStayApart, NodesTypeOK
<1>9. ASSUME NEW c \in Connection, NEW n \in Ends(c), WriteHandshake(c, n) PROVE ApartInv'
  <2> DEFINE e == Other(c, n)
             front == <<Handshake>> \o inbox[c][e]
  <2>1. e \in Ends(c) /\ inbox[c][e] \in Seq(GossipMessage)
    BY <1>0, EndsFacts DEF InboxShape
  <2>2. <<Handshake>> \in Seq(GossipMessage)
    BY DEF GossipMessage
  <2>3. front \in Seq(GossipMessage) /\ front # << >> /\ Head(front) = Handshake
    BY <2>1, <2>2, ConcatFront
  <2>4. inbox' = [inbox EXCEPT ![c][e] = front] /\ stage' = [stage EXCEPT ![c][n] = "served"]
    BY <1>9 DEF WriteHandshake
  <2> HIDE DEF front
  <2>5. StageShape(stage') /\ InboxShape(inbox')
    BY <1>0, <2>1, <2>3, <2>4 DEF StageShape, InboxShape
  <2>6. \A d \in Connection : \A m \in Ends(d) :
          /\ stage'[d][m] = IF d = c /\ m = n THEN "served" ELSE stage[d][m]
          /\ inbox'[d][m] = IF d = c /\ m = e THEN front ELSE inbox[d][m]
    <3> HIDE DEF e
    <3>1. \A d \in Connection : \A m \in Ends(d) :
            stage'[d][m] = IF d = c /\ m = n THEN "served" ELSE stage[d][m]
      BY <1>0, <2>4 DEF StageShape
    <3>2. \A d \in Connection : \A m \in Ends(d) :
            inbox'[d][m] = IF d = c /\ m = e THEN front ELSE inbox[d][m]
      BY <1>0, <2>1, <2>3, <2>4 DEF InboxShape
    <3> QED BY <3>1, <3>2
  <2>7. Greeted(stage', inbox')
    <3> SUFFICES ASSUME NEW d \in Connection, NEW m \in Ends(d),
                        NetworkOf[m] # NetworkOf[Other(d, m)],
                        stage'[d][Other(d, m)] = "served"
                 PROVE  inbox'[d][m] # << >> /\ Head(inbox'[d][m]) = Handshake
      BY DEF Greeted
    <3>1. CASE d = c /\ m = e
      BY <2>3, <2>6, <3>1
    <3>2. CASE ~ (d = c /\ m = e)
      <4>1. ~ (d = c /\ Other(d, m) = n)
        BY <3>2, EndsFacts
      <4>2. stage[d][Other(d, m)] = "served" /\ inbox'[d][m] = inbox[d][m]
        BY <2>6, <3>2, <4>1, EndsFacts
      <4> QED BY <1>0, <4>2 DEF Greeted
    <3> QED BY <3>1, <3>2
  <2> QED BY <1>0, <1>9, <2>5, <2>7
          DEF WriteHandshake, ConnectionsOK, ApartInv, NetworksStayApart, NodesTypeOK
<1>10. ASSUME NEW c \in Connection, NEW n \in Ends(c), NEW rest,
              Arrived(c, n), NetworkOf[n] = NetworkOf[Other(c, n)],
              rest = [inbox EXCEPT ![c][n] = Tail(@)]
       PROVE  InboxShape(rest) /\ Greeted(stage, rest)
  <2>1. inbox[c][n] \in Seq(GossipMessage) /\ inbox[c][n] # << >>
    BY <1>0, <1>10 DEF InboxShape, Arrived
  <2>2. Tail(inbox[c][n]) \in Seq(GossipMessage)
    BY <2>1
  <2>3. rest = [inbox EXCEPT ![c][n] = Tail(inbox[c][n])]
    BY <1>10
  <2>4. InboxShape(rest)
    BY <1>0, <2>2, <2>3 DEF InboxShape
  <2>5. \A d \in Connection : \A m \in Ends(d) :
          (d = c /\ m = n) \/ rest[d][m] = inbox[d][m]
    BY <1>0, <2>2, <2>3 DEF InboxShape
  <2> QED BY <1>0, <1>10, <2>4, <2>5 DEF Greeted
<1>11. ASSUME NEW c \in Connection, NEW n \in Ends(c), ReadHandshake(c, n) PROVE ApartInv'
  <2>1. CASE NetworkOf[n] = NetworkOf[Other(c, n)]
    <3>1. InboxShape(inbox') /\ Greeted(stage, inbox') /\ UNCHANGED stage
      BY <1>10, <1>11, <2>1 DEF ReadHandshake
    <3> QED BY <1>0, <1>11, <3>1
            DEF ReadHandshake, ConnectionsOK, ApartInv, NetworksStayApart, NodesTypeOK
  <2>2. CASE NetworkOf[n] # NetworkOf[Other(c, n)]
    <3>1. ConnectionsOK(stage, inbox)'
      BY <1>0, <1>11, <2>2, DialKeeps DEF ReadHandshake
    <3> QED BY <1>0, <1>11, <3>1 DEF ReadHandshake, ApartInv, NetworksStayApart, NodesTypeOK
  <2> QED BY <2>1, <2>2
<1>12. ASSUME NEW c \in Connection, NEW n \in Ends(c), Receive(c, n) PROVE ApartInv'
  <2> DEFINE msg  == Head(inbox[c][n])
             rest == [inbox EXCEPT ![c][n] = Tail(@)]
  <2>1. Arrived(c, n) /\ msg # Handshake
    BY <1>12 DEF Receive
  <2>2. NetworkOf[n] = NetworkOf[Other(c, n)]
    BY <1>0, <2>1 DEF Greeted, Arrived
  <2>3. n \in Node /\ foreign' = {} /\ UNCHANGED stage
    BY <1>0, <1>12, <2>2, EndsFacts DEF Receive
  <2>4. InboxShape(rest) /\ Greeted(stage, rest)
    BY <1>10, <2>1, <2>2
  <2>5. msg \in GossipMessage
    BY <1>0, <2>1, HeadTailProperties DEF InboxShape, Arrived
  <2>6. NodesTypeOK' /\ InboxShape(inbox') /\ FrontsKept(rest, inbox')
    <3> HIDE DEF msg, rest
    <3>1. CASE /\ msg.kind = "block"
               /\ Handle(n, msg.height, rest)
               /\ UNCHANGED mempool
      <4>1. msg.height \in 1..MaxHeight
        BY <2>5, <3>1 DEF GossipMessage, Handshake
      <4> QED BY <1>0, <2>3, <2>4, <3>1, <4>1, HandleKeeps DEF NodesTypeOK
    <3>2. CASE /\ msg.kind = "get"
               /\ inbox' = IF msg.height <= height[n]
                           THEN send_to(c, n, NewBlock(msg.height), rest) ELSE rest
               /\ UNCHANGED <<height, orphans, mempool>>
      <4>1. msg.height \in 1..MaxHeight
        BY <2>5, <3>2 DEF GossipMessage, Handshake
      <4>2. <<NewBlock(msg.height)>> \in Seq(GossipMessage)
        BY <4>1 DEF NewBlock, GossipMessage
      <4>3. InboxShape(inbox') /\ FrontsKept(rest, inbox')
        <5>1. CASE msg.height <= height[n]
          BY <2>4, <3>2, <4>2, <5>1, QueuedBehind DEF send_to
        <5>2. CASE ~ (msg.height <= height[n])
          BY <2>4, <3>2, <5>2 DEF FrontsKept
        <5> QED BY <5>1, <5>2
      <4> QED BY <1>0, <3>2, <4>3 DEF NodesTypeOK
    <3>3. CASE /\ msg.kind = "tx"
               /\ mempool' = [mempool EXCEPT ![n] = @ \cup {msg.tx}]
               /\ inbox' = broadcast(n, <<msg>>, rest)
               /\ UNCHANGED <<height, orphans>>
      <4>1. msg.tx \in Tx /\ <<msg>> \in Seq(GossipMessage)
        BY <2>5, <3>3 DEF GossipMessage, Handshake
      <4>2. InboxShape(inbox') /\ FrontsKept(rest, inbox')
        BY <2>4, <3>3, <4>1, QueuedBehind DEF broadcast
      <4> QED BY <1>0, <2>3, <3>3, <4>1, <4>2 DEF NodesTypeOK
    <3> QED BY <1>12, <3>1, <3>2, <3>3 DEF Receive, msg, rest
  <2>7. ConnectionsOK(stage, inbox)'
    BY <1>0, <2>3, <2>4, <2>6, SendingKeeps
  <2> QED BY <2>3, <2>6, <2>7 DEF ApartInv, NetworksStayApart
<1> QED
  BY <1>1, <1>2, <1>3, <1>4, <1>5, <1>6, <1>7, <1>8, <1>9, <1>11, <1>12 DEF GossipNext

\* Nothing of another network is handled, over whatever connections, restarts
\* and losses, and whatever was queued for the other end before its Handshake
\* was read: that Handshake was written first, and is compared first.
THEOREM NetworksApart == GossipSpec => []NetworksStayApart
<1>1. ApartInv => NetworksStayApart
  BY DEF ApartInv
<1> QED BY <1>1, ApartStart, ApartStep, PTL DEF GossipSpec

-----------------------------------------------------------------------------
(* Messages arrive whole and in order over one connection, for every       *)
(* prefix length, frame size, limit and queue of messages.                 *)
(*                                                                         *)
(* First FlattenSeq, whose definition is recursive.                        *)

\* f[i] is the concatenation of the first i elements of s.
Flattening(f, s, B) ==
  /\ f \in [0..Len(s) -> Seq(B)]
  /\ f[0] = << >>
  /\ \A i \in 1..Len(s) : f[i] = f[i-1] \o s[i]

\* There is such a function.
LEMMA FlatteningExists ==
  ASSUME NEW B, NEW s \in Seq(Seq(B))
  PROVE  \E f : Flattening(f, s, B)
<1>1. Len(s) \in Nat /\ \A i \in 1..Len(s) : s[i] \in Seq(B)
  BY EmptySeq, ElementOfSeq, LenProperties
<1> DEFINE n == Len(s)
           G == [i \in 1..n |-> [x \in Seq(B) |-> x \o s[i]]]
<1> HIDE DEF n
<1>2. \A i \in 1..n : \A x \in Seq(B) : G[i][x] = x \o s[i] /\ G[i][x] \in Seq(B)
  BY <1>1, ConcatProperties DEF n
<1> HIDE DEF G
<1>3. StepsStayIn(G, n, Seq(B))
  BY <1>2 DEF StepsStayIn
<1>4. << >> \in Seq(B) /\ n \in Nat
  BY <1>1, EmptySeq DEF n
<1>5. PICK g : IsStepwise(g, n, << >>, G) /\ StaysIn(g, n, Seq(B))
  BY <1>3, <1>4, StepwiseFunction
<1>6. g = [i \in 0..n |-> g[i]] /\ \A i \in 0..n : g[i] \in Seq(B)
  BY <1>5 DEF IsStepwise, StaysIn
<1>7. g \in [0..n -> Seq(B)]
  BY <1>6
<1>8. g[0] = << >>
  BY <1>4, <1>5 DEF IsStepwise
<1>9. \A i \in 1..n : g[i] = G[i][g[i-1]] /\ i - 1 \in 0..n
  BY <1>4, <1>5 DEF IsStepwise
<1>10. \A i \in 1..n : g[i] = g[i-1] \o s[i]
  BY <1>2, <1>6, <1>9
<1> QED BY <1>7, <1>8, <1>10 DEF Flattening, n

\* Its last value is what FlattenSeq computes.
LEMMA FlattenValue ==
  ASSUME NEW B, NEW s \in Seq(Seq(B)), NEW f, Flattening(f, s, B)
  PROVE  FlattenSeq(s) = f[Len(s)]
<1>1. Len(s) \in Nat /\ \A i \in 1..Len(s) : s[i] \in Seq(B)
  BY EmptySeq, ElementOfSeq, LenProperties
<1>2. CASE Len(s) = 0
  <2>1. s = << >>
    BY <1>2, EmptySeq
  <2> QED BY <1>2, <2>1 DEF FlattenSeq, Flattening
<1>3. CASE Len(s) # 0
  <2> DEFINE IsFlatten(g) == g = [i \in 1..Len(s) |-> IF i = 1 THEN s[i] ELSE g[i-1] \o s[i]]
             flatten == CHOOSE g : IsFlatten(g)
             h == [i \in 1..Len(s) |-> f[i]]
  <2>1. FlattenSeq(s) = flatten[Len(s)]
    BY <1>3 DEF FlattenSeq
  <2>2. f[1] = s[1]
    <3>1. 1 \in 1..Len(s) /\ 1 - 1 = 0
      BY <1>1, <1>3
    <3>2. f[1] = f[1 - 1] \o s[1] /\ f[0] = << >> /\ s[1] \in Seq(B)
      BY <1>1, <3>1 DEF Flattening
    <3>3. f[1] = << >> \o s[1]
      BY <3>1, <3>2
    <3> QED BY <3>2, <3>3, ConcatEmptySeq
  <2>3. \A i \in 1..Len(s) : h[i] = IF i = 1 THEN s[i] ELSE h[i-1] \o s[i]
    <3> TAKE i \in 1..Len(s)
    <3>1. h[i] = f[i]
      OBVIOUS
    <3>2. CASE i = 1
      BY <2>2, <3>1, <3>2
    <3>3. CASE i # 1
      <4>1. i - 1 \in 1..Len(s)
        BY <1>1, <3>3
      <4>2. h[i-1] = f[i-1]
        BY <4>1
      <4>3. f[i] = f[i-1] \o s[i]
        BY DEF Flattening
      <4> HIDE DEF h
      <4> QED BY <3>1, <3>3, <4>2, <4>3
    <3> QED BY <3>2, <3>3
  <2>4. IsFlatten(h)
    <3> HIDE DEF h
    <3>1. h = [i \in 1..Len(s) |-> h[i]]
      BY DEF h
    <3> QED BY <2>3, <3>1
  <2>5. IsFlatten(flatten)
    <3> HIDE DEF IsFlatten
    <3> QED BY <2>4
  <2> HIDE DEF flatten
  <2>6. \A i \in 1..Len(s) : flatten[i] = IF i = 1 THEN s[i] ELSE flatten[i-1] \o s[i]
    BY <2>5
  <2> DEFINE T == {i \in 0..Len(s) : i = 0 \/ flatten[i] = f[i]}
  <2>7. 0 \in T
    BY <1>1
  <2>8. \A i \in 1..Len(s) : i - 1 \in T => i \in T
    <3> TAKE i \in 1..Len(s)
    <3> HAVE i - 1 \in T
    <3>1. i = 1 \/ flatten[i-1] = f[i-1]
      OBVIOUS
    <3>2. flatten[i] = f[i]
      BY <2>2, <2>6, <3>1 DEF Flattening
    <3> QED BY <3>2
  <2> HIDE DEF T
  <2>9. 0..Len(s) \subseteq T
    BY <1>1, <2>7, <2>8, BoundedInduction
  <2>10. flatten[Len(s)] = f[Len(s)]
    BY <1>1, <1>3, <2>9 DEF T
  <2> QED BY <2>1, <2>10
<1> QED BY <1>2, <1>3

LEMMA FlattenType ==
  ASSUME NEW B, NEW s \in Seq(Seq(B))
  PROVE  FlattenSeq(s) \in Seq(B)
<1>1. PICK f : Flattening(f, s, B)
  BY FlatteningExists
<1>2. f[Len(s)] \in Seq(B)
  BY <1>1, LenProperties DEF Flattening
<1> QED BY <1>1, <1>2, FlattenValue

LEMMA FlattenEmpty == FlattenSeq(<< >>) = << >>
  BY EmptySeq DEF FlattenSeq

\* ConcatAssociative with quantifiers.
LEMMA Associative ==
  \A B : \A s, t, u \in Seq(B) : (s \o t) \o u = s \o (t \o u)
BY ConcatAssociative

\* A last element is added at the end,
LEMMA FlattenAppend ==
  ASSUME NEW B, NEW s \in Seq(Seq(B)), NEW x \in Seq(B)
  PROVE  FlattenSeq(Append(s, x)) = FlattenSeq(s) \o x
<1>1. PICK f : Flattening(f, s, B)
  BY FlatteningExists
<1> DEFINE n == Len(s)
           t == Append(s, x)
           g == [i \in 0..(n + 1) |-> IF i = n + 1 THEN f[n] \o x ELSE f[i]]
<1>2. n \in Nat /\ f \in [0..n -> Seq(B)] /\ f[0] = << >>
  BY <1>1, LenProperties DEF Flattening
<1>3. /\ t \in Seq(Seq(B)) /\ Len(t) = n + 1 /\ t[n + 1] = x
      /\ \A i \in 1..n : t[i] = s[i]
  BY AppendProperties
<1>4. f[n] \o x \in Seq(B)
  BY <1>2, ConcatProperties
<1> HIDE DEF t, n
<1>5. g \in [0..Len(t) -> Seq(B)]
  BY <1>2, <1>3, <1>4
<1>6. g[0] = << >> /\ g[n + 1] = f[n] \o x /\ \A i \in 0..n : g[i] = f[i]
  BY <1>2
<1> HIDE DEF g
<1>7. \A i \in 1..n : f[i] = f[i-1] \o s[i]
  BY <1>1 DEF Flattening, n
<1>8. \A i \in 1..Len(t) : g[i] = g[i-1] \o t[i]
  <2> TAKE i \in 1..Len(t)
  <2>1. CASE i = n + 1
    <3>1. i - 1 = n /\ n \in 0..n
      BY <1>2, <2>1
    <3> QED BY <1>3, <1>6, <2>1, <3>1
  <2>2. CASE i \in 1..n
    <3>1. i - 1 \in 0..n /\ i \in 0..n
      BY <1>2, <2>2
    <3> QED BY <1>3, <1>6, <1>7, <2>2, <3>1
  <2>3. i = n + 1 \/ i \in 1..n
    BY <1>2, <1>3
  <2> QED BY <2>1, <2>2, <2>3, Zenon
<1>9. Flattening(g, t, B)
  BY <1>5, <1>6, <1>8 DEF Flattening
<1>10. FlattenSeq(t) = g[n + 1]
  BY <1>3, <1>9, FlattenValue
<1>11. FlattenSeq(s) = f[n]
  BY <1>1, FlattenValue DEF n
<1> QED BY <1>6, <1>10, <1>11 DEF t

\* and the first one comes off at the front.
LEMMA FlattenTail ==
  ASSUME NEW B, NEW s \in Seq(Seq(B)), s # << >>
  PROVE  FlattenSeq(s) = Head(s) \o FlattenSeq(Tail(s))
<1>0. \A x, y, z \in Seq(B) : (x \o y) \o z = x \o (y \o z)
  BY ConcatAssociative
<1> DEFINE n == Len(s)
           t == Tail(s)
<1>1. PICK f : Flattening(f, s, B)
  BY FlatteningExists
<1>2. /\ t \in Seq(Seq(B)) /\ Len(t) = n - 1 /\ n \in Nat \ {0}
      /\ \A i \in 1..(n - 1) : t[i] = s[i + 1]
      /\ Head(s) = s[1] /\ s[1] \in Seq(B)
  BY HeadTailProperties, EmptySeq, ElementOfSeq
<1>3. PICK g : Flattening(g, t, B)
  BY <1>2, FlatteningExists
<1> HIDE DEF t, n
<1>4. /\ f[0] = << >> /\ \A i \in 1..n : f[i] = f[i-1] \o s[i]
      /\ g[0] = << >> /\ \A i \in 1..(n - 1) : g[i] = g[i-1] \o t[i] /\ t[i] \in Seq(B)
      /\ \A i \in 0..(n - 1) : g[i] \in Seq(B)
  BY <1>1, <1>2, <1>3, ElementOfSeq DEF Flattening, n
<1> DEFINE T == {i \in 0..(n - 1) : f[i + 1] = s[1] \o g[i]}
<1>5. 0 \in T
  <2>1. 1 \in 1..n /\ 1 - 1 = 0 /\ 0 + 1 = 1 /\ 0 \in 0..(n - 1)
    BY <1>2
  <2>2. f[1] = << >> \o s[1]
    BY <1>4, <2>1
  <2>3. << >> \o s[1] = s[1] \o g[0]
    BY <1>2, <1>4, ConcatEmptySeq
  <2> QED BY <2>1, <2>2, <2>3
<1>6. \A i \in 1..(n - 1) : i - 1 \in T => i \in T
  <2> TAKE i \in 1..(n - 1)
  <2> HAVE i - 1 \in T
  <2>0. i \in 0..(n - 1) /\ i - 1 \in 0..(n - 1) /\ (i - 1) + 1 = i
    BY <1>2
  <2>1. f[i] = s[1] \o g[i-1]
    BY <2>0
  <2>2. f[i + 1] = f[i] \o s[i + 1] /\ t[i] = s[i + 1] /\ g[i] = g[i-1] \o t[i]
    <3>1. i + 1 \in 1..n /\ (i + 1) - 1 = i
      BY <1>2
    <3> QED BY <1>2, <1>4, <3>1
  <2>3. g[i-1] \in Seq(B) /\ t[i] \in Seq(B) /\ s[1] \in Seq(B)
    BY <1>2, <1>4, <2>0
  <2>4. (s[1] \o g[i-1]) \o t[i] = s[1] \o (g[i-1] \o t[i])
    BY <1>0, <2>3, Zenon
  <2>5. f[i + 1] = s[1] \o g[i]
    BY <2>1, <2>2, <2>4
  <2> QED BY <2>0, <2>5
<1> HIDE DEF T
<1>7. 0..(n - 1) \subseteq T
  <2>1. n - 1 \in Nat
    BY <1>2
  <2> HIDE DEF T
  <2> QED BY <1>5, <1>6, <2>1, BoundedInduction, Zenon
<1>8. f[n] = s[1] \o g[n - 1]
  <2>1. n - 1 \in 0..(n - 1) /\ (n - 1) + 1 = n
    BY <1>2
  <2>2. n - 1 \in T
    BY <1>7, <2>1, Zenon
  <2> QED BY <2>1, <2>2 DEF T
<1>9. FlattenSeq(s) = f[n] /\ FlattenSeq(t) = g[n - 1]
  BY <1>1, <1>2, <1>3, FlattenValue DEF n
<1> QED BY <1>2, <1>8, <1>9 DEF t

-----------------------------------------------------------------------------
(* Messages as bytes.                                                      *)

Byte == [message : Nat, byte : Nat]

PrefixBytes(m) == SubSeq(Framed(m), 1, PrefixLen)

\* A framed message is its prefix and its body; the prefix says whose it is.
LEMMA FramedFacts ==
  ASSUME queue \in Seq(Nat), NEW m \in 1..Len(queue)
  PROVE  /\ Framed(m) \in Seq(Byte)
         /\ PrefixBytes(m) \in Seq(Byte) /\ Len(PrefixBytes(m)) = PrefixLen
         /\ Body(m) \in Seq(Byte) /\ Len(Body(m)) = queue[m] /\ queue[m] \in Nat
         /\ Framed(m) = PrefixBytes(m) \o Body(m)
         /\ PrefixBytes(m)[1] = [message |-> m, byte |-> 1]
<1>1. queue[m] \in Nat /\ PrefixLen \in Nat \ {0} /\ m \in Nat /\ Len(queue) \in Nat
  BY ElementOfSeq, LenProperties, ChannelAssumption
<1> DEFINE n == PrefixLen + queue[m]
<1>2. n \in Nat /\ PrefixLen <= n /\ 0 < PrefixLen
  BY <1>1
<1>3. \A p \in 1..n : Framed(m)[p] = [message |-> m, byte |-> p] /\ Framed(m)[p] \in Byte
  BY <1>1 DEF Framed, Byte
<1>0. /\ \A p \in 1..PrefixLen : p \in 1..n
      /\ \A p \in (PrefixLen + 1)..n : p \in 1..n
  BY <1>1
<1> HIDE DEF n
<1>4. Framed(m) \in Seq(Byte) /\ Len(Framed(m)) = n
  <2>1. Framed(m) = [p \in 1..n |-> [message |-> m, byte |-> p]]
    BY DEF Framed, n
  <2>2. Framed(m) \in [1..n -> Byte]
    BY <1>3, <2>1
  <2> QED BY <1>2, <2>2
<1>5. /\ PrefixBytes(m) \in Seq(Byte) /\ Len(PrefixBytes(m)) = PrefixLen
      /\ PrefixBytes(m)[1] = Framed(m)[1]
  <2>1. \A p \in 1..PrefixLen : Framed(m)[p] \in Byte
    BY <1>0, <1>3
  <2> DEFINE f == Framed(m)
  <2> HIDE DEF f
  <2>2. \A p \in 1..PrefixLen : f[p] \in Byte
    BY <2>1 DEF f
  <2>3. /\ SubSeq(f, 1, PrefixLen) \in Seq(Byte)
        /\ Len(SubSeq(f, 1, PrefixLen)) = PrefixLen
        /\ SubSeq(f, 1, PrefixLen)[1] = f[1]
    BY <1>1, <2>2, SubSeqProperties
  <2> QED BY <2>3 DEF PrefixBytes, f
<1>6. Body(m) \in Seq(Byte) /\ Len(Body(m)) = queue[m]
  <2> DEFINE f == Framed(m)
  <2> HIDE DEF f
  <2>1. \A p \in (PrefixLen + 1)..n : f[p] \in Byte
    BY <1>0, <1>3 DEF f
  <2>2. /\ SubSeq(f, PrefixLen + 1, n) \in Seq(Byte)
        /\ Len(SubSeq(f, PrefixLen + 1, n)) = queue[m]
    BY <1>1, <1>2, <2>1, SubSeqProperties DEF n
  <2> QED BY <2>2 DEF Body, f, n
<1>7. Framed(m) = PrefixBytes(m) \o Body(m)
  <2> DEFINE f == Framed(m)
  <2> HIDE DEF f
  <2>1. f \in Seq(Byte) /\ Len(f) = n /\ SubSeq(f, 1, Len(f)) = f
    BY <1>4, SubSeqFull DEF f
  <2>3. 1 \in 1..(Len(f) + 1) /\ PrefixLen \in (1 - 1)..Len(f) /\ n \in PrefixLen..Len(f)
    BY <1>1, <1>2, <2>1
  <2>2. SubSeq(f, 1, PrefixLen) \o SubSeq(f, PrefixLen + 1, n) = SubSeq(f, 1, n)
    BY ONLY <2>1, <2>3, ConcatAdjacentSubSeq
  <2> QED BY <2>1, <2>2 DEF PrefixBytes, Body, f, n
<1>8. PrefixBytes(m)[1] = [message |-> m, byte |-> 1]
  <2>1. 1 \in 1..n
    BY <1>1, <1>2
  <2> QED BY <1>3, <1>5, <2>1, Zenon
<1> QED BY <1>1, <1>4, <1>5, <1>6, <1>7, <1>8, Zenon

\* A sequence that begins with b, and of which at least Len(b) elements are
\* there: b comes off, and what remains is what followed b.
LEMMA CutOff ==
  ASSUME NEW a \in Seq(Byte), NEW r \in Seq(Byte), NEW b \in Seq(Byte), NEW c \in Seq(Byte),
         a \o r = b \o c, Len(b) <= Len(a)
  PROVE  /\ SubSeq(a, 1, Len(b)) = b
         /\ SubSeq(a, Len(b) + 1, Len(a)) \in Seq(Byte)
         /\ SubSeq(a, Len(b) + 1, Len(a)) \o r = c
<1>0. \A x, y, z \in Seq(Byte) : (x \o y) \o z = x \o (y \o z)
  BY ONLY Associative, SMTT(30)
<1>1. Len(a) \in Nat /\ Len(b) \in Nat /\ Len(r) \in Nat /\ Len(c) \in Nat
  BY LenProperties
<1> DEFINE front == SubSeq(a, 1, Len(b))
           back  == SubSeq(a, Len(b) + 1, Len(a))
<1>2. \A i \in 1..Len(a) : a[i] \in Byte
  BY ElementOfSeq
<1>3. front \in Seq(Byte) /\ Len(front) = Len(b) /\ \A i \in 1..Len(b) : front[i] = a[i]
  <2>1. \A i \in 1..Len(b) : a[i] \in Byte
    BY <1>1, <1>2
  <2> QED BY <1>1, <2>1, SubSeqProperties
<1>4. back \in Seq(Byte)
  <2>1. \A i \in (Len(b) + 1)..Len(a) : a[i] \in Byte
    BY <1>1, <1>2
  <2> QED BY <1>1, <2>1, SubSeqProperties
<1>5. \A i \in 1..Len(b) : front[i] = b[i]
  <2> TAKE i \in 1..Len(b)
  <2>1. (a \o r)[i] = a[i]
    BY <1>1, ConcatProperties
  <2>2. (b \o c)[i] = b[i]
    BY <1>1, ConcatProperties
  <2> QED BY <1>3, <2>1, <2>2
<1>6. front \o back = a
  <2>1. /\ 1 \in 1..(Len(a) + 1) /\ Len(b) \in (1 - 1)..Len(a)
        /\ Len(a) \in Len(b)..Len(a)
    BY <1>1
  <2> DEFINE k == Len(b)
  <2> HIDE DEF k
  <2>2. SubSeq(a, 1, k) \o SubSeq(a, k + 1, Len(a)) = SubSeq(a, 1, Len(a))
    BY <2>1, ConcatAdjacentSubSeq DEF k
  <2> QED BY <2>2, SubSeqFull DEF k
<1> HIDE DEF front, back
<1>7. front = b
  BY <1>3, <1>5, SeqEqual
<1>8. b \o (back \o r) = b \o c
  <2>1. (b \o back) \o r = b \o (back \o r)
    <3>1. b \in Seq(Byte) /\ back \in Seq(Byte) /\ r \in Seq(Byte)
      BY <1>4
    <3> QED BY <1>0, <3>1, Zenon
  <2> QED BY <1>6, <1>7, <2>1
<1>9. back \o r = c
  <2>1. back \o r \in Seq(Byte)
    BY <1>4, ConcatProperties
  <2>2. b \in Seq(Byte) /\ c \in Seq(Byte)
    OBVIOUS
  <2>3. \A s, t, v \in Seq(Byte) : s \o t = s \o v => t = v
    BY ConcatSimplifications, Zenon
  <2> QED BY ONLY <1>8, <2>1, <2>2, <2>3
<1> QED BY <1>4, <1>7, <1>9 DEF front, back

\* The messages b+1, ..., n.
Messages(b, n) == [k \in 1..(n - b) |-> Framed(b + k)]

LEMMA MessagesFacts ==
  ASSUME queue \in Seq(Nat), NEW n \in 0..Len(queue), NEW b \in 0..n
  PROVE  /\ Messages(b, n) \in Seq(Seq(Byte))
         /\ b = n => Messages(b, n) = << >>
         /\ b < n => /\ Messages(b, n) # << >>
                     /\ Head(Messages(b, n)) = Framed(b + 1)
                     /\ Tail(Messages(b, n)) = Messages(b + 1, n)
         /\ n < Len(queue) => Messages(b, n + 1) = Append(Messages(b, n), Framed(n + 1))
<1>1. n \in Nat /\ b \in Nat /\ b <= n /\ Len(queue) \in Nat
  BY LenProperties
<1> DEFINE F == [m \in 1..Len(queue) |-> Framed(m)]
<1>2. \A m \in 1..Len(queue) : F[m] = Framed(m) /\ F[m] \in Seq(Byte)
  BY FramedFacts
<1> HIDE DEF F
<1>3. \A c, d \in 0..Len(queue) :
        c <= d => Messages(c, d) = [k \in 1..(d - c) |-> F[c + k]]
  <2> TAKE c, d \in 0..Len(queue)
  <2> HAVE c <= d
  <2>1. \A k \in 1..(d - c) : c + k \in 1..Len(queue)
    BY <1>1
  <2>2. \A k \in 1..(d - c) : F[c + k] = Framed(c + k)
    BY <1>2, <2>1
  <2> QED BY <2>2 DEF Messages
<1>4. \A c, d \in 0..Len(queue) :
        c <= d => /\ Messages(c, d) \in Seq(Seq(Byte))
                  /\ Len(Messages(c, d)) = d - c
                  /\ \A k \in 1..(d - c) : Messages(c, d)[k] = F[c + k]
  <2> TAKE c, d \in 0..Len(queue)
  <2> HAVE c <= d
  <2>1. \A k \in 1..(d - c) : c + k \in 1..Len(queue)
    BY <1>1
  <2>2. \A k \in 1..(d - c) : F[c + k] \in Seq(Byte)
    BY <1>2, <2>1
  <2>3. Messages(c, d) = [k \in 1..(d - c) |-> F[c + k]]
    BY <1>3
  <2> DEFINE s == Messages(c, d)
             l == d - c
  <2>4. l \in Nat
    BY <1>1
  <2> HIDE DEF s, l
  <2>5. s \in [1..l -> Seq(Byte)] /\ \A k \in 1..l : s[k] = F[c + k]
    BY <2>2, <2>3 DEF s, l
  <2>6. s \in Seq(Seq(Byte)) /\ Len(s) = l
    BY <2>4, <2>5
  <2> QED BY <2>5, <2>6 DEF s, l
<1>5. Messages(b, n) \in Seq(Seq(Byte)) /\ Len(Messages(b, n)) = n - b
  <2>1. b \in 0..Len(queue) /\ n \in 0..Len(queue)
    BY <1>1
  <2> QED BY <1>1, <1>4, <2>1
<1>6. ASSUME b = n PROVE Messages(b, n) = << >>
  BY <1>1, <1>5, <1>6, EmptySeq
<1>7. ASSUME b < n
      PROVE  /\ Messages(b, n) # << >>
             /\ Head(Messages(b, n)) = Framed(b + 1)
             /\ Tail(Messages(b, n)) = Messages(b + 1, n)
  <2> DEFINE s == Messages(b, n)
             t == Messages(b + 1, n)
  <2>1. /\ b + 1 \in 0..Len(queue) /\ b + 1 <= n /\ n - (b + 1) = n - b - 1
        /\ b \in 0..Len(queue) /\ n \in 0..Len(queue) /\ b + 1 \in 1..Len(queue)
    BY <1>1, <1>7
  <2>2. /\ t \in Seq(Seq(Byte)) /\ Len(t) = n - b - 1
        /\ \A k \in 1..(n - b - 1) : t[k] = F[(b + 1) + k]
    BY <1>4, <2>1
  <2>3. /\ s \in Seq(Seq(Byte)) /\ Len(s) = n - b
        /\ \A k \in 1..(n - b) : s[k] = F[b + k]
    BY <1>1, <1>4, <2>1
  <2> HIDE DEF s, t
  <2>4. s # << >>
    BY <1>1, <1>7, <2>3, EmptySeq
  <2>5. Head(s) = Framed(b + 1)
    <3>1. 1 \in 1..(n - b)
      BY <1>1, <1>7
    <3>2. Head(s) = s[1]
      BY <2>3, <2>4
    <3> QED BY <1>2, <2>1, <2>3, <3>1, <3>2
  <2>6. /\ Tail(s) \in Seq(Seq(Byte)) /\ Len(Tail(s)) = n - b - 1
        /\ \A k \in 1..(n - b - 1) : Tail(s)[k] = s[k + 1]
    BY <2>3, <2>4, HeadTailProperties
  <2>7. \A k \in 1..(n - b - 1) : Tail(s)[k] = t[k]
    <3> TAKE k \in 1..(n - b - 1)
    <3>1. k + 1 \in 1..(n - b) /\ b + (k + 1) = (b + 1) + k
      BY <1>1
    <3> QED BY <2>2, <2>3, <2>6, <3>1
  <2>8. Tail(s) = t
    BY <2>2, <2>6, <2>7, SeqEqual
  <2> QED BY <2>4, <2>5, <2>8 DEF s, t
<1>8. ASSUME n < Len(queue)
      PROVE  Messages(b, n + 1) = Append(Messages(b, n), Framed(n + 1))
  <2> DEFINE s == Messages(b, n)
             t == Messages(b, n + 1)
             u == Append(s, F[n + 1])
  <2>1. /\ n + 1 \in 1..Len(queue) /\ n + 1 \in 0..Len(queue) /\ b <= n + 1
        /\ (n + 1) - b = (n - b) + 1 /\ b \in 0..Len(queue) /\ n \in 0..Len(queue)
        /\ b + ((n - b) + 1) = n + 1 /\ n - b \in Nat
    BY <1>1, <1>8
  <2>2. /\ t \in Seq(Seq(Byte)) /\ Len(t) = (n - b) + 1
        /\ \A k \in 1..((n - b) + 1) : t[k] = F[b + k]
    BY <1>4, <2>1
  <2>3. /\ s \in Seq(Seq(Byte)) /\ Len(s) = n - b
        /\ \A k \in 1..(n - b) : s[k] = F[b + k]
    BY <1>1, <1>4, <2>1
  <2>4. F[n + 1] \in Seq(Byte) /\ F[n + 1] = Framed(n + 1)
    BY <1>2, <2>1
  <2> HIDE DEF s, t
  <2>5. /\ u \in Seq(Seq(Byte)) /\ Len(u) = (n - b) + 1
        /\ \A k \in 1..(n - b) : u[k] = s[k]
        /\ u[(n - b) + 1] = F[n + 1]
    BY <2>3, <2>4, AppendProperties
  <2> HIDE DEF u
  <2>6. \A k \in 1..((n - b) + 1) : t[k] = u[k]
    <3> TAKE k \in 1..((n - b) + 1)
    <3>1. CASE k = (n - b) + 1
      <4>1. t[k] = F[b + ((n - b) + 1)]
        BY <2>2, <3>1
      <4> QED BY <2>1, <2>5, <3>1, <4>1
    <3>2. CASE k \in 1..(n - b)
      <4>1. t[k] = F[b + k]
        BY <2>2
      <4>2. u[k] = s[k] /\ s[k] = F[b + k]
        BY <2>3, <2>5, <3>2
      <4> QED BY <4>1, <4>2
    <3> QED BY <1>1, <2>1, <3>1, <3>2
  <2>7. t = u
    BY <2>2, <2>5, <2>6, SeqEqual
  <2> QED BY <2>4, <2>7 DEF s, t, u
<1> QED BY <1>5, <1>6, <1>7, <1>8

-----------------------------------------------------------------------------
(* The invariant.                                                          *)

\* What has left the writer and not yet reached the reader's caller.
UnderWay(c, w, l) == (l \o FlattenSeq(w)) \o c

\* With n messages taken, r delivered and the reader waiting for e: it waits
\* for the length its next message really has, and while the connection is up
\* what is under way is the rest of that message and all later ones.
Consistent(n, c, w, l, e, r, up) ==
  /\ n \in 0..Len(queue)
  /\ c \in Seq(Byte) /\ w \in Seq(Seq(Byte)) /\ l \in Seq(Byte) /\ r \in Seq(Seq(Byte))
  /\ \A k \in 1..Len(r) : r[k] = Body(k)
  /\ \/ /\ e = Prefix /\ Len(r) <= n
        /\ up => UnderWay(c, w, l) = FlattenSeq(Messages(Len(r), n))
     \/ /\ e = [part |-> "body", n |-> queue[Len(r) + 1]] /\ Len(r) + 1 <= n
        /\ up => UnderWay(c, w, l) = Body(Len(r) + 1) \o FlattenSeq(Messages(Len(r) + 1, n))

ChannelInv ==
  /\ queue \in Seq(Nat)
  /\ Consistent(sent, chunks, wire, leftover, expect, received, Up)

\* Moving bytes from one place to the next leaves it true.
LEMMA MovedOn ==
  ASSUME ChannelInv,
         NEW c \in Seq(Byte), NEW w \in Seq(Seq(Byte)), NEW l \in Seq(Byte),
         UnderWay(c, w, l) = UnderWay(chunks, wire, leftover)
  PROVE  Consistent(sent, c, w, l, expect, received, Up)
BY DEF ChannelInv, Consistent

LEMMA WriteFrameKeeps ==
  ASSUME ChannelInv, WriteFrame
  PROVE  Consistent(sent', chunks', wire', leftover', expect', received', Up')
<1>0. \A x, y, z \in Seq(Byte) : (x \o y) \o z = x \o (y \o z)
  BY ONLY Associative, SMTT(30)
<1>1. chunks \in Seq(Byte) /\ wire \in Seq(Seq(Byte)) /\ leftover \in Seq(Byte)
  BY DEF ChannelInv, Consistent
<1> DEFINE x == FirstChunk(chunks)
           y == AfterChunk(chunks)
           f == FlattenSeq(wire)
<1>2. x \in Seq(Byte) /\ y \in Seq(Byte) /\ x \o y = chunks
  <2>1. Len(chunks) \in Nat /\ MaxPlaintext \in Nat \ {0} /\ \A i \in 1..Len(chunks) : chunks[i] \in Byte
    BY <1>1, LenProperties, ElementOfSeq, ChannelAssumption
  <2>2. CASE Len(chunks) <= MaxPlaintext
    <3>1. x = chunks
      BY <1>1, <2>2, SubSeqFull DEF FirstChunk
    <3>2. y = << >>
      BY <2>1, <2>2, SubSeqEmpty DEF AfterChunk
    <3> QED BY <1>1, <3>1, <3>2, EmptySeq, ConcatEmptySeq
  <2>3. CASE ~ (Len(chunks) <= MaxPlaintext)
    <3>1. /\ \A i \in 1..MaxPlaintext : chunks[i] \in Byte
          /\ \A i \in (MaxPlaintext + 1)..Len(chunks) : chunks[i] \in Byte
      BY <2>1, <2>3
    <3>2. x = SubSeq(chunks, 1, MaxPlaintext) /\ y = SubSeq(chunks, MaxPlaintext + 1, Len(chunks))
      BY <2>3 DEF FirstChunk, AfterChunk
    <3>3. SubSeq(chunks, 1, MaxPlaintext) \in Seq(Byte)
      BY <2>1, <3>1, SubSeqProperties
    <3>4. SubSeq(chunks, MaxPlaintext + 1, Len(chunks)) \in Seq(Byte)
      BY <2>1, <3>1, SubSeqProperties
    <3>5. /\ 1 \in 1..(Len(chunks) + 1) /\ MaxPlaintext \in (1 - 1)..Len(chunks)
          /\ Len(chunks) \in MaxPlaintext..Len(chunks)
      BY <2>1, <2>3
    <3>6. SubSeq(chunks, 1, MaxPlaintext) \o SubSeq(chunks, MaxPlaintext + 1, Len(chunks))
            = SubSeq(chunks, 1, Len(chunks))
      BY <1>1, <3>5, ConcatAdjacentSubSeq
    <3>7. SubSeq(chunks, 1, Len(chunks)) = chunks
      BY <1>1, SubSeqFull
    <3> QED BY <3>2, <3>3, <3>4, <3>6, <3>7
  <2> QED BY <2>2, <2>3
<1> HIDE DEF x, y
<1>3. Append(wire, x) \in Seq(Seq(Byte)) /\ FlattenSeq(Append(wire, x)) = f \o x /\ f \in Seq(Byte)
  BY <1>1, <1>2, FlattenAppend, FlattenType, AppendProperties
<1> HIDE DEF f
<1>4. leftover \o f \in Seq(Byte) /\ f \o x \in Seq(Byte)
  BY <1>1, <1>2, <1>3, ConcatProperties
<1>5. (leftover \o (f \o x)) \o y = (leftover \o f) \o chunks
  <2>1. leftover \o (f \o x) = (leftover \o f) \o x
    BY <1>0, <1>1, <1>2, <1>3, Zenon
  <2>2. ((leftover \o f) \o x) \o y = (leftover \o f) \o (x \o y)
    BY <1>0, <1>2, <1>4, Zenon
  <2> QED BY <1>2, <2>1, <2>2
<1>6. UnderWay(y, Append(wire, x), leftover) = UnderWay(chunks, wire, leftover)
  BY <1>3, <1>5 DEF UnderWay, f
<1>7. Consistent(sent, y, Append(wire, x), leftover, expect, received, Up)
  BY <1>1, <1>2, <1>3, <1>6, MovedOn
<1>8. /\ chunks' = y /\ wire' = Append(wire, x) /\ sent' = sent /\ leftover' = leftover
      /\ expect' = expect /\ received' = received /\ Up' = Up
  BY DEF WriteFrame, x, y, Up
<1> QED BY <1>7, <1>8

LEMMA ReadFrameKeeps ==
  ASSUME ChannelInv, ReadFrame
  PROVE  Consistent(sent', chunks', wire', leftover', expect', received', Up')
<1>0. \A x, y, z \in Seq(Byte) : (x \o y) \o z = x \o (y \o z)
  BY ONLY Associative, SMTT(30)
<1>1. chunks \in Seq(Byte) /\ wire \in Seq(Seq(Byte)) /\ leftover \in Seq(Byte) /\ wire # << >>
  BY DEF ChannelInv, Consistent, ReadFrame
<1> DEFINE h == Head(wire)
           t == Tail(wire)
           f == FlattenSeq(t)
<1>2. h \in Seq(Byte) /\ t \in Seq(Seq(Byte))
  BY <1>1, HeadTailProperties
<1>3. FlattenSeq(wire) = h \o f
  BY <1>1, FlattenTail
<1>4. f \in Seq(Byte)
  BY <1>2, FlattenType
<1> HIDE DEF h, t, f
<1>5. (leftover \o h) \o f = leftover \o (h \o f) /\ leftover \o h \in Seq(Byte)
  BY <1>0, <1>1, <1>2, <1>4, ConcatProperties
<1>6. UnderWay(chunks, t, leftover \o h) = UnderWay(chunks, wire, leftover)
  BY <1>3, <1>5 DEF UnderWay, f
<1>7. Consistent(sent, chunks, t, leftover \o h, expect, received, Up)
  BY <1>1, <1>2, <1>5, <1>6, MovedOn
<1>8. /\ chunks' = chunks /\ wire' = t /\ sent' = sent /\ leftover' = leftover \o h
      /\ expect' = expect /\ received' = received /\ Up' = Up
  BY DEF ReadFrame, h, t, Up
<1> QED BY <1>7, <1>8

LEMMA TakeMessageKeeps ==
  ASSUME ChannelInv, TakeMessage
  PROVE  Consistent(sent', chunks', wire', leftover', expect', received', Up')
<1>0. \A x, y, z \in Seq(Byte) : (x \o y) \o z = x \o (y \o z)
  BY ONLY Associative, SMTT(30)
<1> DEFINE p == leftover \o FlattenSeq(wire)
           n == sent + 1
           x == Framed(n)
           r == Len(received)
<1>1. /\ queue \in Seq(Nat) /\ sent \in 0..Len(queue) /\ wire \in Seq(Seq(Byte))
      /\ leftover \in Seq(Byte) /\ received \in Seq(Seq(Byte)) /\ r \in Nat
      /\ \A k \in 1..Len(received) : received[k] = Body(k)
      /\ Up /\ chunks = << >> /\ sent < Len(queue) /\ Len(queue) \in Nat
  BY LenProperties DEF ChannelInv, Consistent, TakeMessage
<1>2. n \in 1..Len(queue) /\ n \in 0..Len(queue) /\ sent <= n
  BY <1>1
<1>3. x \in Seq(Byte)
  BY <1>1, <1>2, FramedFacts
<1>4. p \in Seq(Byte)
  BY <1>1, FlattenType, ConcatProperties
<1>5. UnderWay(chunks, wire, leftover) = p
  BY <1>1, <1>4, ConcatEmptySeq DEF UnderWay
<1>6. UnderWay(x, wire, leftover) = p \o x
  BY DEF UnderWay
<1>7. ASSUME NEW b \in 0..sent
      PROVE  /\ FlattenSeq(Messages(b, n)) = FlattenSeq(Messages(b, sent)) \o x
             /\ FlattenSeq(Messages(b, sent)) \in Seq(Byte)
  <2>1. Messages(b, sent) \in Seq(Seq(Byte)) /\ Messages(b, n) = Append(Messages(b, sent), x)
    BY <1>1, MessagesFacts
  <2> QED BY <1>3, <2>1, FlattenAppend, FlattenType
<1>8. /\ sent' = n /\ chunks' = x /\ wire' = wire /\ leftover' = leftover
      /\ expect' = expect /\ received' = received /\ Up' = Up
  BY DEF TakeMessage, Up
<1>9. CASE expect = Prefix /\ r <= sent /\ p = FlattenSeq(Messages(r, sent))
  <2>1. r \in 0..sent /\ r <= n
    BY <1>1, <1>2, <1>9
  <2>2. UnderWay(x, wire, leftover) = FlattenSeq(Messages(r, n))
    BY <1>6, <1>7, <1>9, <2>1
  <2> HIDE DEF n, x
  <2> QED BY <1>1, <1>2, <1>3, <1>8, <1>9, <2>1, <2>2 DEF Consistent
<1>10. CASE /\ expect = [part |-> "body", n |-> queue[r + 1]] /\ r + 1 <= sent
            /\ p = Body(r + 1) \o FlattenSeq(Messages(r + 1, sent))
  <2>1. r + 1 \in 0..sent /\ r + 1 <= n /\ r + 1 \in 1..Len(queue)
    BY <1>1, <1>2, <1>10
  <2> DEFINE y == Body(r + 1)
             f == FlattenSeq(Messages(r + 1, sent))
  <2>2. y \in Seq(Byte)
    BY <1>1, <2>1, FramedFacts
  <2>3. f \in Seq(Byte) /\ FlattenSeq(Messages(r + 1, n)) = f \o x
    BY <1>7, <2>1
  <2>4. p = y \o f
    BY <1>10
  <2> HIDE DEF y, f, n, x, p
  <2>5. p \o x = y \o (f \o x)
    BY <1>0, <1>3, <2>2, <2>3, <2>4, Zenon
  <2>6. UnderWay(x, wire, leftover) = y \o FlattenSeq(Messages(r + 1, n))
    BY <1>6, <2>3, <2>5
  <2> QED BY <1>1, <1>2, <1>3, <1>8, <1>10, <2>1, <2>6 DEF Consistent, y
<1>11. \/ expect = Prefix /\ r <= sent /\ p = FlattenSeq(Messages(r, sent))
       \/ /\ expect = [part |-> "body", n |-> queue[r + 1]] /\ r + 1 <= sent
          /\ p = Body(r + 1) \o FlattenSeq(Messages(r + 1, sent))
  <2> HIDE DEF p
  <2> QED BY <1>1, <1>5 DEF ChannelInv, Consistent
<1> QED BY <1>9, <1>10, <1>11

\* When the reader has the bytes of b, and b comes first of what is under way,
\* it takes b and leaves what follows.
LEMMA TakesFirst ==
  ASSUME ChannelInv, NEW b \in Seq(Byte), NEW m \in Seq(Byte),
         UnderWay(chunks, wire, leftover) = b \o m, Len(b) <= Len(leftover)
  PROVE  /\ Taken(leftover, Len(b)) = b
         /\ Drain(leftover, Len(b)) \in Seq(Byte)
         /\ UnderWay(chunks, wire, Drain(leftover, Len(b))) = m
<1>0. \A x, y, z \in Seq(Byte) : (x \o y) \o z = x \o (y \o z)
  BY ONLY Associative, SMTT(30)
<1> DEFINE f == FlattenSeq(wire)
           r == f \o chunks
           d == SubSeq(leftover, Len(b) + 1, Len(leftover))
<1>1. chunks \in Seq(Byte) /\ f \in Seq(Byte) /\ leftover \in Seq(Byte)
  BY FlattenType DEF ChannelInv, Consistent
<1>2. r \in Seq(Byte)
  BY <1>1, ConcatProperties
<1>3. (leftover \o f) \o chunks = leftover \o r
  BY <1>0, <1>1, Zenon
<1>4. leftover \o r = b \o m
  BY <1>3 DEF UnderWay
<1> HIDE DEF r
<1>5. SubSeq(leftover, 1, Len(b)) = b /\ d \in Seq(Byte) /\ d \o r = m
  <2> HIDE DEF f, d
  <2>1. b \in Seq(Byte) /\ m \in Seq(Byte) /\ Len(b) <= Len(leftover)
    OBVIOUS
  <2>2. /\ SubSeq(leftover, 1, Len(b)) = b
        /\ SubSeq(leftover, Len(b) + 1, Len(leftover)) \in Seq(Byte)
        /\ SubSeq(leftover, Len(b) + 1, Len(leftover)) \o r = m
    BY ONLY <1>1, <1>2, <1>4, <2>1, CutOff
  <2> QED BY <2>2 DEF d
<1> HIDE DEF d
<1>6. (d \o f) \o chunks = d \o r
  <2> HIDE DEF f
  <2>1. (d \o f) \o chunks = d \o (f \o chunks)
    BY <1>0, <1>1, <1>5, Zenon
  <2> QED BY <2>1 DEF r
<1>7. Drain(leftover, Len(b)) = d /\ Taken(leftover, Len(b)) = b
  BY <1>5 DEF Drain, Taken, d
<1> QED BY <1>5, <1>6, <1>7 DEF UnderWay

\* A prefix names one message.
LEMMA PrefixNames ==
  ASSUME queue \in Seq(Nat), NEW m \in 1..Len(queue)
  PROVE  PrefixOf(PrefixBytes(m)) = {m}
<1>1. DOMAIN queue = 1..Len(queue)
  BY LenProperties
<1>2. m \in PrefixOf(PrefixBytes(m))
  BY <1>1 DEF PrefixOf, PrefixBytes
<1>3. ASSUME NEW k \in PrefixOf(PrefixBytes(m)) PROVE k = m
  <2>1. k \in 1..Len(queue) /\ PrefixBytes(m) = PrefixBytes(k)
    BY <1>1 DEF PrefixOf, PrefixBytes
  <2>2. PrefixBytes(k)[1] = [message |-> k, byte |-> 1]
    BY <2>1, FramedFacts
  <2>3. PrefixBytes(m)[1] = [message |-> m, byte |-> 1]
    BY FramedFacts
  <2>4. [message |-> k, byte |-> 1] = [message |-> m, byte |-> 1]
    BY <2>1, <2>2, <2>3
  <2>5. [message |-> k, byte |-> 1].message = [message |-> m, byte |-> 1].message
    BY <2>4
  <2> QED BY <2>5
<1> QED BY <1>2, <1>3

LEMMA ReadPrefixKeeps ==
  ASSUME ChannelInv, ReadPrefix
  PROVE  Consistent(sent', chunks', wire', leftover', expect', received', Up')
<1>0. \A x, y, z \in Seq(Byte) : (x \o y) \o z = x \o (y \o z)
  BY ONLY Associative, SMTT(30)
<1> DEFINE r == Len(received)
           b == PrefixBytes(r + 1)
           y == Body(r + 1)
           f == FlattenSeq(Messages(r + 1, sent))
           d == Drain(leftover, PrefixLen)
<1>1. /\ queue \in Seq(Nat) /\ sent \in 0..Len(queue) /\ wire \in Seq(Seq(Byte))
      /\ leftover \in Seq(Byte) /\ chunks \in Seq(Byte) /\ received \in Seq(Seq(Byte))
      /\ \A k \in 1..Len(received) : received[k] = Body(k)
      /\ r \in Nat /\ Len(queue) \in Nat /\ Len(leftover) \in Nat /\ PrefixLen \in Nat \ {0}
      /\ Up /\ expect.part = "prefix"
  BY LenProperties, ChannelAssumption DEF ChannelInv, Consistent, ReadPrefix
<1>2. /\ expect = Prefix /\ r <= sent
      /\ UnderWay(chunks, wire, leftover) = FlattenSeq(Messages(r, sent))
  BY <1>1 DEF ChannelInv, Consistent
<1>3. PrefixLen <= Len(leftover)
  BY <1>1, <1>2 DEF ReadPrefix, WantsMore, Prefix
<1>4. r \in 0..sent
  BY <1>1, <1>2
\* There is another message: what is under way is not empty.
<1>5. r < sent
  <2> SUFFICES ASSUME r = sent PROVE FALSE
    BY <1>1, <1>2
  <2>1. UnderWay(chunks, wire, leftover) = << >>
    BY <1>1, <1>2, <1>4, MessagesFacts, FlattenEmpty
  <2> DEFINE g == FlattenSeq(wire)
             p == leftover \o g
  <2>2. g \in Seq(Byte)
    BY <1>1, FlattenType
  <2> HIDE DEF g
  <2>3. p \in Seq(Byte) /\ Len(p) = Len(leftover) + Len(g) /\ Len(g) \in Nat
    BY <1>1, <2>2, ConcatProperties, LenProperties
  <2> HIDE DEF p
  <2>4. Len(p \o chunks) = Len(p) + Len(chunks) /\ Len(chunks) \in Nat
    BY <1>1, <2>3, ConcatProperties, LenProperties
  <2>5. Len(p \o chunks) = 0
    BY <2>1, EmptySeq DEF UnderWay, p, g
  <2> QED BY <1>1, <1>3, <2>3, <2>4, <2>5
<1>6. r + 1 \in 1..Len(queue) /\ r + 1 \in 0..sent /\ r + 1 <= sent
  BY <1>1, <1>5
<1>7. /\ b \in Seq(Byte) /\ Len(b) = PrefixLen /\ y \in Seq(Byte)
      /\ Framed(r + 1) = b \o y
  BY <1>1, <1>6, FramedFacts
<1>8. f \in Seq(Byte)
  BY <1>1, <1>6, MessagesFacts, FlattenType
<1>9. FlattenSeq(Messages(r, sent)) = Framed(r + 1) \o f
  BY <1>1, <1>4, <1>5, MessagesFacts, FlattenTail
<1> HIDE DEF b, y, f
<1>10. y \o f \in Seq(Byte) /\ UnderWay(chunks, wire, leftover) = b \o (y \o f)
  <2>1. (b \o y) \o f = b \o (y \o f)
    BY <1>0, <1>7, <1>8, Zenon
  <2> QED BY <1>2, <1>7, <1>8, <1>9, <2>1, ConcatProperties
<1>11. /\ Taken(leftover, PrefixLen) = b
       /\ d \in Seq(Byte) /\ UnderWay(chunks, wire, d) = y \o f
  BY <1>3, <1>7, <1>10, TakesFirst
<1>12. PrefixOf(Taken(leftover, PrefixLen)) = {r + 1}
  BY <1>1, <1>6, <1>11, PrefixNames DEF b
<1> HIDE DEF d
<1>13. leftover' = d /\ sent' = sent /\ chunks' = chunks /\ wire' = wire /\ received' = received
  BY DEF ReadPrefix, d
<1>14. CASE /\ expect' = [part |-> "body", n |-> queue[r + 1]] /\ Up' = Up
  BY <1>1, <1>6, <1>11, <1>13, <1>14 DEF Consistent, y, f
<1>15. CASE expect' = expect /\ ~ Up'
  BY <1>1, <1>2, <1>11, <1>13, <1>15 DEF Consistent
<1>16. \/ expect' = [part |-> "body", n |-> queue[r + 1]] /\ Up' = Up
       \/ expect' = expect /\ ~ Up'
  BY <1>12 DEF ReadPrefix, Length, Up
<1> QED BY <1>14, <1>15, <1>16

LEMMA ReadBodyKeeps ==
  ASSUME ChannelInv, ReadBody
  PROVE  Consistent(sent', chunks', wire', leftover', expect', received', Up')
<1> DEFINE r == Len(received)
           y == Body(r + 1)
           f == FlattenSeq(Messages(r + 1, sent))
           d == Drain(leftover, queue[r + 1])
           v == Append(received, y)
<1>1. /\ queue \in Seq(Nat) /\ sent \in 0..Len(queue) /\ wire \in Seq(Seq(Byte))
      /\ leftover \in Seq(Byte) /\ chunks \in Seq(Byte) /\ received \in Seq(Seq(Byte))
      /\ \A k \in 1..Len(received) : received[k] = Body(k)
      /\ r \in Nat /\ Len(queue) \in Nat /\ Len(leftover) \in Nat
      /\ Up /\ expect.part = "body"
  BY LenProperties DEF ChannelInv, Consistent, ReadBody
<1>2. /\ expect = [part |-> "body", n |-> queue[r + 1]] /\ r + 1 <= sent
      /\ UnderWay(chunks, wire, leftover) = y \o f
  BY <1>1 DEF ChannelInv, Consistent, Prefix
<1>3. r + 1 \in 1..Len(queue) /\ r + 1 \in 0..sent
  BY <1>1, <1>2
<1>4. y \in Seq(Byte) /\ Len(y) = queue[r + 1] /\ queue[r + 1] \in Nat
  BY <1>1, <1>3, FramedFacts
<1>5. f \in Seq(Byte)
  BY <1>1, <1>3, MessagesFacts, FlattenType
<1>6. Len(y) <= Len(leftover)
  BY <1>1, <1>2, <1>4 DEF ReadBody, WantsMore
<1> HIDE DEF y, f
<1>7. /\ Taken(leftover, queue[r + 1]) = y
      /\ d \in Seq(Byte) /\ UnderWay(chunks, wire, d) = f
  BY <1>2, <1>4, <1>5, <1>6, TakesFirst
<1>8. /\ v \in Seq(Seq(Byte)) /\ Len(v) = r + 1
      /\ \A k \in 1..r : v[k] = received[k]
      /\ v[r + 1] = y
  BY <1>1, <1>4, AppendProperties
<1> HIDE DEF v, d
<1>9. \A k \in 1..Len(v) : v[k] = Body(k)
  <2> TAKE k \in 1..Len(v)
  <2>1. CASE k = r + 1
    BY <1>8, <2>1 DEF y
  <2>2. CASE k \in 1..r
    BY <1>1, <1>8, <2>2
  <2> QED BY <1>1, <1>8, <2>1, <2>2
<1>10. /\ leftover' = d /\ sent' = sent /\ chunks' = chunks /\ wire' = wire
       /\ received' = v /\ expect' = Prefix /\ Up' = Up
  BY <1>2, <1>7 DEF ReadBody, Up, v, d
<1>11. UnderWay(chunks, wire, d) = FlattenSeq(Messages(Len(v), sent))
  BY <1>7, <1>8 DEF f
<1> QED BY <1>1, <1>2, <1>7, <1>8, <1>9, <1>10, <1>11 DEF Consistent

-----------------------------------------------------------------------------

LEMMA ChannelInvInit == ChannelInit => ChannelInv
<1> SUFFICES ASSUME ChannelInit PROVE ChannelInv
  OBVIOUS
<1>1. queue \in Seq(Nat) /\ Len(queue) \in Nat
  BY ChannelAssumption, LenProperties DEF ChannelInit
<1>2. << >> \in Seq(Byte) /\ << >> \in Seq(Seq(Byte)) /\ Len(<< >>) = 0
  BY EmptySeq
<1>3. FlattenSeq(Messages(0, 0)) = << >>
  <2>1. 0 \in 0..Len(queue) /\ 0 \in 0..0
    BY <1>1
  <2>2. Messages(0, 0) = << >>
    BY <1>1, <2>1, MessagesFacts
  <2> QED BY <2>2, FlattenEmpty
<1>4. UnderWay(<< >>, << >>, << >>) = << >>
  BY <1>2, FlattenEmpty, ConcatEmptySeq DEF UnderWay
<1> QED BY <1>1, <1>2, <1>3, <1>4 DEF ChannelInit, ChannelInv, Consistent

LEMMA ChannelInvNext == ChannelInv /\ [ChannelNext]_channel_vars => ChannelInv'
<1> SUFFICES ASSUME ChannelInv, [ChannelNext]_channel_vars PROVE ChannelInv'
  OBVIOUS
<1>1. queue' = queue
  BY DEF ChannelNext, TakeMessage, WriteFrame, ReadFrame, ReadPrefix, ReadBody, Cut, channel_vars
<1>2. Consistent(sent', chunks', wire', leftover', expect', received', Up')
  <2>1. CASE TakeMessage
    BY <2>1, TakeMessageKeeps
  <2>2. CASE WriteFrame
    BY <2>2, WriteFrameKeeps
  <2>3. CASE ReadFrame
    BY <2>3, ReadFrameKeeps
  <2>4. CASE ReadPrefix
    BY <2>4, ReadPrefixKeeps
  <2>5. CASE ReadBody
    BY <2>5, ReadBodyKeeps
  <2>6. CASE Cut
    BY <2>6 DEF Cut, Up, ChannelInv, Consistent
  <2>7. CASE UNCHANGED channel_vars
    BY <2>7 DEF channel_vars, Up, ChannelInv, Consistent
  <2> QED BY <2>1, <2>2, <2>3, <2>4, <2>5, <2>6, <2>7 DEF ChannelNext
<1>3. \A m : Framed(m)' = Framed(m) /\ Body(m)' = Body(m)
  BY <1>1 DEF Framed, Body
<1>4. \A b, n : Messages(b, n)' = Messages(b, n)
  BY <1>3 DEF Messages
<1> QED BY <1>1, <1>2, <1>3, <1>4 DEF ChannelInv, Consistent

\* ChannelInv says what the two properties say.
LEMMA ChannelInvImplies == ChannelInv => InOrder /\ NothingLost
<1> SUFFICES ASSUME ChannelInv PROVE InOrder /\ NothingLost
  OBVIOUS
<1>1. /\ sent \in Nat /\ Len(received) \in Nat /\ DOMAIN received = 1..Len(received)
  BY LenProperties DEF ChannelInv, Consistent
<1>2. InOrder
  BY <1>1 DEF ChannelInv, Consistent, InOrder
<1>3. NothingLost
  <2> DEFINE begun == Len(received) + (IF expect.part = "body" THEN 1 ELSE 0)
  <2>1. ASSUME Up
        PROVE  UnderWay(chunks, wire, leftover)
                 = (IF expect.part = "body" THEN Body(begun) ELSE << >>)
                     \o FlattenSeq(Messages(begun, sent))
    <3>1. CASE expect = Prefix
      <4>1. expect.part # "body" /\ begun = Len(received)
        BY <1>1, <3>1 DEF Prefix
      <4>2. Len(received) \in 0..sent /\ sent \in 0..Len(queue)
        BY <1>1, <3>1 DEF ChannelInv, Consistent, Prefix
      <4>3. FlattenSeq(Messages(Len(received), sent)) \in Seq(Byte)
        BY <4>2, MessagesFacts, FlattenType DEF ChannelInv
      <4>4. << >> \o FlattenSeq(Messages(Len(received), sent))
              = FlattenSeq(Messages(Len(received), sent))
        BY <4>3, ConcatEmptySeq
      <4>5. UnderWay(chunks, wire, leftover) = FlattenSeq(Messages(Len(received), sent))
        BY <2>1, <3>1 DEF ChannelInv, Consistent, Prefix
      <4> QED BY <4>1, <4>4, <4>5
    <3>2. CASE expect # Prefix
      <4>1. expect.part = "body" /\ begun = Len(received) + 1
        BY <3>2 DEF ChannelInv, Consistent
      <4> QED BY <2>1, <3>2, <4>1 DEF ChannelInv, Consistent
    <3> QED BY <3>1, <3>2
  <2> QED BY <2>1 DEF NothingLost, Messages, UnderWay
<1> QED BY <1>2, <1>3

\* Messages arrive whole, in the order they were written, none twice.
THEOREM InOrderTheorem == ChannelSpec => []InOrder
<1>1. ChannelInv => InOrder
  BY ChannelInvImplies
<1> QED BY <1>1, ChannelInvInit, ChannelInvNext, PTL DEF ChannelSpec

\* While the connection is up, every byte written and not delivered is on its
\* way, in the right place: read_message, EncryptedReader and EncryptedWriter
\* lose, repeat or mix nothing.
THEOREM NothingLostTheorem == ChannelSpec => []NothingLost
<1>1. ChannelInv => NothingLost
  BY ChannelInvImplies
<1> QED BY <1>1, ChannelInvInit, ChannelInvNext, PTL DEF ChannelSpec

=============================================================================
