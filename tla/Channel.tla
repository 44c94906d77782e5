------------------------------- MODULE Channel -------------------------------
(***************************************************************************)
(* One direction of a connection: write_message and read_message of        *)
(* ondris-network/src/lib.rs over EncryptedWriter and EncryptedReader of   *)
(* noise.rs.  A message becomes a length prefix and a body, is cut into    *)
(* chunks of at most MaxPlaintext bytes, each chunk is encrypted into one  *)
(* frame, frames travel in order (TCP), and the reader puts messages       *)
(* together again from frames whose boundaries mean nothing to it.         *)
(*                                                                         *)
(* A byte is what it stands for: the p-th byte of message m.  Encryption   *)
(* keeps a chunk as it is or fails.                                        *)
(***************************************************************************)
EXTENDS Integers, SequencesExt

CONSTANTS Queues,        \* what may be sent: the body lengths of the messages, in order
          PrefixLen,     \* 4
          MaxPlaintext,  \* MAX_NOISE_PLAINTEXT
          MaxMessage     \* the reader's limit, 64 MiB

ASSUME ChannelAssumption ==
  /\ Queues \subseteq Seq(Nat)
  /\ PrefixLen \in Nat \ {0} /\ MaxPlaintext \in Nat \ {0} /\ MaxMessage \in Nat

VARIABLES
  queue,      \* the body lengths of the messages to send
  sent,       \* number of messages the writer task has taken from its queue
  chunks,     \* plaintext of the current message not yet written
  wire,       \* frames in flight
  leftover,   \* EncryptedReader.leftover
  expect,     \* what read_message waits for: [part, n] with n bytes
  received,   \* the bodies delivered as messages
  link        \* the connection: "up", "refused" by the reader, "broken"

channel_vars == <<queue, sent, chunks, wire, leftover, expect, received, link>>

Up == link = "up"

Framed(m) == [p \in 1..(PrefixLen + queue[m]) |-> [message |-> m, byte |-> p]]
Body(m)   == SubSeq(Framed(m), PrefixLen + 1, PrefixLen + queue[m])

\* Mutation: the prefix counts itself.
LengthWithPrefix(m) == PrefixLen + queue[m]

\* The number in the prefix of message m.
Length(m) == queue[m]

\* The message whose prefix these bytes are; any other bytes would make some
\* other number.
PrefixOf(bytes) == {m \in DOMAIN queue : bytes = SubSeq(Framed(m), 1, PrefixLen)}

Prefix == [part |-> "prefix", n |-> PrefixLen]

\* What fits into the next frame, and the rest.
FirstChunk(bytes) == SubSeq(bytes, 1, IF Len(bytes) <= MaxPlaintext THEN Len(bytes) ELSE MaxPlaintext)
AfterChunk(bytes) == SubSeq(bytes, MaxPlaintext + 1, Len(bytes))

-----------------------------------------------------------------------------

\* The writer task takes the next message of its queue.
TakeMessage ==
  /\ Up /\ chunks = << >> /\ sent < Len(queue)
  /\ sent' = sent + 1
  /\ chunks' = Framed(sent + 1)
  /\ UNCHANGED <<queue, wire, leftover, expect, received, link>>

\* One turn of EncryptedWriter::write_all.
WriteFrame ==
  /\ Up /\ chunks # << >>
  /\ wire' = Append(wire, FirstChunk(chunks))
  /\ chunks' = AfterChunk(chunks)
  /\ UNCHANGED <<queue, sent, leftover, expect, received, link>>

\* Mutation: one byte more than asked for is waited for.
WantsMoreThan(bytes, n) == Len(bytes) <= n

WantsMore(bytes, n) == Len(bytes) < n

\* One turn of the loop in EncryptedReader::read_exact.
ReadFrame ==
  /\ Up /\ WantsMore(leftover, expect.n)
  /\ wire # << >>
  /\ leftover' = leftover \o Head(wire)
  /\ wire' = Tail(wire)
  /\ UNCHANGED <<queue, sent, chunks, expect, received, link>>

\* Mutation: what was decrypted beyond n bytes is dropped.
DrainAll(bytes, n) == << >>

\* leftover.drain(..n): the rest stays for the next call.
Drain(bytes, n) == SubSeq(bytes, n + 1, Len(bytes))

\* The bytes read_exact returns.
Taken(bytes, n) == SubSeq(bytes, 1, n)

\* read_message has its four bytes: the body comes next, unless it is longer
\* than the limit, which ends the connection.
ReadPrefix ==
  /\ Up /\ expect.part = "prefix" /\ ~ WantsMore(leftover, expect.n)
  /\ leftover' = Drain(leftover, PrefixLen)
  /\ \/ \E m \in PrefixOf(Taken(leftover, PrefixLen)) :
          /\ Length(m) <= MaxMessage
          /\ expect' = [part |-> "body", n |-> Length(m)]
          /\ UNCHANGED link
     \/ /\ \A m \in PrefixOf(Taken(leftover, PrefixLen)) : Length(m) > MaxMessage
        /\ link' = "refused"
        /\ UNCHANGED expect
  /\ UNCHANGED <<queue, sent, chunks, wire, received>>

\* read_message has the body: it is passed on as an event.
ReadBody ==
  /\ Up /\ expect.part = "body" /\ ~ WantsMore(leftover, expect.n)
  /\ received' = Append(received, Taken(leftover, expect.n))
  /\ leftover' = Drain(leftover, expect.n)
  /\ expect' = Prefix
  /\ UNCHANGED <<queue, sent, chunks, wire, link>>

\* The connection breaks at any time.
Cut ==
  /\ Up
  /\ link' = "broken"
  /\ UNCHANGED <<queue, sent, chunks, wire, leftover, expect, received>>

ChannelInit ==
  /\ queue \in Queues
  /\ sent = 0 /\ chunks = << >> /\ wire = << >> /\ leftover = << >>
  /\ expect = Prefix /\ received = << >> /\ link = "up"

ChannelNext == TakeMessage \/ WriteFrame \/ ReadFrame \/ ReadPrefix \/ ReadBody \/ Cut

ChannelSpec == ChannelInit /\ [][ChannelNext]_channel_vars

\* Both ends are polled by the runtime.
FairChannelSpec ==
  /\ ChannelSpec
  /\ WF_channel_vars(TakeMessage \/ WriteFrame)
  /\ WF_channel_vars(ReadFrame \/ ReadPrefix \/ ReadBody)

-----------------------------------------------------------------------------

\* Messages arrive whole, in the order they were written, none twice, for
\* every way frame and message boundaries fall.
InOrder ==
  /\ Len(received) <= sent
  /\ \A k \in DOMAIN received : received[k] = Body(k)

\* Nothing is lost inside the channel: what is written and not delivered is
\* still on its way, byte for byte.
NothingLost ==
  LET InBody   == expect.part = "body"
      begun    == Len(received) + (IF InBody THEN 1 ELSE 0)
      onTheWay == [k \in 1..(sent - begun) |-> Framed(begun + k)]
  IN  Up => leftover \o FlattenSeq(wire) \o chunks
              = (IF InBody THEN Body(begun) ELSE << >>) \o FlattenSeq(onTheWay)

\* Unless the connection breaks, every message before the first one over the
\* reader's limit is delivered: no byte count leaves the reader waiting.
AllDelivered ==
  LET Refused == {m \in DOMAIN queue : queue[m] > MaxMessage}
  IN  <>(\/ link = "broken"
         \/ Refused = {} /\ Len(received) = Len(queue)
         \/ Refused # {} /\ link = "refused" /\ Len(received) + 1 \in Refused)

=============================================================================
