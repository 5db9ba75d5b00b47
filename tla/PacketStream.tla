----------------------------- MODULE PacketStream ------------------------------
(***************************************************************************)
(* boost_socket in one direction: a packet is serialized, its length goes  *)
(* ahead of it, and the bytes travel in a stream that keeps no boundaries  *)
(* and may end anywhere.  The receiver reads the length, then as many      *)
(* bytes as it says, then deserializes what the opcode calls for.          *)
(*                                                                         *)
(* Four opcodes stand for the shapes of the protocol's packets: no fields, *)
(* strings, a number and a string, and the list of characters.             *)
(***************************************************************************)
EXTENDS Codec

CONSTANTS
  Messages,   \* the messages a sender may send: an opcode and values
  MaxSent     \* bound: messages sent

VARIABLES
  sent,       \* every message sent, and whether its packet is well formed
  wire,       \* bytes on their way
  arrived,    \* bytes the receiver has not read
  expecting,  \* the length async_read waits for, Nothing: it waits for a length
  received,   \* messages the receiver has read
  receiver,   \* has the receiver closed the connection?
  link        \* the network

stream_vars == <<sent, wire, arrived, expecting, received, receiver, link>>

Nothing == -1
Opcode(m) == Number("byte", m.opcode)
Payload(m) == Serialize(<<Opcode(m)>> \o m.values)
Frame(bytes) == Bytes("unsigned", Len(bytes)) \o bytes

ASSUME StreamAssumption ==
  /\ MaxSent \in Nat
  /\ \A m \in Messages : Len(Payload(m)) <= BufferSize

(***************************************************************************)
(* What a reader takes from a packet.                                      *)
(***************************************************************************)

\* while (count--) bd >> uid >> nick;
Characters(count) ==
  [i \in 1..2 * count |-> IF i % 2 = 1 THEN "unsigned" ELSE "string"]

GetList(reader) ==
  LET counted == Get(reader, "size")
  IN IF counted.failed THEN counted
     ELSE GetAll(counted, Characters(Last(counted.values).number))

Read(data) ==
  LET start == Get(Reader(data), "byte")
      opcode == IF start.failed THEN Nothing ELSE start.values[1].number
  IN CASE opcode = 1 -> GetAll(start, <<"string", "string">>)
       [] opcode = 2 -> GetAll(start, <<"unsigned", "string">>)
       [] opcode = 3 -> GetList(start)
       [] OTHER -> start

MessageOf(reader) ==
  [opcode |-> Head(reader.values).number, values |-> Tail(reader.values)]

\* What the writer of a packet puts behind the opcode: the fields of its reader.
Fields(m) ==
  CASE m.opcode = 1 -> <<"string", "string">>
    [] m.opcode = 2 -> <<"unsigned", "string">>
    [] m.opcode = 3 -> <<"size">> \o Characters(Len(m.values) \div 2)
    [] OTHER -> << >>

ASSUME MessagesAssumption ==
  /\ Messages \subseteq [opcode : Nat, values : Seq(Values)]
  /\ \A m \in Messages :
       /\ IsValue(Opcode(m)) /\ \A i \in DOMAIN m.values : IsValue(m.values[i])
       /\ [i \in DOMAIN m.values |-> m.values[i].kind] = Fields(m)
       /\ m.opcode = 3 => m.values[1].number = Len(m.values) \div 2
  /\ Fits("unsigned", BufferSize + 1)

StreamInit ==
  /\ sent = << >> /\ wire = << >> /\ arrived = << >> /\ received = << >>
  /\ expecting = Nothing
  /\ receiver = "open"
  /\ link = "up"

(***************************************************************************)
(* The sender.                                                             *)
(***************************************************************************)

Write(m, bytes, complete) ==
  /\ Len(sent) < MaxSent /\ link = "up"
  /\ wire' = wire \o bytes
  /\ sent' = Append(sent, [message |-> m, complete |-> complete])
  /\ UNCHANGED <<arrived, expecting, received, receiver, link>>

\* send_to_client, possibly with redundant data behind what will be read.
SendMessage(m) ==
  \E redundant \in {<< >>, <<1>>} :
    /\ Len(Payload(m)) + Len(redundant) <= BufferSize
    /\ Write(m, Frame(Payload(m) \o redundant), TRUE)

\* Another program than the client here sends less than the opcode calls for.
SendTruncated(m) ==
  \E size \in 0..Len(Payload(m)) - 1 : Write(m, Frame(SubSeq(Payload(m), 1, size)), FALSE)

\* ... or announces more than a buffer holds.
SendOversized(m) ==
  Write(m, Bytes("unsigned", BufferSize + 1) \o Payload(m), FALSE)

(***************************************************************************)
(* The network.                                                            *)
(***************************************************************************)

Arrive ==
  /\ wire # << >>
  /\ \E n \in {1, Len(wire)} :
       /\ arrived' = arrived \o SubSeq(wire, 1, n)
       /\ wire' = SubSeq(wire, n + 1, Len(wire))
  /\ UNCHANGED <<sent, expecting, received, receiver, link>>

LoseLink ==
  /\ link = "up"
  /\ link' = "lost" /\ wire' = << >>
  /\ UNCHANGED <<sent, arrived, expecting, received, receiver>>

(***************************************************************************)
(* The receiver.                                                           *)
(***************************************************************************)

\* A bug in the read: it waits for one byte too many.
AsyncReadOneMore(size) ==
  /\ receiver = "open" /\ Len(arrived) > size
  /\ arrived' = SubSeq(arrived, size + 1, Len(arrived))

\* async_read completes: not before all the bytes it was asked for are there.
AsyncRead(size) ==
  /\ receiver = "open" /\ Len(arrived) >= size
  /\ arrived' = SubSeq(arrived, size + 1, Len(arrived))

LengthIsRead == expecting = Nothing /\ AsyncRead(SizeOf["unsigned"])
DataIsRead == expecting # Nothing /\ AsyncRead(expecting) /\ expecting' = Nothing

\* A bug in the length: one that exceeds the buffer is waited for.
ReadLengthUnchecked ==
  /\ LengthIsRead
  /\ expecting' = Value(SubSeq(arrived, 1, SizeOf["unsigned"]))
  /\ UNCHANGED <<sent, wire, received, receiver, link>>

\* do_recv_expected_len.
ReadLength ==
  /\ LengthIsRead
  /\ LET length == Value(SubSeq(arrived, 1, SizeOf["unsigned"]))
     IN IF length > BufferSize
          THEN receiver' = "closed" /\ UNCHANGED expecting
          ELSE expecting' = length /\ UNCHANGED receiver
  /\ UNCHANGED <<sent, wire, received, link>>

\* A bug in the packet handler: an exception only skips the packet.
ReadDataSkips ==
  /\ DataIsRead
  /\ LET reader == Read(SubSeq(arrived, 1, expecting))
     IN received' = IF reader.failed THEN received ELSE Append(received, MessageOf(reader))
  /\ UNCHANGED <<sent, wire, receiver, link>>

\* do_recv_data and the packet handler, which closes the connection when the
\* deserializer throws and reads the next packet otherwise.
ReadData ==
  /\ DataIsRead
  /\ LET reader == Read(SubSeq(arrived, 1, expecting))
     IN IF reader.failed
          THEN receiver' = "closed" /\ UNCHANGED received
          ELSE received' = Append(received, MessageOf(reader)) /\ UNCHANGED receiver
  /\ UNCHANGED <<sent, wire, link>>

ReadError ==
  /\ receiver = "open" /\ link = "lost"
  /\ receiver' = "closed" /\ expecting' = Nothing
  /\ UNCHANGED <<sent, wire, arrived, received, link>>

StreamNext ==
  \/ \E m \in Messages : SendMessage(m) \/ SendTruncated(m) \/ SendOversized(m)
  \/ Arrive
  \/ LoseLink
  \/ ReadLength
  \/ ReadData
  \/ ReadError

StreamSpec == StreamInit /\ [][StreamNext]_stream_vars

\* What has been written travels, and a read that can complete does.
StreamFairSpec ==
  /\ StreamSpec
  /\ WF_wire(Arrive) /\ WF_arrived(LengthIsRead) /\ WF_expecting(DataIsRead)

(***************************************************************************)
(* Properties.                                                             *)
(***************************************************************************)

\* Every variable keeps its type.
StreamTypeOK ==
  /\ sent \in Seq([message : Messages, complete : BOOLEAN])
  /\ wire \in Seq(0..Base - 1) /\ arrived \in Seq(0..Base - 1)
  /\ expecting \in 0..BufferSize \union {Nothing}
  /\ Len(received) <= Len(sent)
  /\ receiver \in {"open", "closed"} /\ link \in {"up", "lost"}

\* However the bytes are cut on their way, and whatever is redundant or missing
\* in a packet, the receiver reads what was sent, message by message.
Channel == INSTANCE PacketChannel WITH
  queue <- SubSeq(sent, Len(received) + 1, Len(sent)),
  delivered <- received,
  open <- receiver = "open"

ImplementsChannel == Channel!CSpec

\* The receiver closes a connection only if it is lost or if the packet it
\* stopped at is malformed; redundant data is no reason.
ClosedForCause ==
  receiver = "closed" =>
    \/ link = "lost"
    \/ Len(received) < Len(sent) /\ ~sent[Len(received) + 1].complete

\* Every message is read in the end, unless the connection ends before: the
\* receiver never waits for bytes that nobody will send.
EverythingIsRead ==
  \A n \in 1..MaxSent :
    Len(sent) >= n ~> Len(received) >= n \/ receiver = "closed" \/ link = "lost"
===============================================================================
