----------------------------- MODULE Connection -----------------------------
(***************************************************************************)
(* One direction of a TCP connection of common/rrpc/connection.hpp: the    *)
(* send queue of one end, the byte stream, and the read loop of the other. *)
(*                                                                         *)
(* send() queues a packet and starts a write when none is going on; the    *)
(* completion handler pops the queue and starts the next one.  A write     *)
(* gathers buffers by reference: what reaches the stream is what the       *)
(* memory holds when the socket gets to it, so the packets, the size word  *)
(* and the head must not change while a write is going on.                 *)
(*                                                                         *)
(* A byte is a number below Base, the uint32_t size word is two of them    *)
(* (so Flag, its highest bit, is half of Base^2), and a size or a count    *)
(* below Base \div 2 is a varint of one byte: the model has no others.     *)
(***************************************************************************)
EXTENDS Naturals, FiniteSets, Sequences, SequencesExt

CONSTANTS
  Packet,   \* packet objects; each is sent once
  Body,     \* Body[p]: the bytes in the stream buffer of packet p
  Base      \* number of values of a byte

Byte == 0 .. Base - 1
Word == 0 .. Base * Base - 1
Flag == (Base * Base) \div 2

ASSUME ConnectionAssumption ==
  /\ Base \in Nat /\ Base > 1
  /\ Body \in [Packet -> Seq(Byte)]
  /\ \A p \in Packet : Len(Body[p]) < Base \div 2
  /\ IsFiniteSet(Packet) /\ Cardinality(Packet) < Base \div 2
  /\ "size" \notin Packet /\ "head" \notin Packet

VARIABLES
  queue,     \* _sendQueue
  left,      \* what the stream buffer of a packet holds
  sendSize,  \* _sendPackageSize, the number
  sendHead,  \* _sendStreamBuf
  ops,       \* the async_write operations going on: buffers still to be written
  wire,      \* bytes written and not yet read
  reading,   \* read loop: waits for a size, for a package, or has stopped
  readSize,  \* _readPackageSize
  readBuf,   \* _readStreamBuf
  sent,      \* history: the arguments of send()
  written,   \* history: packets whose bytes were written, repeats included
  popped,    \* history: how many packets the sender has taken off the queue
  multi,     \* history: some write carried several packets
  failed     \* history: some write failed

sender == <<queue, left, sendSize, sendHead, ops, sent, popped, multi, failed>>
receiver == <<reading, readSize, readBuf>>
vars == <<sender, wire, written, receiver>>

\* native_to_little and little_to_native: the bytes of a word in memory, the
\* lowest first, and the word they are read as.
ToLittle(w) == <<w % Base, w \div Base>>
FromLittle(b) == b[1] + Base * b[2]

\* The bytes a gathered buffer refers to.
Bytes(buf) ==
  CASE buf = "size" -> ToLittle(sendSize)
    [] buf = "head" -> sendHead
    [] OTHER -> left[buf]

Init ==
  /\ queue = <<>>
  /\ left = Body
  /\ sendSize = 0
  /\ sendHead = <<>>
  /\ ops = <<>>
  /\ wire = <<>>
  /\ reading = "size"
  /\ readSize = 0
  /\ readBuf = <<>>
  /\ sent = <<>>
  /\ written = <<>>
  /\ popped = 0
  /\ multi = FALSE
  /\ failed = FALSE

------------------------------------------------------------------------------
(* The sender.                                                             *)

\* The sizes of queue q, with c[p] in the stream buffer of p, added up.
TotalSize(q, c) ==
  Cardinality(UNION {{i} \X (1 .. Len(c[q[i]])) : i \in DOMAIN q})

\* Fault: the buffer pushed as a placeholder is never replaced.
Placeholder == "empty"

\* The buffer of the head in a write of several packets.
HeadBuffer == "head"

\* _postWrite, with queue q, c[p] in the stream buffer of p, and the writes of
\* others going on.  The size word of several packets adds the number of
\* buffers (size, head, and one per packet) to the sizes of the packets, then
\* keeps nothing but the flag.
PostWrite(q, c, others) ==
  \/ /\ q = <<>>
     /\ ops' = others
     /\ UNCHANGED <<sendSize, sendHead, multi>>
  \/ /\ Len(q) = 1
     /\ sendSize' = Len(c[q[1]])
     /\ ops' = Append(others, <<"size">> \o q)
     /\ UNCHANGED <<sendHead, multi>>
  \/ /\ Len(q) > 1
     /\ sendHead' = <<Len(q)>> \o [i \in DOMAIN q |-> Len(c[q[i]])]
     /\ sendSize' = (((TotalSize(q, c) + Len(q) + 2) % (Base * Base)) \div Flag) * Flag
     /\ ops' = Append(others, <<"size", HeadBuffer>> \o q)
     /\ multi' = TRUE

\* Fault: a write is started although one is going on.
SendAlwaysWrites(p) ==
  /\ p \notin ToSet(sent)
  /\ queue' = Append(queue, p)
  /\ sent' = Append(sent, p)
  /\ PostWrite(queue', left, ops)
  /\ UNCHANGED <<left, popped, failed, wire, written, receiver>>

Send(p) ==
  /\ p \notin ToSet(sent)
  /\ queue' = Append(queue, p)
  /\ sent' = Append(sent, p)
  /\ \/ queue = <<>> /\ PostWrite(queue', left, ops)
     \/ queue # <<>> /\ UNCHANGED <<sendSize, sendHead, ops, multi>>
  /\ UNCHANGED <<left, popped, failed, wire, written, receiver>>

\* The socket takes the next buffer of a write.
Transmit(i) ==
  /\ ops[i] # <<>>
  /\ LET buf == Head(ops[i])
     IN  /\ wire' = wire \o Bytes(buf)
         /\ written' = IF buf \in Packet THEN Append(written, buf) ELSE written
  /\ ops' = [ops EXCEPT ![i] = Tail(@)]
  /\ UNCHANGED <<queue, left, sendSize, sendHead, sent, popped, multi, failed, receiver>>

\* Fault: everything queued counts as written.
AllQueued == Len(queue)

\* The value bound to the parameter packetNum of _handleSend.
PacketNum == 1

\* Fault: the queue goes on only with the next send().
HandleSendNoRepost(i) ==
  LET done == {queue[k] : k \in 1 .. PacketNum}
  IN  /\ ops[i] = <<>>
      /\ left' = [p \in Packet |-> IF p \in done THEN <<>> ELSE left[p]]
      /\ queue' = SubSeq(queue, PacketNum + 1, Len(queue))
      /\ popped' = popped + PacketNum
      /\ ops' = RemoveAt(ops, i)
      /\ UNCHANGED <<sendSize, sendHead, multi, sent, failed, wire, written, receiver>>

\* _handleSend of a write that succeeded.
HandleSend(i) ==
  LET done == {queue[k] : k \in 1 .. PacketNum}
  IN  /\ ops[i] = <<>>
      /\ left' = [p \in Packet |-> IF p \in done THEN <<>> ELSE left[p]]
      /\ queue' = SubSeq(queue, PacketNum + 1, Len(queue))
      /\ popped' = popped + PacketNum
      /\ PostWrite(queue', left', RemoveAt(ops, i))
      /\ UNCHANGED <<sent, failed, wire, written, receiver>>

\* Fault: the queue is given up, so that the next send() writes again.
HandleSendErrorClears(i) ==
  /\ ops' = RemoveAt(ops, i)
  /\ queue' = <<>>
  /\ failed' = TRUE
  /\ UNCHANGED <<left, sendSize, sendHead, sent, popped, multi, wire, written, receiver>>

\* _handleSend of a write that failed, whatever part of it was written.
HandleSendError(i) ==
  /\ ops' = RemoveAt(ops, i)
  /\ failed' = TRUE
  /\ UNCHANGED <<queue, left, sendSize, sendHead, sent, popped, multi, wire, written, receiver>>

------------------------------------------------------------------------------
(* The receiver.                                                           *)

Drop(n) == wire' = SubSeq(wire, n + 1, Len(wire))

\* _listen and _handleReadPackageSize.
ReadPackageSize ==
  /\ reading = "size"
  /\ Len(wire) >= 2
  /\ Drop(2)
  /\ readSize' = FromLittle(wire)
  /\ reading' = IF readSize' % Flag > 0 THEN "package" ELSE "size"
  /\ UNCHANGED <<sender, written, readBuf>>

\* _handleReadPackage.
ReadPackage ==
  LET size == readSize % Flag
  IN  /\ reading = "package"
      /\ Len(wire) >= size
      /\ Drop(size)
      /\ readBuf' = readBuf \o SubSeq(wire, 1, size)
      /\ reading' = "size"
      /\ UNCHANGED <<sender, written, readSize>>

\* The error branch of both handlers: no further read is started.
ReadError ==
  /\ reading # "stopped"
  /\ reading' = "stopped"
  /\ UNCHANGED <<sender, wire, written, readSize, readBuf>>

------------------------------------------------------------------------------
Write == \E i \in DOMAIN ops : Transmit(i) \/ HandleSend(i)

Read == ReadPackageSize \/ ReadPackage

Next ==
  \/ \E p \in Packet : Send(p)
  \/ Write
  \/ \E i \in DOMAIN ops : HandleSendError(i)
  \/ Read
  \/ ReadError

Spec == Init /\ [][Next]_vars

\* The io_service of each end runs the operations the socket has completed.
FairSpec == Spec /\ WF_vars(Write) /\ WF_vars(Read)

------------------------------------------------------------------------------
(* Properties.                                                             *)

Buffer == {"size", "head"} \cup Packet

TypeOK ==
  /\ queue \in Seq(Packet)
  /\ left \in [Packet -> Seq(Byte)]
  /\ sendSize \in Word
  /\ sendHead \in Seq(Byte)
  /\ ops \in Seq(Seq(Buffer))
  /\ wire \in Seq(Byte)
  /\ reading \in {"size", "package", "stopped"}
  /\ readSize \in Word
  /\ readBuf \in Seq(Byte)
  /\ sent \in Seq(Packet)
  /\ written \in Seq(Packet)
  /\ popped \in Nat
  /\ multi \in BOOLEAN
  /\ failed \in BOOLEAN

\* Until a write fails, one write is going on exactly while isSending() holds:
\* neither does the queue wait with nothing to wake it, nor do two writes mix
\* their bytes.
OneWriteWhileSending ==
  ~failed => Len(ops) = IF queue = <<>> THEN 0 ELSE 1

\* The memory a write refers to does not change before the write is over.
Referred == UNION {ToSet(ops[i]) : i \in DOMAIN ops}
BuffersStable == [][\A b \in Referred \cap Referred' : Bytes(b)' = Bytes(b)]_vars

\* Packets leave the queue in the order of send(), and none before its bytes
\* were written.
NothingSkipped ==
  /\ sent = SubSeq(sent, 1, popped) \o queue
  /\ \A k \in 1 .. popped : sent[k] \in ToSet(written)

\* The bytes after a truncated package would be taken for the rest of it: once
\* a write has failed, no further byte is written.
NothingAfterFailure == [][failed => written' = written /\ Len(wire') <= Len(wire)]_vars

\* A write reads memory that stays as it was, and a failed one is the last.
WritesStable == BuffersStable /\ NothingAfterFailure

\* As long as every write carried one packet, the reader has got the packets
\* sent, whole and in order, up to some point.
SinglePacketsDelivered ==
  ~multi => \E n \in 0 .. Len(sent) :
              readBuf = FlattenSeq([k \in 1 .. n |-> Body[sent[k]]])

\* A packet given to send() is written in the end, unless a write fails.
EveryPacketWritten ==
  \A p \in Packet : p \in ToSet(sent) ~> failed \/ p \in ToSet(written)

\* "mark as multi-packets": the size word of a write of several packets has
\* its highest bit set.
MultiPacketsMarked ==
  \A i \in DOMAIN ops : "head" \in ToSet(ops[i]) => sendSize >= Flag

\* packetNum is the number of packets a write carried: when it is over, all of
\* them leave the queue, and none is written again.
WrittenOnce == IsInjective(written)
==============================================================================
