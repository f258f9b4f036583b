------------------------------- MODULE Package -------------------------------
(***************************************************************************)
(* The packages of common/rrpc/old, in one direction: package.hpp writes   *)
(* packets into a package and hands its buffers to async_write, and        *)
(* connection.hpp at the other end reads the package and takes it apart.   *)
(*                                                                         *)
(* On the wire a package is a size word, the list of the sizes of its      *)
(* packets with a 0 at the end, and the packets.  A unit of the wire is a  *)
(* number with what it was written as, or one field of a packet.           *)
(***************************************************************************)
EXTENDS Naturals, Sequences, SequencesExt

CONSTANTS
  Pkg,       \* package objects: _package of a session, or the op of a handler
  Packet,    \* packets; each is written once
  Args,      \* Args[p]: how many values follow the header of p
  Response,  \* those with the short header
  Unread,    \* those nobody at the other end reads further than the header
  None

PackageAssumption ==
  /\ Args \in [Packet -> Nat]
  /\ Response \subseteq Packet
  /\ Unread \subseteq Packet
  /\ {"word", "len"} \cap Packet = {}
  /\ None \notin Nat

VARIABLES
  sizes,        \* _packetSizesBuf of a package
  body,         \* _streamBuf of a package
  lastSize,     \* _lastSize
  packageSize,  \* _packageSize
  sent,         \* history: packages given to send(), in order
  content,      \* history: the packets written into a package
  ops,          \* the async_write operations going on
  wire,         \* units written and not yet read
  reading,      \* read loop: waits for a size, for a package, or has stopped
  readSize,     \* _packageSize of the ipackage
  inBuf,        \* _streamBuf of the ipackage
  handled,      \* history: packets read to the end, in order
  misread,      \* what was read is not what was written there
  overlap,      \* history: a write was started while another was going on
  failed        \* history: a write failed

writer == <<sizes, body, lastSize, packageSize, sent, content, ops, overlap, failed>>
ipackage == <<readSize, inBuf>>
reader == <<reading, ipackage, handled, misread>>
vars == <<writer, wire, reader>>

\* header::serialize: only requests name their method.
HeaderLen(p) == IF p \in Response THEN 3 ELSE 6

\* serialize(ar, args...): the values one after the other, here fields m + 1 .. n
\* of packet p; a package's header takes its first ones.
Serialize(p, m, n) == [k \in 1 .. n - m |-> <<p, m + k>>]

\* A packet as write(h) and write(args...) leave it in the buffer.
Units(p) == Serialize(p, 0, HeaderLen(p)) \o Serialize(p, HeaderLen(p), HeaderLen(p) + Args[p])

\* write_packet_size: an entry of the list of sizes.
SizeEntry(n) == <<"len", n>>

Init ==
  /\ sizes = [k \in Pkg |-> <<>>]
  /\ body = [k \in Pkg |-> <<>>]
  /\ lastSize = [k \in Pkg |-> 0]
  /\ packageSize = [k \in Pkg |-> 0]
  /\ sent = <<>>
  /\ content = [k \in Pkg |-> <<>>]
  /\ ops = <<>>
  /\ wire = <<>>
  /\ reading = "size"
  /\ readSize = 0
  /\ inBuf = <<>>
  /\ handled = <<>>
  /\ misread = FALSE
  /\ overlap = FALSE
  /\ failed = FALSE

------------------------------------------------------------------------------
(* The writer.                                                             *)

\* Fault: the size of a packet is the size of everything up to its end.
EndPacketTotal(k, b) ==
  /\ sizes' = [sizes EXCEPT ![k] = Append(@, SizeEntry(Len(b)))]
  /\ lastSize' = [lastSize EXCEPT ![k] = 0]

\* Fault: the difference is taken the other way round.
EndPacketReversed(k, b) ==
  /\ sizes' = [sizes EXCEPT ![k] = Append(@, SizeEntry(lastSize[k] - Len(b)))]
  /\ lastSize' = [lastSize EXCEPT ![k] = Len(b)]

\* end_packet, with b in the stream buffer.
EndPacket(k, b) ==
  /\ sizes' = [sizes EXCEPT ![k] = Append(@, SizeEntry(Len(b) - lastSize[k]))]
  /\ lastSize' = [lastSize EXCEPT ![k] = Len(b)]

\* begin_packet, write of the header and of the values, end_packet.
WritePacket(k, p) ==
  LET b == body[k] \o Units(p)
  IN  /\ k \notin ToSet(sent)
      /\ \A j \in Pkg : p \notin ToSet(content[j])
      /\ body' = [body EXCEPT ![k] = b]
      /\ EndPacket(k, b)
      /\ content' = [content EXCEPT ![k] = Append(@, p)]
      /\ UNCHANGED <<packageSize, sent, ops, overlap, failed, wire, reader>>

\* Fault: the end of the list of sizes is not counted.
PackTooSmall(k) ==
  /\ sizes' = [sizes EXCEPT ![k] = Append(@, SizeEntry(0))]
  /\ packageSize' = [packageSize EXCEPT ![k] = Len(sizes[k]) + Len(body[k])]
  /\ lastSize' = [lastSize EXCEPT ![k] = 0]

\* pack
Pack(k) ==
  /\ sizes' = [sizes EXCEPT ![k] = Append(@, SizeEntry(0))]
  /\ packageSize' = [packageSize EXCEPT ![k] = Len(sizes'[k]) + Len(body[k])]
  /\ lastSize' = [lastSize EXCEPT ![k] = 0]

\* send: whether a write is going on is not looked at.
Send(k) ==
  /\ k \notin ToSet(sent)
  /\ content[k] # <<>>
  /\ Pack(k)
  /\ sent' = Append(sent, k)
  /\ ops' = Append(ops, [pkg |-> k, left |-> <<"word", "sizes", "body">>])
  /\ overlap' = (overlap \/ ops # <<>>)
  /\ UNCHANGED <<body, content, failed, wire, reader>>

\* What the buffers set up by pack() refer to.
Bytes(k, buffer) ==
  CASE buffer = "word" -> <<<<"word", packageSize[k]>>>>
    [] buffer = "sizes" -> sizes[k]
    [] buffer = "body" -> body[k]

\* The socket takes the next buffer of a write.
Transmit(i) ==
  /\ ops[i].left # <<>>
  /\ wire' = wire \o Bytes(ops[i].pkg, Head(ops[i].left))
  /\ ops' = [ops EXCEPT ![i].left = Tail(@)]
  /\ UNCHANGED <<sizes, body, lastSize, packageSize, sent, content, overlap, failed, reader>>

\* consume
Consume(k) ==
  /\ sizes' = [sizes EXCEPT ![k] = <<>>]
  /\ body' = [body EXCEPT ![k] = <<>>]

\* _handleSend, after success or failure, whatever part was written then.
HandleSend(i) ==
  /\ Consume(ops[i].pkg)
  /\ failed' = (failed \/ ops[i].left # <<>>)
  /\ ops' = RemoveAt(ops, i)
  /\ UNCHANGED <<lastSize, packageSize, sent, content, overlap, wire, reader>>

------------------------------------------------------------------------------
(* The reader.                                                             *)

\* What get_package_size_buf() and unpack_package_size() make of a size word.
PackageSize(unit) == unit[2]

\* _listen and _handleReadPackageSize.  A word that is not one is some number.
ReadPackageSize ==
  /\ reading = "size"
  /\ ~misread
  /\ wire # <<>>
  /\ wire' = Tail(wire)
  /\ \/ /\ wire[1][1] = "word"
        /\ readSize' = PackageSize(wire[1])
        /\ reading' = IF readSize' > 0 THEN "package" ELSE "size"
        /\ UNCHANGED misread
     \/ /\ wire[1][1] # "word"
        /\ misread' = TRUE
        /\ UNCHANGED <<readSize, reading>>
  /\ UNCHANGED <<writer, inBuf, handled>>

\* How many entries of unpack_packet_sizes come before the ending flag, or
\* None when something else is read before it.
ListLength(buf) ==
  LET ends == {i \in DOMAIN buf : buf[i] = SizeEntry(0)}
      before == {i \in DOMAIN buf : buf[i][1] # "len"}
  IN  IF \E i \in ends : \A j \in before : i < j
      THEN (CHOOSE i \in ends : \A j \in ends : i <= j) - 1
      ELSE None

\* ignore(): empty.
Ignore(buf, n) == buf

\* serialize_tuple_helper: elements index and up of a tuple of size, one each.
TupleLen(index, size) == IF index < size THEN size - index ELSE 0

\* read_args: the tuple of the arguments, from the first element on.
ReadArgs(p) == TupleLen(0, Args[p])

\* What is read of a packet: by read_header, and then by read_args (or read).
ReadLen(p) == HeaderLen(p) + IF p \in Unread THEN 0 ELSE ReadArgs(p)

\* Fault: packets nobody is bound to are invoked all the same.
TakeUnbound(at, size) ==
  LET p == at.buf[1][1]
      n == HeaderLen(p) + Args[p]
  IN  IF at.broken \/ Len(at.buf) < size THEN [at EXCEPT !.broken = TRUE]
      ELSE [at EXCEPT !.buf = SubSeq(@, n + 1, Len(@)), !.handled = Append(@, p)]

\* Fault: the values of a packet are left to ignore().
TakeHeaderOnly(at, size) ==
  LET p == at.buf[1][1]
  IN  IF at.broken \/ Len(at.buf) < size \/ at.buf[1] \notin Packet \X {1}
      THEN [at EXCEPT !.broken = TRUE]
      ELSE [at EXCEPT !.buf = Ignore(SubSeq(@, HeaderLen(p) + 1, Len(@)), Args[p]),
                      !.handled = Append(@, p)]

\* One turn of the loop in _handleReadPackage, for a packet of the given size:
\* the header, then what _invoke or _response reads.  The loop is left when the
\* packet is longer than what is available, or was read past its end.
TakePacket(at, size) ==
  LET p == at.buf[1][1]
      n == ReadLen(p)
      rest == SubSeq(at.buf, n + 1, Len(at.buf))
      inPlace == /\ at.buf # <<>>
                 /\ at.buf[1] \in Packet \X {1}
                 /\ IsPrefix(SubSeq(Units(p), 1, n), at.buf)
  IN  IF at.broken \/ Len(at.buf) < size \/ ~inPlace THEN [at EXCEPT !.broken = TRUE]
      ELSE [buf |-> IF size > n THEN Ignore(rest, size - n) ELSE rest,
            handled |-> IF p \in Unread THEN at.handled ELSE Append(at.handled, p),
            broken |-> size < n]

\* The loop, over the packets of the given sizes.
TakePackets(start, packetSizes) ==
  LET at[i \in 0 .. Len(packetSizes)] ==
        IF i = 0 THEN start ELSE TakePacket(at[i - 1], packetSizes[i])
  IN  at[Len(packetSizes)]

\* prepare and commit: the package comes after what was left in the buffer.
Committed == inBuf \o SubSeq(wire, 1, readSize)

\* _handleReadPackage.
ReadPackage ==
  LET buf == Committed
      count == ListLength(buf)
  IN  /\ reading = "package"
      /\ ~misread
      /\ Len(wire) >= readSize
      /\ wire' = SubSeq(wire, readSize + 1, Len(wire))
      /\ reading' = "size"
      /\ \/ /\ count = None
            /\ misread' = TRUE
            /\ UNCHANGED <<inBuf, handled>>
         \/ /\ count # None
            /\ LET packetSizes == [i \in 1 .. count |-> buf[i][2]]
                   start == [buf |-> SubSeq(buf, count + 2, Len(buf)),
                             handled |-> handled, broken |-> FALSE]
                   end == TakePackets(start, packetSizes)
               IN  /\ inBuf' = Ignore(end.buf, Len(end.buf))
                   /\ handled' = end.handled
                   /\ misread' = end.broken
      /\ UNCHANGED <<writer, readSize>>

\* The error branch of both handlers.
ReadError ==
  /\ reading # "stopped"
  /\ reading' = "stopped"
  /\ UNCHANGED <<writer, wire, readSize, inBuf, handled, misread>>

------------------------------------------------------------------------------
Write == \E i \in DOMAIN ops : Transmit(i) \/ HandleSend(i)

Next ==
  \/ \E k \in Pkg, p \in Packet : WritePacket(k, p)
  \/ \E k \in Pkg : Send(k)
  \/ Write
  \/ ReadPackageSize
  \/ ReadPackage
  \/ ReadError

Spec == Init /\ [][Next]_vars

------------------------------------------------------------------------------
(* Properties.                                                             *)

Number == {"word", "len"} \X Nat
Field == Packet \X (Nat \ {0})

TypeOK ==
  /\ sizes \in [Pkg -> Seq(Number)]
  /\ body \in [Pkg -> Seq(Field)]
  /\ lastSize \in [Pkg -> Nat]
  /\ packageSize \in [Pkg -> Nat]
  /\ sent \in Seq(Pkg)
  /\ content \in [Pkg -> Seq(Packet)]
  /\ ops \in Seq([pkg : Pkg, left : Seq({"word", "sizes", "body"})])
  /\ wire \in Seq(Number \cup Field)
  /\ reading \in {"size", "package", "stopped"}
  /\ readSize \in Nat
  /\ inBuf \in Seq(Number \cup Field)
  /\ handled \in Seq(Packet)
  /\ misread \in BOOLEAN
  /\ overlap \in BOOLEAN
  /\ failed \in BOOLEAN

\* The packets of a package, in order, but for those nobody reads.
Reads(c) == FlattenSeq([i \in DOMAIN c |-> IF c[i] \in Unread THEN <<>> ELSE <<c[i]>>])

\* Those of all packages sent.
Expected == FlattenSeq([i \in DOMAIN sent |-> Reads(content[sent[i]])])

\* With one write at a time, and until one fails, the other end reads the packets
\* in the order they were written, each once and whole.
PacketsInOrder == ~overlap /\ ~failed => IsPrefix(handled, Expected)

\* The reader loses its place only after two writes went on at once, a write
\* failed, or a packet was not read to its end.
MisreadOnlyAfter ==
  misread => overlap \/ failed \/ \E k \in ToSet(sent) : ToSet(content[k]) \cap Unread # {}

\* What nobody reads of a packet moves the packets after it, but not the
\* packages: the size word of a package is read where it was written.
PackagesFramed ==
  ~overlap /\ ~failed /\ reading = "size" /\ wire # <<>> => wire[1][1] = "word"

\* A packet left between two packages belongs to one that was not read.
NothingLeft ==
  ~overlap /\ ~failed /\ ~misread => \A i \in DOMAIN inBuf : inBuf[i][1] \in Unread

\* What the reader makes of the wire is what was written, or it is known why not.
InStep == PacketsInOrder /\ MisreadOnlyAfter /\ PackagesFramed /\ NothingLeft
==============================================================================
