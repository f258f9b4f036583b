-------------------------------- MODULE MCData --------------------------------
(***************************************************************************)
(* One instance for TLC of what the library does with data, none of which  *)
(* waits for an answer: the packages, the archives, the byte order, the    *)
(* container device and the compile-time sequences.  In a behaviour one    *)
(* part moves; the others stay where Init puts them.                       *)
(***************************************************************************)
EXTENDS Integers, Sequences, TLC

CONSTANTS request, response, ignored, k1, k2, k3
CONSTANTS Pkg, Packet, Args, Response, Unread         \* Package
CONSTANTS Base, WordBytes, MaxLength,                 \* Archive
          Kinds, Values(_), MaxValues
CONSTANTS Host, Numbers, None                         \* ByteOrder (and Package)
CONSTANTS Elem, MaxLen, MaxWrite, Old                 \* ContainerDevice
CONSTANTS MaxSize, MaxDist, SizeWidth                 \* IntegerSequence

VARIABLES
  part,   \* the part that moves
  sizes, body, lastSize, packageSize, sent, content, ops, wire, reading, readSize, inBuf,
  handled, misread, overlap, failed,
  schema, written, stream, arrived, next, readBack, eof, shifted, early, stray,
  native, memory, order, number,
  container, pos, got, file, crossed, outside, unset, undefined,
  goal, inst, seen, type, state

package == <<sizes, body, lastSize, packageSize, sent, content, ops, wire, reading, readSize,
             inBuf, handled, misread, overlap, failed>>
archive == <<schema, written, stream, arrived, next, readBack, eof, shifted, early, stray>>
bytes == <<native, memory, order, number>>
device == <<container, pos, got, file, crossed, outside, unset, undefined>>
sequence == <<goal, inst, seen, type, state>>

P == INSTANCE Package
A == INSTANCE Archive WITH sent <- written
B == INSTANCE ByteOrder
D == INSTANCE ContainerDevice
S == INSTANCE IntegerSequence WITH Width <- SizeWidth

ASSUME DataAssumption ==
  /\ P!PackageAssumption /\ A!ArchiveAssumption /\ B!ByteOrderAssumption
  /\ D!DeviceAssumption /\ S!SequenceAssumption

Init ==
  /\ part \in {"package", "archive", "order", "device", "sequence"}
  /\ P!Init
  /\ A!Init /\ (part = "archive" \/ schema = [i \in 1 .. MaxValues |-> "fixed"])
  /\ B!Init /\ (part = "order" \/ native = [h \in Host |-> "little"])
  /\ D!Init /\ (part = "device" \/ container = <<>>)
  /\ S!Init /\ (part = "sequence" \/ goal = [of |-> "partial_sum", seq |-> <<1>>])

Next ==
  /\ UNCHANGED part
  /\ \/ part = "package" /\ P!Next /\ UNCHANGED <<archive, bytes, device, sequence>>
     \/ part = "archive" /\ A!Next /\ UNCHANGED <<package, bytes, device, sequence>>
     \/ part = "order" /\ B!Next /\ UNCHANGED <<package, archive, device, sequence>>
     \/ part = "device" /\ D!Next /\ UNCHANGED <<package, archive, bytes, sequence>>
     \/ part = "sequence" /\ S!Next /\ UNCHANGED <<package, archive, bytes, device>>

Spec == Init /\ [][Next]_<<part, package, archive, bytes, device, sequence>>

------------------------------------------------------------------------------
(* The constants: a request, a response and a request nobody reads;        *)
(* numbers of eight bits in two bytes, groups of three, so that the last   *)
(* group is cut as with 64 bits in groups of seven.                        *)

MCArgs == (request :> 2) @@ (response :> 1) @@ (ignored :> 1)

\* Only Package takes package objects, and they are interchangeable.
Symmetry == Permutations(Pkg)

\* The numbers at which the length changes, and those with many bits set.
MCValues(k) ==
  CASE k = "unsigned" -> {8, 255}
    [] k = "signed" -> {-128}
    [] k = "enum" -> {127}
    [] k = "uenum" -> {2}
    [] k = "fixed" -> {255}
    [] k = "float" -> {255}
    [] k = "string" -> {<<>>, <<3, 15>>}
    [] k = "bytes" -> {<<3>>, <<15>>}
    [] k = "wstring" -> {<<63>>}

MCNumbers == {<<0, 1>>, <<255, 128>>, <<1, 2, 3, 4>>, <<1, 2, 3, 4, 5, 6, 7, 8>>}

MCOld == {<<>>, <<0>>, <<0, 1>>}

------------------------------------------------------------------------------
(* The properties of the parts.                                            *)

\* The types of the variables of Package, Archive and ContainerDevice.
TypeOK == P!TypeOK /\ A!TypeOK /\ D!TypeOK

\* The reader of connection.hpp is in step with the writer of package.hpp, or it
\* is known why not: the packets arrive in order and whole, only overlapping or
\* failed writes and packets nobody reads bring it out of step, the size word of
\* a package is read where it was written, and nothing else is left behind.
InStep == P!InStep

\* decode.hpp reads the values encode.hpp wrote (enums of unsigned type doubled),
\* unless it begins one before all of it has arrived or the value is a float, a
\* wide string or a string that is not plain and read as a vector of numbers; until
\* then io::get never meets the end, and no shift is too wide.
ReaderRight == A!ReaderRight

\* However often reorder() of conversion.hpp is applied to a number, on hosts of
\* either order and by either form, it keeps the number.
NumberKept == B!NumberKept

\* container_device implements a file, call by call, until a write crosses the end
\* or a seek leaves the container or is one from the current position.  What the
\* last does is a wrong position and no more; unless a write crosses the end the
\* contents are those of a file, and unless a seek leaves it the position is inside.
DeviceIsFile == D!DeviceIsFile

\* A shift of a seq that compiles is the rotation it names, unless it is one by
\* whole turns, which may not compile, or be a rotation by 2^Width; push_ladder and
\* partial_sum give ladder and sums.
SequencesRight == S!SequencesRight
==============================================================================
