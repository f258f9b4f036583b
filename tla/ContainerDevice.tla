--------------------------- MODULE ContainerDevice ---------------------------
(***************************************************************************)
(* The device of common/rrpc/container_device.hpp: a container of elements *)
(* read and written at a position, by one thread.                          *)
(***************************************************************************)
EXTENDS Integers, Sequences, FiniteSetsExt

CONSTANTS
  Elem,      \* elements
  MaxLen,    \* bound on the container and on the distance of a seek
  MaxWrite,  \* bound on one write
  Old        \* what the container may hold when the device is made

DeviceAssumption == Old \subseteq Seq(Elem) /\ MaxLen \in Nat /\ MaxWrite \in Nat

VARIABLES
  container,  \* container_
  pos,        \* pos_
  got,        \* what the last read() copied
  file,       \* history: what a file would hold after the same calls (one that
              \* appends what is written outside it)
  crossed,    \* history: a write began inside the container and ended outside
  outside,    \* history: a seek left the container
  unset,      \* history: a seek was made from the current position
  undefined   \* a read was made outside the container

vars == <<container, pos, got, file, crossed, outside, unset, undefined>>

F == INSTANCE File WITH file <- container, at <- pos

Init ==
  /\ container \in Old
  /\ pos = 0
  /\ got = <<>>
  /\ file = container
  /\ crossed = FALSE
  /\ outside = FALSE
  /\ unset = FALSE
  /\ undefined = FALSE

Size == Len(container)

\* Fault: what is written inside the container is inserted.
WrittenInserts(s) ==
  [container |-> SubSeq(container, 1, pos) \o s \o SubSeq(container, pos + 1, Size),
   pos |-> pos + Len(s)]

\* What write() leaves: the elements that fit replace those from pos_ on; when
\* some do not fit, all of s is inserted at the end.
Written(s) ==
  LET amt == IF pos \in 0 .. Size - 1 THEN Min({Len(s), Size - pos}) ELSE 0
      front == F!Overwrite(container, pos, SubSeq(s, 1, amt))
  IN  IF amt < Len(s) THEN LET c == (IF amt = 0 THEN container ELSE front) \o s
                           IN  [container |-> c, pos |-> Len(c)]
      ELSE [container |-> front, pos |-> pos + amt]

Write(s) ==
  LET w == Written(s)
  IN  /\ ~undefined
      /\ Len(w.container) <= MaxLen
      /\ container' = w.container
      /\ pos' = w.pos
      /\ file' = IF pos \in 0 .. Len(file) THEN F!Overwrite(file, pos, s) ELSE file \o s
      /\ crossed' = (crossed \/ (pos \in 0 .. Size - 1 /\ pos + Len(s) > Size))
      /\ UNCHANGED <<got, outside, unset, undefined>>

\* Fault: the position moves by what was asked for.
ReadAdvances(n) ==
  /\ ~undefined
  /\ got' = SubSeq(container, pos + 1, Min({pos + n, Size}))
  /\ pos' = pos + n
  /\ UNCHANGED <<container, file, crossed, outside, unset, undefined>>

\* read(): at the end nothing is copied and -1 returned.  From outside the
\* container it copies a range that is none.
Read(n) ==
  /\ ~undefined
  /\ \/ /\ pos \in 0 .. Size
        /\ got' = SubSeq(container, pos + 1, Min({pos + n, Size}))
        /\ pos' = pos + Len(got')
        /\ UNCHANGED undefined
     \/ /\ pos \notin 0 .. Size
        /\ undefined' = TRUE
        /\ UNCHANGED <<pos, got>>
  /\ UNCHANGED <<container, file, crossed, outside, unset>>

\* seek(): cur adds to a variable that was not set, so any position may come
\* out; nothing is checked.
SeekTo(off, way) ==
  CASE way = "beg" -> {off}
    [] way = "cur" -> -1 .. MaxLen + 1
    [] way = "end" -> {Size + off}

Seek(off, way) ==
  /\ ~undefined
  /\ pos' \in SeekTo(off, way)
  /\ outside' = (outside \/ pos' \notin 0 .. Size)
  /\ unset' = (unset \/ way = "cur")
  /\ UNCHANGED <<container, got, file, crossed, undefined>>

Next ==
  \/ \E n \in 1 .. MaxWrite : Read(n) \/ \E s \in [1 .. n -> Elem] : Write(s)
  \/ \E off \in -MaxLen .. MaxLen, way \in {"beg", "cur", "end"} : Seek(off, way)

Spec == Init /\ [][Next]_vars

------------------------------------------------------------------------------
(* Properties.                                                             *)

TypeOK ==
  /\ container \in Seq(Elem)
  /\ pos \in Int
  /\ got \in Seq(Elem)
  /\ file \in Seq(Elem)
  /\ {crossed, outside, unset, undefined} \subseteq BOOLEAN

\* The device tears a file only when a write crosses the end of the container:
\* other writes, even after a seek outside, leave what a file would hold.
TornOnlyCrossing == ~crossed => container = file

\* Unless a seek moves it out, the position stays within the container, and
\* read() does what it should.
StaysInside == ~outside => pos \in 0 .. Size /\ ~undefined

\* The call that is made does to the device what the same call does to a file.
AsFile ==
  /\ \A n \in 1 .. MaxWrite : Read(n) => F!Read(n)
  /\ \A n \in 1 .. MaxWrite : \A s \in [1 .. n -> Elem] : Write(s) => F!Write(s)
  /\ \A off \in -MaxLen .. MaxLen, way \in {"beg", "cur", "end"} :
        Seek(off, way) => F!Seek(off, way)

\* The device implements a file for a careful program, call by call: until a write
\* crosses the end or a seek leaves the container or is one from the current
\* position.  (A step that moves nothing is a stutter of the file; said first, it
\* spares TLC the evaluation of the rest.)
Moves == ~UNCHANGED <<container, pos, got>>
FileSpec ==
  /\ F!Init
  /\ [][Moves /\ ~crossed' /\ ~outside' /\ ~unset' => F!Next /\ AsFile]_<<container, pos, got>>

\* The device is a file, and where it is not, only the fault of what was done shows.
DeviceIsFile == FileSpec /\ [](TornOnlyCrossing /\ StaysInside)
==============================================================================
