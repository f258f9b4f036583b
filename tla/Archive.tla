------------------------------- MODULE Archive -------------------------------
(***************************************************************************)
(* The archives of common/rrpc (encode.hpp, decode.hpp, fixed.hpp and the  *)
(* trivial_binary archives): one side writes values, the other reads them  *)
(* from the bytes that have arrived.  The bits of a byte are a group and   *)
(* the high bit.                                                           *)
(***************************************************************************)
EXTENDS Integers, Sequences, SequencesExt

CONSTANTS
  Base,        \* how many values a group of bits has: 2^7 in the code
  WordBytes,   \* how many bytes a number has: 8
  MaxLength,   \* how many elements of a vector there is memory for
  Kinds,       \* types of the values that are exchanged
  Values(_),   \* values of a type that are tried
  MaxValues    \* bound on the number of values

Byte == 2 * Base

\* The powers of b.
Power(b) == LET p[n \in Nat] == IF n = 0 THEN 1 ELSE b * p[n - 1] IN p

Mod == Power(Byte)[WordBytes]
WideBytes == 2   \* bytes of a wchar_t

\* What the types can hold.  An "enum" has a signed underlying type, a "uenum" an
\* unsigned one.  No decoder reads a std::string, so what is written as one is read
\* as a vector of elements the program chooses: "string" of fixed<char>, "bytes" of
\* unsigned char, and "wstring" (a std::wstring) of fixed<wchar_t>.
Strings == {"string", "bytes", "wstring"}
Holds(k) ==
  CASE k \in {"unsigned", "fixed", "float"} -> 0 .. Mod - 1
    [] k = "uenum" -> 0 .. (Mod - 1) \div 2
    [] k \in {"signed", "enum"} -> -(Mod \div 2) .. Mod \div 2 - 1
    [] k \in {"string", "bytes"} -> {s \in Seq(0 .. Byte - 1) : Len(s) <= MaxLength}
    [] k = "wstring" -> {s \in Seq(0 .. Power(Byte)[WideBytes] - 1) : Len(s) <= MaxLength}

ArchiveAssumption ==
  /\ Base \in Nat \ {0, 1} /\ WordBytes \in Nat \ {0} /\ MaxValues \in Nat
  /\ MaxLength \in 0 .. Mod - 1
  /\ Kinds \subseteq {"unsigned", "signed", "enum", "uenum", "fixed", "float"} \cup Strings
  /\ \A k \in Kinds : \A v \in Values(k) : v \in Holds(k)

VARIABLES
  schema,     \* the types both sides go through
  sent,       \* the values written
  stream,     \* the bytes written
  arrived,    \* how many of them the reader can see
  next,       \* src_: the next byte it reads
  readBack,   \* what it read
  eof,        \* history: it met the end of what had arrived
  shifted,    \* history: a value was shifted by its width or more
  early,      \* history: it began a value that had not arrived
  stray       \* history: a value was written or read whose reader reads another
              \* number of bytes

vars == <<schema, sent, stream, arrived, next, readBack, eof, shifted, early, stray>>

Init ==
  /\ schema \in [1 .. MaxValues -> Kinds]
  /\ sent = <<>>
  /\ stream = <<>>
  /\ arrived = 0
  /\ next = 1
  /\ readBack = <<>>
  /\ eof = FALSE /\ shifted = FALSE /\ early = FALSE /\ stray = FALSE

------------------------------------------------------------------------------
(* Writing.                                                                *)

\* Fault: the last group has the high bit too.
VarUnended ==
  LET v[n \in 0 .. Mod - 1] == <<(n % Base) + Base>> \o IF n < Base THEN <<>> ELSE v[n \div Base]
  IN  v

\* Groups from the low one up, each but the last with the high bit set.
Var ==
  LET v[n \in 0 .. Mod - 1] == IF n < Base THEN <<n>> ELSE <<(n % Base) + Base>> \o v[n \div Base]
  IN  v

\* (v << 1) ^ (v >> (bits - 1))
ZigZag(n) == IF n >= 0 THEN 2 * n ELSE -2 * n - 1

\* An integer of n bytes, little endian.
Fixed(v, n) ==
  LET rest[i \in 0 .. n] == IF i = 0 THEN v ELSE rest[i - 1] \div Byte
  IN  [i \in 1 .. n |-> rest[i - 1] % Byte]

\* The size, then as many bytes as the size says: of a wide string only a part.
SaveString(s, charBytes) ==
  Var[Len(s)] \o SubSeq(FlattenSeq([i \in DOMAIN s |-> Fixed(s[i], charBytes)]), 1, Len(s))

Encode(k, v) ==
  CASE k = "unsigned" -> Var[v]
    [] k \in {"signed", "enum", "uenum"} -> Var[ZigZag(v)]
    [] k \in {"fixed", "float"} -> Fixed(v, WordBytes)
    [] k \in {"string", "bytes"} -> SaveString(v, 1)
    [] k = "wstring" -> SaveString(v, WideBytes)

\* What is not read as it is written: a float is not read at all, of a wide string
\* a part is written, and an element that is read as a number takes the high bit
\* of a character for the sign that more bytes follow.
Strays(k, v) ==
  \/ k = "float"
  \/ k = "wstring" /\ v # <<>>
  \/ k = "bytes" /\ \E i \in DOMAIN v : v[i] >= Base

\* An enum is saved by boost as an int.
Save ==
  LET k == schema[Len(sent) + 1]
  IN  /\ Len(sent) < MaxValues
      /\ \E v \in Values(k) :
           /\ sent' = Append(sent, v)
           /\ stream' = stream \o Encode(k, v)
           /\ stray' = (stray \/ Strays(k, v))
      /\ UNCHANGED <<schema, arrived, next, readBack, eof, shifted, early>>

\* Bytes arrive, in order, in pieces of any length.
Arrive ==
  /\ arrived' \in arrived + 1 .. Len(stream)
  /\ UNCHANGED <<schema, sent, stream, next, readBack, eof, shifted, early, stray>>

------------------------------------------------------------------------------
(* Reading: each gives the value, the byte after it, whether it met the end *)
(* and whether it shifted too far.                                         *)

\* What io::get gives: -1, all bits set, at the end.
Get(p) == IF p <= arrived THEN stream[p] ELSE -1

\* The first byte from p on without the high bit, or the end.
LastGroup(p) ==
  CHOOSE i \in p .. arrived + 1 : Get(i) < Base /\ \A j \in p .. i - 1 : Get(j) >= Base

\* Fault: a group is taken without masking the high bit.
UnmaskedVar(p, m) ==
  LET q == LastGroup(p)
      v[i \in p - 1 .. q] == IF i = p - 1 THEN 0 ELSE v[i - 1] + Get(i) * Power(Base)[i - p]
  IN  [value |-> v[q] % m, next |-> Min({q, arrived}) + 1,
       eof |-> q > arrived, shifted |-> Power(Base)[q - p] >= Mod]

\* The groups, each shifted by those before it, into a type of m values; Base ^ n
\* >= Mod is a shift by the width of the widest number or more.
ReadVar(p, m) ==
  LET q == LastGroup(p)
      v[i \in p - 1 .. q] == IF i = p - 1 THEN 0 ELSE v[i - 1] + (Get(i) % Base) * Power(Base)[i - p]
  IN  [value |-> v[q] % m, next |-> Min({q, arrived}) + 1,
       eof |-> q > arrived, shifted |-> Power(Base)[q - p] >= Mod]

\* (v >> 1) ^ -(v & 1)
UnZigZag(n) == IF n % 2 = 0 THEN n \div 2 ELSE -((n + 1) \div 2)

\* The number of these bytes.
Number(bytes) ==
  LET v[i \in 0 .. Len(bytes)] == IF i = 0 THEN 0 ELSE v[i - 1] + bytes[i] * Power(Byte)[i - 1]
  IN  v[Len(bytes)]

\* An integer of w bytes; io::read gives what there is, and the other bytes stay
\* as they were, 0 here.
ReadFixed(p, w) ==
  LET b == SubSeq(stream, p, Min({p + w - 1, arrived}))
  IN  [value |-> Number(b), next |-> p + Len(b), eof |-> Len(b) < w, shifted |-> FALSE]

\* An element of the vector that is read.
Element(k, p) ==
  CASE k = "string" -> ReadFixed(p, 1)
    [] k = "bytes" -> ReadVar(p, Byte)
    [] k = "wstring" -> ReadFixed(p, WideBytes)

\* A vector: its size, then one element after the other.  When there is no memory
\* for that many, resize() throws.
ReadVector(k, p) ==
  LET size == ReadVar(p, Mod)
      read[n \in 0 .. size.value] ==
        IF n = 0 THEN [size EXCEPT !.value = <<>>]
        ELSE LET r == read[n - 1]
                 e == Element(k, r.next)
             IN  [value |-> Append(r.value, e.value), next |-> e.next,
                  eof |-> r.eof \/ e.eof, shifted |-> r.shifted \/ e.shifted]
  IN  IF size.value > MaxLength THEN [size EXCEPT !.value = <<>>] ELSE read[size.value]

\* An enum is read as its underlying type, and a float not at all.
Decode(k, p) ==
  CASE k \in {"unsigned", "uenum"} -> ReadVar(p, Mod)
    [] k \in {"signed", "enum"} -> [ReadVar(p, Mod) EXCEPT !.value = UnZigZag(@)]
    [] k = "fixed" -> ReadFixed(p, WordBytes)
    [] k = "float" -> [value |-> 0, next |-> p, eof |-> FALSE, shifted |-> FALSE]
    [] k \in Strings -> ReadVector(k, p)

\* The byte the first n values written end at.
End(n) == Len(FlattenSeq([i \in 1 .. n |-> Encode(schema[i], sent[i])]))

Load ==
  LET n == Len(readBack) + 1
      r == Decode(schema[n], next)
  IN  /\ n <= MaxValues
      /\ readBack' = Append(readBack, r.value)
      /\ next' = r.next
      /\ eof' = (eof \/ r.eof)
      /\ shifted' = (shifted \/ r.shifted)
      /\ early' = (early \/ n > Len(sent) \/ (n <= Len(sent) /\ arrived < End(n)))
      /\ stray' = (stray \/ schema[n] = "float")
      /\ UNCHANGED <<schema, sent, stream, arrived>>

Next == Save \/ Arrive \/ Load

Spec == Init /\ [][Next]_vars

------------------------------------------------------------------------------
(* Properties.                                                             *)

TypeOK ==
  /\ schema \in [1 .. MaxValues -> Kinds]
  /\ stream \in Seq(0 .. Byte - 1)
  /\ arrived \in 0 .. Len(stream)
  /\ next \in 1 .. arrived + 1
  /\ {eof, shifted, early, stray} \subseteq BOOLEAN

\* What comes back of value v: an enum of unsigned type is written with the sign
\* bit of an int and read without it, so that it comes back doubled.
Returned(k, v) == IF k = "uenum" THEN 2 * v ELSE v

\* The reader gets the values that were written, enums of unsigned type doubled,
\* and stands after the last of them, as long as it begins none before all its
\* bytes are there, and none is read as another number of bytes.
RoundTrip ==
  ~early /\ ~stray =>
    /\ Len(readBack) <= Len(sent)
    /\ \A i \in 1 .. Len(readBack) : readBack[i] = Returned(schema[i], sent[i])
    /\ next = End(Len(readBack)) + 1

\* The end of the stream is met by every read that begins too early, and by no
\* other: TODO: eof and TODO: size not match in decode.hpp are about these.
EofIsEarly == ~stray => (eof <=> early)

\* No reader that is in step shifts a value by its width, which is undefined.
ShiftInRange == shifted => stray \/ early

\* The reader is right, or it began too early, or the type was one of the strays.
ReaderRight == RoundTrip /\ EofIsEarly /\ ShiftInRange
==============================================================================
