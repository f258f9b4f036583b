------------------------ MODULE DataProofs ------------------------
(***************************************************************************)
(* Proofs about the data the program reads and writes, for values and      *)
(* programs of any length: the container device and the file it stands     *)
(* for, the numbers the byte orders exchange, the packages of calls that a *)
(* connection frames, and the values the archives encode and decode.       *)
(*                                                                         *)
(* DeviceInv says where the device stands in its container; the rest of    *)
(* the refinement is what an overwrite leaves. NumberKept has no state of  *)
(* its own: the half of a number the loop of reorder has exchanged is the  *)
(* invariant, by induction over the loop. InStep needs to know what the    *)
(* reader has still to read: PackageInv says that the bytes under way are  *)
(* the frames of packages that were sent, and that what was handled with   *)
(* what these packages hold is what was to be read. ArchiveInv says the    *)
(* same of values: their bytes lie one behind the other, and the reader,   *)
(* with the first of them, stands behind the last of these.                *)
(***************************************************************************)
EXTENDS MCData, SequenceLemmas

DeviceInv == D!TypeOK /\ D!TornOnlyCrossing /\ D!StaysInside

------------------------------------------------------------------------------
(* What is written where.                                                  *)

LEMMA MaxMinOfTwo ==
  ASSUME NEW a \in Int, NEW b \in Int
  PROVE  /\ D!Max({a, b}) = IF a >= b THEN a ELSE b
         /\ D!Min({a, b}) = IF a <= b THEN a ELSE b
         /\ D!F!Max({a, b}) = D!Max({a, b}) /\ D!F!Min({a, b}) = D!Min({a, b})
<1>1. D!Max({a, b}) = IF a >= b THEN a ELSE b
  BY DEF D!Max
<1>2. D!Min({a, b}) = IF a <= b THEN a ELSE b
  BY DEF D!Min
<1>3. D!F!Max({a, b}) = D!Max({a, b}) /\ D!F!Min({a, b}) = D!Min({a, b})
  BY DEF D!Max, D!Min, D!F!Max, D!F!Min
<1> QED BY <1>1, <1>2, <1>3

LEMMA OverwriteIs ==
  ASSUME NEW f \in Seq(Elem), NEW p \in 0 .. Len(f), NEW s \in Seq(Elem)
  PROVE  /\ D!F!Overwrite(f, p, s) \in Seq(Elem)
         /\ Len(D!F!Overwrite(f, p, s)) = IF Len(f) >= p + Len(s) THEN Len(f) ELSE p + Len(s)
         /\ \A i \in 1 .. Len(D!F!Overwrite(f, p, s)) :
              D!F!Overwrite(f, p, s)[i] = IF i \in p + 1 .. p + Len(s) THEN s[i - p] ELSE f[i]
<1> DEFINE n == IF Len(f) >= p + Len(s) THEN Len(f) ELSE p + Len(s)
           w == [i \in 1 .. n |-> IF i \in p + 1 .. p + Len(s) THEN s[i - p] ELSE f[i]]
<1>1. /\ Len(f) \in Nat /\ Len(s) \in Nat /\ p \in Nat /\ p <= Len(f)
      /\ \A i \in 1 .. Len(f) : f[i] \in Elem
      /\ \A i \in 1 .. Len(s) : s[i] \in Elem
  OBVIOUS
<1>2. n \in Nat
  BY <1>1
<1>3. D!F!Overwrite(f, p, s) = w
  <2> DEFINE m == D!F!Max({Len(f), p + Len(s)})
  <2>1. m = n
    <3> DEFINE b == p + Len(s)
    <3>1. b \in Int /\ Len(f) \in Int
      BY <1>1
    <3> HIDE DEF b
    <3>2. D!F!Max({Len(f), b}) = IF Len(f) >= b THEN Len(f) ELSE b
      <4> DEFINE a == Len(f)
      <4>1. a \in Int
        BY <3>1
      <4> HIDE DEF a
      <4>2. D!F!Max({a, b}) = IF a >= b THEN a ELSE b
        BY <3>1, <4>1, MaxMinOfTwo, Zenon
      <4> QED BY <4>2 DEF a
    <3> QED BY <3>2 DEF b
  <2>2. D!F!Overwrite(f, p, s) = [i \in 1 .. m |-> IF i \in p + 1 .. p + Len(s) THEN s[i - p] ELSE f[i]]
    BY DEF D!F!Overwrite
  <2> HIDE DEF m, n
  <2> QED BY <2>1, <2>2
<1>4. ASSUME NEW i \in 1 .. n
      PROVE  (IF i \in p + 1 .. p + Len(s) THEN s[i - p] ELSE f[i]) \in Elem
  <2>1. CASE i \in p + 1 .. p + Len(s)
    <3>1. i - p \in 1 .. Len(s)
      BY <1>1, <2>1
    <3> QED BY <1>1, <2>1, <3>1
  <2>2. CASE i \notin p + 1 .. p + Len(s)
    <3>1. i \in 1 .. Len(f)
      BY <1>1, <1>2, <1>4, <2>2
    <3> QED BY <1>1, <2>2, <3>1
  <2> QED BY <2>1, <2>2
<1>5. w \in Seq(Elem) /\ Len(w) = n
  <2>1. w \in [1 .. n -> Elem]
    BY <1>4
  <2> QED BY <1>2, <2>1
<1>6. \A i \in 1 .. n : w[i] = IF i \in p + 1 .. p + Len(s) THEN s[i - p] ELSE f[i]
  OBVIOUS
<1> HIDE DEF w
<1> QED BY <1>3, <1>5, <1>6

\* What is written at the end is appended.
LEMMA OverwriteAtEnd ==
  ASSUME NEW f \in Seq(Elem), NEW s \in Seq(Elem)
  PROVE  D!F!Overwrite(f, Len(f), s) = f \o s
<1> DEFINE w == D!F!Overwrite(f, Len(f), s)
<1>1. Len(f) \in Nat /\ Len(s) \in Nat /\ Len(f) \in 0 .. Len(f)
  OBVIOUS
<1>2. /\ w \in Seq(Elem)
      /\ Len(w) = IF Len(f) >= Len(f) + Len(s) THEN Len(f) ELSE Len(f) + Len(s)
      /\ \A i \in 1 .. Len(w) : w[i] = IF i \in Len(f) + 1 .. Len(f) + Len(s) THEN s[i - Len(f)] ELSE f[i]
  BY <1>1, OverwriteIs
<1> HIDE DEF w
<1>3. Len(w) = Len(f) + Len(s)
  BY <1>1, <1>2
<1>4. /\ f \o s \in Seq(Elem) /\ Len(f \o s) = Len(f) + Len(s)
      /\ \A i \in 1 .. Len(f) + Len(s) : (f \o s)[i] = IF i <= Len(f) THEN f[i] ELSE s[i - Len(f)]
  BY ConcatProperties
<1>5. \A i \in 1 .. Len(w) : w[i] = (f \o s)[i]
  BY <1>1, <1>2, <1>3, <1>4
<1> QED BY <1>2, <1>3, <1>4, <1>5, SeqEqual, Zenon DEF w

LEMMA PrefixIs ==
  ASSUME NEW s \in Seq(Elem), NEW n \in 0 .. Len(s)
  PROVE  SubSeq(s, 1, n) \in Seq(Elem) /\ Len(SubSeq(s, 1, n)) = n /\ SubSeq(s, 1, Len(s)) = s
<1>1. SubSeq(s, 1, n) \in Seq(Elem) /\ Len(SubSeq(s, 1, n)) = n
  OBVIOUS
<1>2. SubSeq(s, 1, Len(s)) = s
  OBVIOUS
<1> QED BY <1>1, <1>2

\* How much of s fits.
Amount(s) == IF pos \in 0 .. D!Size - 1 THEN D!Min({Len(s), D!Size - pos}) ELSE 0

LEMMA AmountIs ==
  ASSUME D!TypeOK, NEW s \in Seq(Elem)
  PROVE  /\ D!Size \in Nat /\ Amount(s) \in 0 .. Len(s)
         /\ pos \in 0 .. D!Size - 1 =>
              Amount(s) = IF Len(s) <= D!Size - pos THEN Len(s) ELSE D!Size - pos
         /\ pos \notin 0 .. D!Size - 1 => Amount(s) = 0
<1>1. D!Size \in Nat /\ Len(s) \in Nat /\ pos \in Int
  BY DEF D!TypeOK, D!Size
<1>2. CASE pos \in 0 .. D!Size - 1
  <2>1. D!Min({Len(s), D!Size - pos}) = IF Len(s) <= D!Size - pos THEN Len(s) ELSE D!Size - pos
    <3> DEFINE b == D!Size - pos
    <3>1. Len(s) \in Int /\ b \in Int
      BY <1>1
    <3> HIDE DEF b
    <3>2. D!Min({Len(s), b}) = IF Len(s) <= b THEN Len(s) ELSE b
      BY <3>1, MaxMinOfTwo, Zenon
    <3> QED BY <3>2 DEF b
  <2> QED BY <1>1, <1>2, <2>1 DEF Amount
<1>3. CASE pos \notin 0 .. D!Size - 1
  BY <1>1, <1>3 DEF Amount
<1> QED BY <1>2, <1>3

LEMMA WrittenIs ==
  ASSUME NEW s
  PROVE  LET front == D!F!Overwrite(container, pos, SubSeq(s, 1, Amount(s)))
             c == (IF Amount(s) = 0 THEN container ELSE front) \o s
         IN  D!Written(s) = IF Amount(s) < Len(s) THEN [container |-> c, pos |-> Len(c)]
                          ELSE [container |-> front, pos |-> pos + Amount(s)]
BY DEF D!Written, Amount

LEMMA WrittenType ==
  ASSUME D!TypeOK, NEW s \in Seq(Elem), Len(s) > 0
  PROVE  D!Written(s).container \in Seq(Elem) /\ D!Written(s).pos \in Int
         /\ (pos \in 0 .. D!Size => D!Written(s).pos \in 0 .. Len(D!Written(s).container))
<1> DEFINE a == Amount(s)
           t == SubSeq(s, 1, a)
           front == D!F!Overwrite(container, pos, t)
           base == IF a = 0 THEN container ELSE front
           c == base \o s
<1>1. D!Size \in Nat /\ a \in 0 .. Len(s) /\ pos \in Int /\ Len(s) \in Nat /\ container \in Seq(Elem)
  BY AmountIs DEF D!TypeOK
<1>2. t \in Seq(Elem) /\ Len(t) = a
  BY <1>1, PrefixIs
<1>3. a > 0 => pos \in 0 .. D!Size - 1 /\ pos + a <= D!Size
  BY <1>1, AmountIs
<1> HIDE DEF a, t
<1>4. a > 0 => front \in Seq(Elem) /\ Len(front) = D!Size
  <2> SUFFICES ASSUME a > 0 PROVE front \in Seq(Elem) /\ Len(front) = D!Size
    OBVIOUS
  <2>1. pos \in 0 .. Len(container) /\ Len(container) >= pos + Len(t)
    BY <1>1, <1>2, <1>3 DEF D!Size
  <2> QED BY <1>1, <1>2, <2>1, OverwriteIs DEF D!Size
<1>5. base \in Seq(Elem) /\ c \in Seq(Elem) /\ Len(c) \in Nat
  BY <1>1, <1>4
<1>6. D!Written(s) = IF a < Len(s) THEN [container |-> c, pos |-> Len(c)]
                   ELSE [container |-> front, pos |-> pos + a]
  BY WrittenIs DEF a, t
<1> HIDE DEF front, base, c
<1>7. CASE a < Len(s)
  BY <1>1, <1>5, <1>6, <1>7
<1>8. CASE a >= Len(s)
  <2>1. a = Len(s) /\ a > 0
    BY <1>1, <1>8
  <2>2. D!Written(s).container = front /\ D!Written(s).pos = pos + a
    BY <1>1, <1>6, <2>1
  <2> QED BY <1>1, <1>3, <1>4, <2>1, <2>2
<1> QED BY <1>1, <1>7, <1>8

\* A write that does not cross the end does what it does to a file.
LEMMA WrittenInside ==
  ASSUME D!TypeOK, NEW s \in Seq(Elem), Len(s) > 0, pos \in 0 .. D!Size,
         ~(pos \in 0 .. D!Size - 1 /\ pos + Len(s) > D!Size)
  PROVE  D!Written(s) = [container |-> D!F!Overwrite(container, pos, s), pos |-> pos + Len(s)]
<1>1. /\ D!Size \in Nat /\ Amount(s) \in 0 .. Len(s) /\ pos \in Int /\ Len(s) \in Nat
      /\ container \in Seq(Elem) /\ D!Size = Len(container)
  BY AmountIs DEF D!TypeOK, D!Size
<1>2. CASE pos \in 0 .. D!Size - 1
  <2>1. Amount(s) = Len(s)
    BY <1>1, <1>2, AmountIs
  <2>2. SubSeq(s, 1, Amount(s)) = s
    BY <2>1, <1>1, PrefixIs
  <2>3. ~(Amount(s) < Len(s))
    BY <1>1, <2>1
  <2> QED BY <2>1, <2>2, <2>3, WrittenIs, Zenon
<1>3. CASE pos \notin 0 .. D!Size - 1
  <2>1. pos = Len(container) /\ Amount(s) = 0
    BY <1>1, <1>3, AmountIs
  <2>2. D!F!Overwrite(container, pos, s) = container \o s /\ Len(container \o s) = pos + Len(s)
    BY <1>1, <2>1, OverwriteAtEnd
  <2>3. D!Written(s) = [container |-> container \o s, pos |-> Len(container \o s)]
    BY <1>1, <2>1, WrittenIs
  <2> QED BY <2>2, <2>3
<1> QED BY <1>2, <1>3

------------------------------------------------------------------------------
(* IInv is an invariant.                                                   *)

LEMMA InitDeviceInv == ASSUME D!DeviceAssumption PROVE D!Init => DeviceInv
<1> SUFFICES ASSUME D!Init PROVE DeviceInv
  OBVIOUS
<1>1. container \in Seq(Elem) /\ pos = 0 /\ got = <<>> /\ file = container
      /\ crossed = FALSE /\ outside = FALSE /\ unset = FALSE /\ undefined = FALSE
  BY DEF D!Init, D!DeviceAssumption
<1>2. got \in Seq(Elem)
  BY <1>1
<1>3. D!TypeOK
  <2>1. crossed \in BOOLEAN /\ outside \in BOOLEAN /\ unset \in BOOLEAN /\ undefined \in BOOLEAN
    BY <1>1, Zenon
  <2> QED BY <1>1, <1>2, <2>1 DEF D!TypeOK
<1>4. pos \in 0 .. D!Size
  BY <1>1 DEF D!Size
<1> QED BY <1>1, <1>3, <1>4 DEF DeviceInv, D!TornOnlyCrossing, D!StaysInside

\* What the program writes: a sequence, and not an empty one.
LEMMA Argument ==
  ASSUME D!DeviceAssumption, NEW n \in 1 .. MaxWrite, NEW s \in [1 .. n -> Elem]
  PROVE  n \in Nat /\ n > 0 /\ s \in Seq(Elem) /\ Len(s) = n
<1>1. n \in Nat /\ n > 0
  BY DEF D!DeviceAssumption
<1> QED BY <1>1

LEMMA WriteKeepsDeviceInv ==
  ASSUME DeviceInv, NEW s \in Seq(Elem), Len(s) > 0, D!Write(s)
  PROVE  /\ DeviceInv'
         /\ ~crossed' /\ ~outside' => D!F!Write(s)
<1> USE DEF DeviceInv
<1>1. /\ undefined = FALSE /\ container' = D!Written(s).container /\ pos' = D!Written(s).pos
      /\ file' = IF pos \in 0 .. Len(file) THEN D!F!Overwrite(file, pos, s) ELSE file \o s
      /\ crossed' = (crossed \/ (pos \in 0 .. D!Size - 1 /\ pos + Len(s) > D!Size))
      /\ UNCHANGED <<got, outside, unset, undefined>>
  BY DEF D!Write, D!TypeOK
<1>2. /\ container \in Seq(Elem) /\ file \in Seq(Elem) /\ pos \in Int /\ got \in Seq(Elem)
      /\ D!Size = Len(container)
  BY DEF D!TypeOK, D!Size
<1>3. D!TypeOK'
  <2>1. file' \in Seq(Elem)
    <3>1. CASE pos \in 0 .. Len(file)
      BY <1>1, <1>2, <3>1, OverwriteIs
    <3>2. CASE pos \notin 0 .. Len(file)
      BY <1>1, <1>2, <3>2
    <3> QED BY <3>1, <3>2
  <2>2. crossed' \in BOOLEAN /\ outside' \in BOOLEAN /\ unset' \in BOOLEAN
        /\ undefined' \in BOOLEAN
    BY <1>1 DEF D!TypeOK
  <2> QED BY <1>1, <1>2, <2>1, <2>2, WrittenType DEF D!TypeOK
<1>4. D!StaysInside'
  <2>1. pos \in 0 .. D!Size => pos' \in 0 .. Len(container')
    BY <1>1, WrittenType
  <2> QED BY <1>1, <2>1 DEF D!StaysInside, D!Size
<1>5. ASSUME ~crossed', pos \in 0 .. D!Size
      PROVE  /\ container' = D!F!Overwrite(container, pos, s) /\ pos' = pos + Len(s)
             /\ container = file
  <2>1. ~(pos \in 0 .. D!Size - 1 /\ pos + Len(s) > D!Size) /\ ~crossed
    BY <1>1, <1>5, Zenon
  <2>2. D!Written(s) = [container |-> D!F!Overwrite(container, pos, s), pos |-> pos + Len(s)]
    BY <1>5, <2>1, WrittenInside
  <2> QED BY <1>1, <2>1, <2>2 DEF D!TornOnlyCrossing
<1>6. ASSUME ~crossed', pos \notin 0 .. D!Size
      PROVE  container' = container \o s /\ container = file
  <2>1. Amount(s) = 0 /\ Len(s) \in Nat /\ D!Size \in Nat
    BY <1>2, <1>6, AmountIs
  <2>2. D!Written(s) = [container |-> container \o s, pos |-> Len(container \o s)]
    <3>1. Amount(s) < Len(s)
      BY <2>1
    <3> QED BY <2>1, <3>1, WrittenIs
  <2>3. ~crossed
    BY <1>1, <1>6, Zenon
  <2> QED BY <1>1, <2>2, <2>3 DEF D!TornOnlyCrossing
<1>7. D!TornOnlyCrossing'
  <2> SUFFICES ASSUME ~crossed' PROVE container' = file'
    BY DEF D!TornOnlyCrossing
  <2>1. CASE pos \in 0 .. D!Size
    BY <1>1, <1>2, <1>5, <2>1
  <2>2. CASE pos \notin 0 .. D!Size
    BY <1>1, <1>2, <1>6, <2>2, Zenon
  <2> QED BY <2>1, <2>2
<1>8. ASSUME ~crossed', ~outside' PROVE D!F!Write(s)
  <2>1. pos \in 0 .. D!Size
    BY <1>1, <1>8 DEF D!StaysInside
  <2> QED BY <1>1, <1>5, <1>8, <2>1 DEF D!F!Write
<1> QED BY <1>3, <1>4, <1>7, <1>8

LEMMA ReadKeepsDeviceInv ==
  ASSUME DeviceInv, NEW n \in Nat, D!Read(n)
  PROVE  /\ DeviceInv'
         /\ ~crossed' /\ ~outside' => D!F!Read(n)
<1> USE DEF DeviceInv
<1>1. undefined = FALSE /\ UNCHANGED <<container, file, crossed, outside, unset>>
  BY DEF D!Read, D!TypeOK
<1>2. D!Size \in Nat /\ pos \in Int /\ container \in Seq(Elem) /\ D!Size = Len(container) /\ D!Size' = D!Size
  BY <1>1 DEF D!TypeOK, D!Size
<1>3. CASE pos \in 0 .. D!Size
  <2>1. got' = SubSeq(container, pos + 1, D!Min({pos + n, D!Size})) /\ pos' = pos + Len(got')
        /\ undefined' = FALSE
    BY <1>1, <1>3, Zenon DEF D!Read
  <2> DEFINE m == D!Min({pos + n, D!Size})
  <2>2. m \in Nat /\ m <= D!Size /\ pos <= m
    <3> DEFINE b == pos + n
    <3>1. b \in Int /\ D!Size \in Int
      BY <1>2
    <3> HIDE DEF b
    <3>2. D!Min({b, D!Size}) = IF b <= D!Size THEN b ELSE D!Size
      BY <3>1, MaxMinOfTwo
    <3>3. m = IF pos + n <= D!Size THEN pos + n ELSE D!Size
      BY <3>2 DEF b
    <3> QED BY <1>2, <1>3, <3>3
  <2> HIDE DEF m
  <2>3. got' \in Seq(Elem) /\ Len(got') = m - pos
    <3>1. \A i \in pos + 1 .. m : container[i] \in Elem
      BY <1>2, <1>3, <2>2
    <3>2. got' = SubSeq(container, pos + 1, m)
      BY <2>1 DEF m
    <3>3. pos + 1 \in 1 .. Len(container) + 1 /\ m \in pos .. Len(container)
      BY <1>2, <1>3, <2>2
    <3>4. SubSeq(container, pos + 1, m) \in Seq(Elem)
      BY <1>2, <3>3
    <3>5. Len(SubSeq(container, pos + 1, m)) = m - pos
      BY <1>2, <1>3, <2>2, <3>3
    <3> QED BY <3>2, <3>4, <3>5
  <2>4. pos' \in 0 .. D!Size'
    BY <1>2, <1>3, <2>1, <2>2, <2>3
  <2>5. DeviceInv'
    <3>1. D!TypeOK'
      <4>1. crossed' \in BOOLEAN /\ outside' \in BOOLEAN /\ unset' \in BOOLEAN
        /\ undefined' \in BOOLEAN
        BY <1>1, <2>1, Zenon DEF D!TypeOK
      <4>2. container' \in Seq(Elem) /\ file' \in Seq(Elem) /\ pos' \in Int
        BY <1>1, <1>2, <2>4 DEF D!TypeOK
      <4> QED BY <2>3, <4>1, <4>2 DEF D!TypeOK
    <3>2. D!TornOnlyCrossing' /\ D!StaysInside'
      BY <1>1, <1>2, <2>1, <2>4, Zenon DEF D!TornOnlyCrossing, D!StaysInside
    <3> QED BY <3>1, <3>2
  <2>6. D!F!Read(n)
    <3> DEFINE b == pos + n
    <3>1. b \in Int /\ D!Size \in Int
      BY <1>2
    <3> HIDE DEF b
    <3>2. D!F!Min({b, D!Size}) = D!Min({b, D!Size})
      BY <3>1, MaxMinOfTwo, Zenon
    <3>3. got' = SubSeq(container, pos + 1, D!F!Min({pos + n, Len(container)}))
      BY <1>2, <2>1, <3>2, Zenon DEF b
    <3> QED BY <1>1, <2>1, <3>3, Zenon DEF D!F!Read
  <2> QED BY <2>5, <2>6
<1>4. CASE pos \notin 0 .. D!Size
  <2>1. undefined' = TRUE /\ UNCHANGED <<pos, got>>
    BY <1>4 DEF D!Read
  <2>2. outside = TRUE
    BY <1>4 DEF D!StaysInside, D!TypeOK
  <2> QED BY <1>1, <2>1, <2>2 DEF D!TypeOK, D!TornOnlyCrossing, D!StaysInside
<1> QED BY <1>3, <1>4

LEMMA SeekKeepsDeviceInv ==
  ASSUME D!DeviceAssumption, DeviceInv, NEW off \in -MaxLen .. MaxLen, NEW way \in {"beg", "cur", "end"},
         D!Seek(off, way)
  PROVE  /\ DeviceInv'
         /\ ~outside' /\ ~unset' => /\ off \in -Len(container) .. Len(container)
                                    /\ D!F!Seek(off, way)
<1> USE DEF DeviceInv
<1>1. /\ undefined = FALSE /\ pos' \in D!SeekTo(off, way)
      /\ outside' = (outside \/ pos' \notin 0 .. D!Size)
      /\ unset' = (unset \/ way = "cur")
      /\ UNCHANGED <<container, got, file, crossed, undefined>>
  BY DEF D!Seek, D!TypeOK
<1>2. D!Size \in Nat /\ D!Size' = D!Size /\ D!Size = Len(container)
  BY <1>1 DEF D!TypeOK, D!Size
<1>3. MaxLen \in Nat /\ off \in Int
  BY DEF D!DeviceAssumption
<1>4. pos' \in Int
  <2>1. D!SeekTo(off, way) \subseteq Int
    BY <1>2, <1>3 DEF D!SeekTo
  <2> QED BY <1>1, <2>1
<1>5. outside' \in BOOLEAN /\ unset' \in BOOLEAN
  BY <1>1
<1>6. DeviceInv'
  BY <1>1, <1>2, <1>4, <1>5, Zenon DEF D!TypeOK, D!TornOnlyCrossing, D!StaysInside
<1>7. ASSUME ~outside', ~unset'
      PROVE  off \in -Len(container) .. Len(container) /\ D!F!Seek(off, way)
  <2>1. pos' \in 0 .. Len(container) /\ way # "cur"
    BY <1>1, <1>2, <1>7
  <2>2. CASE way = "beg"
    <3>1. pos' = off
      BY <1>1, <2>2 DEF D!SeekTo
    <3> QED BY <1>1, <1>2, <1>3, <2>1, <2>2, <3>1 DEF D!F!Seek
  <2>3. CASE way = "end"
    <3>1. pos' = Len(container) + off
      BY <1>1, <1>2, <2>3 DEF D!SeekTo
    <3> QED BY <1>1, <1>2, <1>3, <2>1, <2>3, <3>1 DEF D!F!Seek
  <2> QED BY <2>1, <2>2, <2>3
<1> QED BY <1>6, <1>7

LEMMA StepIsFile ==
  ASSUME D!DeviceAssumption, DeviceInv, D!Next
  PROVE  DeviceInv' /\ (~crossed' /\ ~outside' /\ ~unset' => D!F!Next /\ D!AsFile)
<1> DEFINE Careful == ~crossed' /\ ~outside' /\ ~unset'
<1>1. ASSUME NEW n \in 1 .. MaxWrite, D!Read(n)
      PROVE  DeviceInv' /\ (Careful => D!F!Read(n))
  <2>1. n \in Nat
    BY DEF D!DeviceAssumption
  <2> QED BY <1>1, <2>1, ReadKeepsDeviceInv
<1>2. ASSUME NEW n \in 1 .. MaxWrite, NEW s \in [1 .. n -> Elem], D!Write(s)
      PROVE  DeviceInv' /\ (Careful => D!F!Write(s))
  <2>1. s \in Seq(Elem) /\ Len(s) > 0
    BY Argument
  <2> QED BY <1>2, <2>1, WriteKeepsDeviceInv
<1>3. ASSUME NEW off \in -MaxLen .. MaxLen, NEW way \in {"beg", "cur", "end"}, D!Seek(off, way)
      PROVE  /\ DeviceInv'
             /\ Careful => off \in -Len(container) .. Len(container) /\ D!F!Seek(off, way)
  BY <1>3, SeekKeepsDeviceInv
<1>4. DeviceInv'
  BY <1>1, <1>2, <1>3 DEF D!Next
<1>5. Careful => D!AsFile
  BY <1>1, <1>2, <1>3 DEF D!AsFile
<1>6. Careful => D!F!Next
  BY <1>1, <1>2, <1>3 DEF D!Next, D!F!Next
<1> QED BY <1>4, <1>5, <1>6

------------------------------------------------------------------------------
(* The byte order: an even number of bytes is reversed by each form.       *)

LEMMA ReverseIs ==
  ASSUME NEW T, NEW x \in Seq(T)
  PROVE  /\ B!Reverse(x) \in Seq(T) /\ Len(B!Reverse(x)) = Len(x)
         /\ \A i \in 1 .. Len(x) : B!Reverse(x)[i] = x[Len(x) + 1 - i]
         /\ B!Reverse(B!Reverse(x)) = x
<1> DEFINE n == Len(x)
           r == B!Reverse(x)
<1>1. n \in Nat /\ x \in [1 .. n -> T] /\ x = [i \in 1 .. n |-> x[i]]
  OBVIOUS
<1>2. r = [i \in 1 .. n |-> x[(n - i) + 1]]
  BY DEF B!Reverse
<1> HIDE DEF n, r
<1>3. \A i \in 1 .. n : (n - i) + 1 \in 1 .. n /\ (n - i) + 1 = n + 1 - i
  BY <1>1
<1>4. r \in [1 .. n -> T]
  BY <1>1, <1>2, <1>3
<1>5. r \in Seq(T) /\ Len(r) = n
  BY <1>1, <1>4
<1>6. B!Reverse(r) = [i \in 1 .. n |-> r[(n - i) + 1]]
  BY <1>5 DEF B!Reverse
<1>7. \A i \in 1 .. n : r[(n - i) + 1] = x[i]
  <2> SUFFICES ASSUME NEW i \in 1 .. n PROVE r[(n - i) + 1] = x[i]
    OBVIOUS
  <2>1. (n - i) + 1 \in 1 .. n /\ (n - ((n - i) + 1)) + 1 = i
    BY <1>1
  <2> QED BY <1>2, <2>1
<1>8. B!Reverse(r) = x
  BY <1>1, <1>6, <1>7
<1> QED BY <1>2, <1>3, <1>5, <1>8, Zenon DEF n, r

\* The exchanges of reorder(), from the outside in, reverse the bytes.
LEMMA ReorderReverses ==
  ASSUME NEW T, NEW x \in Seq(T), Len(x) % 2 = 0
  PROVE  B!Reorder(x) = B!Reverse(x)
<1> DEFINE n == Len(x)
           m == n \div 2
           y == CHOOSE y : y = [i \in 0 .. m |-> IF i = 0 THEN x
                                                 ELSE B!Exchange(y[i - 1], i, n + 1 - i)]
           h == [i \in 0 .. m |->
                  [j \in 1 .. n |-> IF j <= i \/ j >= n + 1 - i THEN x[n + 1 - j] ELSE x[j]]]
<1>1. /\ n \in Nat /\ m \in Nat /\ n = 2 * m
      /\ x \in [1 .. n -> T] /\ x = [j \in 1 .. n |-> x[j]]
  OBVIOUS
<1>2. B!Reorder(x) = y[m]
  BY DEF B!Reorder
<1>3. B!Reverse(x) = [j \in 1 .. n |-> x[(n - j) + 1]]
  BY DEF B!Reverse
<1> HIDE DEF n, m
<1>4. /\ DOMAIN h = 0 .. m
      /\ \A i \in 0 .. m : /\ DOMAIN h[i] = 1 .. n
                           /\ h[i] = [j \in 1 .. n |-> h[i][j]]
                           /\ \A j \in 1 .. n :
                                h[i][j] = IF j <= i \/ j >= n + 1 - i THEN x[n + 1 - j] ELSE x[j]
  OBVIOUS
<1>5. h[0] = x
  <2>1. 0 \in 0 .. m /\ \A j \in 1 .. n : h[0][j] = x[j]
    BY <1>1, <1>4
  <2> QED BY <1>1, <1>4, <2>1
<1> HIDE DEF h
<1>6. ASSUME NEW i \in 1 .. m PROVE h[i] = B!Exchange(h[i - 1], i, n + 1 - i)
  <2> DEFINE k == n + 1 - i
  <2>1. i \in 0 .. m /\ i - 1 \in 0 .. m /\ i \in 1 .. n /\ k \in 1 .. n /\ i < k
        /\ k \in Int /\ k = n + 1 - i /\ n + 1 - k = i
    BY <1>1
  <2>2. B!Exchange(h[i - 1], i, k) = [[h[i - 1] EXCEPT ![i] = h[i - 1][k]] EXCEPT ![k] = h[i - 1][i]]
    BY DEF B!Exchange
  <2> HIDE DEF k
  <2>3. h[i - 1][i] = x[i] /\ h[i - 1][k] = x[k]
    BY <1>1, <1>4, <2>1
  <2>4. ASSUME NEW j \in 1 .. n
        PROVE  h[i][j] = [[h[i - 1] EXCEPT ![i] = h[i - 1][k]] EXCEPT ![k] = h[i - 1][i]][j]
    <3>1. CASE j = i
      BY <1>1, <1>4, <2>1, <2>3, <3>1
    <3>2. CASE j = k
      BY <1>1, <1>4, <2>1, <2>3, <3>2
    <3>3. CASE j # i /\ j # k
      <4>1. [[h[i - 1] EXCEPT ![i] = h[i - 1][k]] EXCEPT ![k] = h[i - 1][i]][j] = h[i - 1][j]
        BY <1>4, <2>1, <3>3, Zenon
      <4>2. (j <= i \/ j >= n + 1 - i) <=> (j <= i - 1 \/ j >= n + 1 - (i - 1))
        BY <1>1, <2>1, <3>3
      <4> QED BY <1>4, <2>1, <4>1, <4>2
    <3> QED BY <3>1, <3>2, <3>3
  <2>5. h[i] = [j \in 1 .. n |-> [[h[i - 1] EXCEPT ![i] = h[i - 1][k]] EXCEPT ![k] = h[i - 1][i]][j]]
    BY <1>4, <2>1, <2>4, Zenon
  <2>6. DOMAIN [[h[i - 1] EXCEPT ![i] = h[i - 1][k]] EXCEPT ![k] = h[i - 1][i]] = 1 .. n
    BY <1>4, <2>1
  <2> QED BY <2>2, <2>5, <2>6, Zenon DEF k
<1>7. h = [i \in 0 .. m |-> IF i = 0 THEN x ELSE B!Exchange(h[i - 1], i, n + 1 - i)]
  <2>1. \A i \in 0 .. m : h[i] = IF i = 0 THEN x ELSE B!Exchange(h[i - 1], i, n + 1 - i)
    <3> SUFFICES ASSUME NEW i \in 0 .. m
                 PROVE  h[i] = IF i = 0 THEN x ELSE B!Exchange(h[i - 1], i, n + 1 - i)
      OBVIOUS
    <3>1. i = 0 \/ i \in 1 .. m
      BY <1>1
    <3> QED BY <1>5, <1>6, <3>1
  <2>2. h = [i \in 0 .. m |-> h[i]]
    BY <1>4 DEF h
  <2> QED BY <2>1, <2>2, Zenon
<1>8. y = [i \in 0 .. m |-> IF i = 0 THEN x ELSE B!Exchange(y[i - 1], i, n + 1 - i)]
  BY <1>7, Zenon
<1> HIDE DEF y
<1>9. y[0] = h[0]
  BY <1>1, <1>5, <1>8
<1>10. ASSUME NEW i \in 1 .. m, y[i - 1] = h[i - 1] PROVE y[i] = h[i]
  <2>1. y[i] = B!Exchange(y[i - 1], i, n + 1 - i)
    BY <1>1, <1>8
  <2> QED BY <1>6, <1>10, <2>1
<1>11. y[m] = h[m]
  <2>1. \A i \in 1 .. m : y[i - 1] = h[i - 1] => y[i] = h[i]
    BY <1>10
  <2>2. m \in Nat
    BY <1>1
  <2>3. SameSteps(m, y, h)
    BY <1>9, <2>1 DEF SameSteps
  <2>4. \A i \in 0 .. m : y[i] = h[i]
    BY <2>2, <2>3, IterateOnce
  <2> QED BY <2>2, <2>4
<1>12. \A j \in 1 .. n : h[m][j] = x[(n - j) + 1]
  <2> SUFFICES ASSUME NEW j \in 1 .. n PROVE h[m][j] = x[(n - j) + 1]
    OBVIOUS
  <2>1. m \in 0 .. m /\ (j <= m \/ j >= n + 1 - m) /\ n + 1 - j = (n - j) + 1
    BY <1>1
  <2> QED BY <1>4, <2>1
<1>13. h[m] = [j \in 1 .. n |-> h[m][j]]
  <2>1. m \in 0 .. m
    BY <1>1
  <2> QED BY <1>4, <2>1
<1>14. [j \in 1 .. n |-> h[m][j]] = [j \in 1 .. n |-> x[(n - j) + 1]]
  BY ONLY <1>12
<1> QED BY ONLY <1>2, <1>3, <1>11, <1>13, <1>14

LEMMA CopyReverses ==
  ASSUME NEW T, NEW x \in Seq(T)
  PROVE  B!ReorderCopy(x) = B!Reverse(x)
<1>1. \A k \in 1 .. Len(x) : x[Len(x) + 1 - k] = x[(Len(x) - k) + 1]
  <2>1. \A k \in 1 .. Len(x) : Len(x) + 1 - k = (Len(x) - k) + 1
    OBVIOUS
  <2> QED BY <2>1
<1>2. DOMAIN x = 1 .. Len(x)
  OBVIOUS
<1> QED BY <1>1, <1>2 DEF B!ReorderCopy, B!Reverse

\* The order is one of the two, and the bytes are the number's in that order.
OrderInv ==
  /\ native \in [Host -> B!Orders]
  /\ DOMAIN memory = Host /\ DOMAIN order = Host /\ DOMAIN number = Host
  /\ \A h \in Host : memory[h] # None => order[h] \in B!Orders /\ number[h] \in Numbers
  /\ B!NumberKept

Stands(x, o, y) == y = IF o = "big" THEN x ELSE B!Reverse(x)

LEMMA ConvertKeeps ==
  ASSUME B!ByteOrderAssumption, NEW x \in Numbers, NEW n \in B!Orders, NEW o \in B!Orders, NEW y,
         NEW z \in {B!Convert(n, o, y), B!ConvertCopy(n, o, y)}
  PROVE  /\ Stands(x, n, y) => Stands(x, o, z)
         /\ Stands(x, o, y) => Stands(x, n, z)
<1>1. x \in Seq(0 .. 255) /\ Len(x) \in {2, 4, 8}
  BY DEF B!ByteOrderAssumption
<1>2. CASE n = o
  BY <1>2 DEF B!Convert, B!ConvertCopy
<1>3. CASE n # o
  <2>1. z \in {B!Reorder(y), B!ReorderCopy(y)}
    BY <1>3 DEF B!Convert, B!ConvertCopy
  <2>2. ASSUME NEW v \in {x, B!Reverse(x)}, y = v PROVE z = B!Reverse(v)
    <3>1. v \in Seq(0 .. 255) /\ Len(v) = Len(x)
      BY <1>1, ReverseIs
    <3> DEFINE l == Len(v)
    <3>2. l % 2 = 0
      <4>1. l \in {2, 4, 8}
        BY <1>1, <3>1
      <4> HIDE DEF l
      <4> QED BY <4>1
    <3> QED BY <2>1, <2>2, <3>1, <3>2, ReorderReverses, CopyReverses
  <2>3. B!Reverse(B!Reverse(x)) = x
    BY <1>1, ReverseIs
  <2>4. (n = "big" /\ o = "little") \/ (n = "little" /\ o = "big")
    BY <1>3 DEF B!Orders
  <2> QED BY <2>2, <2>3, <2>4 DEF Stands
<1> QED BY <1>2, <1>3

LEMMA StepKeepsOrderInv ==
  ASSUME B!ByteOrderAssumption, OrderInv, B!Next
  PROVE  OrderInv'
<1> USE DEF OrderInv
<1>1. ASSUME NEW h \in Host, NEW x \in Numbers, B!Set(h, x) PROVE OrderInv'
  <2>1. /\ native' = native
        /\ memory' = [memory EXCEPT ![h] = IF native[h] = "big" THEN x ELSE B!Reverse(x)]
        /\ order' = [order EXCEPT ![h] = native[h]]
        /\ number' = [number EXCEPT ![h] = x]
    BY <1>1 DEF B!Set
  <2> QED BY <2>1 DEF B!NumberKept
<1>2. ASSUME NEW h \in Host, NEW o \in B!Orders, B!Reordered(h, o) PROVE OrderInv'
  <2>1. memory[h] # None /\ UNCHANGED <<native, number>>
    BY <1>2 DEF B!Reordered
  <2>2. PICK z \in {B!Convert(native[h], o, memory[h]), B!ConvertCopy(native[h], o, memory[h])} :
          memory' = [memory EXCEPT ![h] = z]
    BY <1>2 DEF B!Reordered
  <2>3. Stands(number[h], order[h], memory[h]) /\ number[h] \in Numbers /\ native[h] \in B!Orders
    BY <2>1 DEF B!NumberKept, Stands
  <2>4. PICK q \in B!Orders : order' = [order EXCEPT ![h] = q] /\ Stands(number[h], q, z)
    <3>1. CASE order[h] = native[h] /\ order' = [order EXCEPT ![h] = o]
      BY <2>3, <3>1, ConvertKeeps, Zenon
    <3>2. CASE order[h] = o /\ order' = [order EXCEPT ![h] = native[h]]
      BY <2>3, <3>2, ConvertKeeps, Zenon
    <3> QED BY <1>2, <3>1, <3>2 DEF B!Reordered
  <2>5. B!NumberKept'
    <3> SUFFICES ASSUME NEW g \in Host, memory'[g] # None
                 PROVE  memory'[g] = IF order'[g] = "big" THEN number'[g] ELSE B!Reverse(number'[g])
      BY DEF B!NumberKept
    <3>1. CASE g = h
      BY <2>1, <2>2, <2>4, <3>1 DEF Stands
    <3>2. CASE g # h
      BY <2>1, <2>2, <2>4, <3>2 DEF B!NumberKept
    <3> QED BY <3>1, <3>2
  <2>6. \A g \in Host : memory'[g] # None => order'[g] \in B!Orders /\ number'[g] \in Numbers
    BY <2>1, <2>2, <2>3, <2>4
  <2> QED BY <2>1, <2>2, <2>4, <2>5, <2>6
<1>3. ASSUME NEW h \in Host, NEW g \in Host, B!Send(h, g) PROVE OrderInv'
  <2>1. /\ native' = native /\ memory[h] # None
        /\ memory' = [memory EXCEPT ![g] = memory[h]]
        /\ order' = [order EXCEPT ![g] = order[h]]
        /\ number' = [number EXCEPT ![g] = number[h]]
    BY <1>3 DEF B!Send
  <2> QED BY <2>1 DEF B!NumberKept
<1> QED BY <1>1, <1>2, <1>3 DEF B!Next

------------------------------------------------------------------------------
(* The packages: what is written of one, and what is read of it.           *)

Unit == P!Number \cup P!Field

UnitsOf == [p \in Packet |-> P!Units(p)]
BodyOf(c) == Spread(UnitsOf, c)

EntriesOf(c) == [i \in DOMAIN c |-> P!SizeEntry(Len(P!Units(c[i])))]
ListOf(c) == Append(EntriesOf(c), P!SizeEntry(0))

\* A package with the packets c, without and with its size word.
PayOf(c) == ListOf(c) \o BodyOf(c)
FrameOf(c) == <<<<"word", Len(PayOf(c))>>>> \o PayOf(c)
FramesOf(q) == Spread([c \in Seq(Packet) |-> FrameOf(c)], q)

\* What the buffers of a write hold.
BufferOf(c) ==
  [b \in {"word", "sizes", "body"} |->
     IF b = "word" THEN <<<<"word", Len(PayOf(c))>>>> ELSE IF b = "sizes" THEN ListOf(c) ELSE BodyOf(c)]

ReadOf == [p \in Packet |-> IF p \in Unread THEN <<>> ELSE <<p>>]
ReadsOf(q) == Spread([c \in Seq(Packet) |-> P!Reads(c)], q)

LEMMA JoinPackets == \A x, y, z \in Seq(Packet) : (x \o y) \o z = x \o (y \o z)
BY Join

LEMMA JoinUnits == \A x, y, z \in Seq(Unit) : (x \o y) \o z = x \o (y \o z)
BY Join

LEMMA SameOperators ==
  /\ \A s : P!FlattenSeq(s) = FlattenSeq(s) /\ P!ToSet(s) = ToSet(s)
  /\ \A s, t : P!IsPrefix(s, t) = IsPrefix(s, t)
BY DEF P!FlattenSeq, FlattenSeq, P!ToSet, ToSet, P!IsPrefix, IsPrefix

LEMMA UnitsAre ==
  ASSUME P!PackageAssumption, NEW p \in Packet
  PROVE  /\ P!Units(p) \in Seq(P!Field)
         /\ Len(P!Units(p)) = P!HeaderLen(p) + Args[p]
         /\ \A j \in 1 .. Len(P!Units(p)) : P!Units(p)[j] = <<p, j>>
         /\ P!HeaderLen(p) \in Nat /\ P!HeaderLen(p) >= 3 /\ Args[p] \in Nat
<1> DEFINE h == P!HeaderLen(p)
           a == Args[p]
           s == P!Serialize(p, 0, h)
           t == P!Serialize(p, h, h + a)
<1>1. h \in Nat /\ h >= 3 /\ a \in Nat
  BY DEF P!PackageAssumption, P!HeaderLen
<1> HIDE DEF h, a
<1>2. s = [k \in 1 .. h |-> <<p, k>>]
  <2>1. s = [k \in 1 .. h - 0 |-> <<p, 0 + k>>]
    BY DEF P!Serialize
  <2> HIDE DEF s
  <2>2. h - 0 = h /\ \A k \in 1 .. h : 0 + k = k
    BY <1>1
  <2> QED BY <2>1, <2>2
<1>3. t = [k \in 1 .. a |-> <<p, h + k>>]
  <2>1. t = [k \in 1 .. (h + a) - h |-> <<p, h + k>>]
    BY DEF P!Serialize
  <2> HIDE DEF t
  <2>2. (h + a) - h = a
    BY <1>1
  <2> QED BY <2>1, <2>2
<1> HIDE DEF s, t
<1>4. s \in Seq(P!Field) /\ Len(s) = h /\ \A k \in 1 .. h : s[k] = <<p, k>>
  <2>1. \A k \in 1 .. h : <<p, k>> \in P!Field
    BY <1>1 DEF P!Field
  <2> QED BY <1>1, <1>2, <2>1
<1>5. t \in Seq(P!Field) /\ Len(t) = a /\ \A k \in 1 .. a : t[k] = <<p, h + k>>
  <2>1. \A k \in 1 .. a : <<p, h + k>> \in P!Field
    BY <1>1 DEF P!Field
  <2>2. t \in [1 .. a -> P!Field] /\ \A k \in 1 .. a : t[k] = <<p, h + k>>
    BY <1>3, <2>1
  <2>3. t \in Seq(P!Field) /\ Len(t) = a
    BY <1>1, <2>2
  <2> QED BY <2>2, <2>3
<1>6. P!Units(p) = s \o t
  BY DEF P!Units, h, a, s, t
<1>7. /\ s \o t \in Seq(P!Field) /\ Len(s \o t) = h + a
      /\ \A j \in 1 .. h + a : (s \o t)[j] = IF j <= h THEN s[j] ELSE t[j - h]
  BY <1>1, <1>4, <1>5, ConcatProperties, Zenon
<1>8. \A j \in 1 .. h + a : (s \o t)[j] = <<p, j>>
  <2> SUFFICES ASSUME NEW j \in 1 .. h + a PROVE (s \o t)[j] = <<p, j>>
    BY Zenon
  <2>1. CASE j <= h
    BY <1>1, <1>4, <1>7, <2>1
  <2>2. CASE ~(j <= h)
    <3>1. j - h \in 1 .. a /\ h + (j - h) = j
      BY <1>1, <2>2
    <3> QED BY <1>5, <1>7, <2>2, <3>1
  <2> QED BY <2>1, <2>2, Zenon
<1> QED BY <1>1, <1>6, <1>7, <1>8, Zenon DEF h, a

LEMMA MapsType ==
  ASSUME P!PackageAssumption
  PROVE  UnitsOf \in [Packet -> Seq(P!Field)] /\ ReadOf \in [Packet -> Seq(Packet)]
<1>1. UnitsOf \in [Packet -> Seq(P!Field)]
  BY UnitsAre DEF UnitsOf
<1>2. ReadOf \in [Packet -> Seq(Packet)]
  <2>1. \A p \in Packet : <<>> \in Seq(Packet) /\ <<p>> \in Seq(Packet)
    OBVIOUS
  <2> QED BY <2>1 DEF ReadOf
<1> QED BY <1>1, <1>2

LEMMA BodyIs ==
  ASSUME P!PackageAssumption, NEW c \in Seq(Packet), NEW p \in Packet
  PROVE  /\ BodyOf(c) \in Seq(P!Field)
         /\ BodyOf(<<>>) = <<>>
         /\ BodyOf(Append(c, p)) = BodyOf(c) \o P!Units(p)
         /\ BodyOf(<<p>> \o c) = P!Units(p) \o BodyOf(c)
<1>1. UnitsOf[p] = P!Units(p)
  BY DEF UnitsOf
<1>2. Spread(UnitsOf, c) \in Seq(P!Field)
  BY MapsType, SpreadType, Zenon
<1>3. Spread(UnitsOf, Append(c, p)) = Spread(UnitsOf, c) \o UnitsOf[p]
  BY MapsType, SpreadAppend, Zenon
<1>4. Spread(UnitsOf, <<p>> \o c) = UnitsOf[p] \o Spread(UnitsOf, c)
  BY MapsType, SpreadCons, ZenonT(30)
<1> QED BY <1>1, <1>2, <1>3, <1>4, SpreadEmpty, Zenon DEF BodyOf

LEMMA ReadsIs ==
  ASSUME P!PackageAssumption, NEW c \in Seq(Packet), NEW p \in Packet
  PROVE  /\ P!Reads(c) \in Seq(Packet)
         /\ P!Reads(<<>>) = <<>>
         /\ P!Reads(<<p>> \o c) = ReadOf[p] \o P!Reads(c)
<1>1. ASSUME NEW d \in Seq(Packet) PROVE P!Reads(d) = Spread(ReadOf, d)
  <2>1. DOMAIN d = 1 .. Len(d) /\ \A i \in 1 .. Len(d) : d[i] \in Packet
    OBVIOUS
  <2>2. \A i \in DOMAIN d : ReadOf[d[i]] = IF d[i] \in Unread THEN <<>> ELSE <<d[i]>>
    BY <2>1 DEF ReadOf
  <2>3. [i \in DOMAIN d |-> IF d[i] \in Unread THEN <<>> ELSE <<d[i]>>] = [i \in DOMAIN d |-> ReadOf[d[i]]]
    BY <2>2
  <2> QED BY <2>3, SameOperators, Zenon DEF P!Reads, Spread, Pieces
<1>2. <<>> \in Seq(Packet) /\ <<p>> \o c \in Seq(Packet)
  OBVIOUS
<1>3. Spread(ReadOf, c) \in Seq(Packet)
  BY MapsType, SpreadType, Zenon
<1>4. Spread(ReadOf, <<p>> \o c) = ReadOf[p] \o Spread(ReadOf, c)
  BY MapsType, SpreadCons, ZenonT(30)
<1> QED BY <1>1, <1>2, <1>3, <1>4, SpreadEmpty, Zenon

LEMMA EntriesAre ==
  ASSUME P!PackageAssumption, NEW c \in Seq(Packet), NEW p \in Packet
  PROVE  /\ EntriesOf(c) \in Seq(P!Number)
         /\ Len(EntriesOf(c)) = Len(c)
         /\ \A i \in 1 .. Len(c) : EntriesOf(c)[i] = <<"len", Len(P!Units(c[i]))>>
         /\ EntriesOf(<<>>) = <<>>
         /\ EntriesOf(Append(c, p)) = Append(EntriesOf(c), P!SizeEntry(Len(P!Units(p))))
<1> DEFINE n == Len(c)
           e == EntriesOf(c)
           d == Append(c, p)
           x == P!SizeEntry(Len(P!Units(p)))
<1>1. n \in Nat /\ DOMAIN c = 1 .. n /\ \A i \in 1 .. n : c[i] \in Packet
  OBVIOUS
<1>2. e = [i \in 1 .. n |-> <<"len", Len(P!Units(c[i]))>>]
  BY <1>1 DEF EntriesOf, P!SizeEntry
<1>3. \A q \in Packet : <<"len", Len(P!Units(q))>> \in P!Number
  <2> SUFFICES ASSUME NEW q \in Packet PROVE <<"len", Len(P!Units(q))>> \in P!Number
    OBVIOUS
  <2>1. Len(P!Units(q)) \in Nat
    BY UnitsAre
  <2> QED BY <2>1 DEF P!Number
<1>4. DOMAIN d = 1 .. n + 1 /\ d[n + 1] = p /\ \A i \in 1 .. n : d[i] = c[i]
  OBVIOUS
<1>5. EntriesOf(d) = [i \in 1 .. n + 1 |-> <<"len", Len(P!Units(d[i]))>>]
  BY <1>4 DEF EntriesOf, P!SizeEntry
<1>6. x = <<"len", Len(P!Units(p))>>
  BY DEF P!SizeEntry
<1> HIDE DEF n, e, d, x
<1>7. e \in Seq(P!Number) /\ Len(e) = n
  <2>1. \A i \in 1 .. n : <<"len", Len(P!Units(c[i]))>> \in P!Number
    BY <1>1, <1>3
  <2>2. e \in [1 .. n -> P!Number]
    BY <1>2, <2>1
  <2> QED BY <1>1, <2>2
<1>8. \A i \in 1 .. n : e[i] = <<"len", Len(P!Units(c[i]))>>
  BY <1>2
<1>9. EntriesOf(<<>>) = <<>>
  BY DEF EntriesOf
<1>10. Append(e, x) = [i \in 1 .. n + 1 |-> IF i <= n THEN e[i] ELSE x]
  <2> DEFINE g == Append(e, x)
  <2>1. x \in P!Number
    BY <1>3, <1>6
  <2>2. /\ g = [i \in 1 .. n + 1 |-> g[i]]
        /\ \A i \in 1 .. n : g[i] = e[i]
        /\ g[n + 1] = x
    <3>1. /\ g \in Seq(P!Number) /\ Len(g) = n + 1 /\ g[n + 1] = x
          /\ \A i \in 1 .. n : g[i] = e[i]
      BY <1>7, <2>1, AppendProperties
    <3> HIDE DEF g
    <3>2. DOMAIN g = 1 .. n + 1 /\ g = [i \in DOMAIN g |-> g[i]]
      BY <3>1
    <3> QED BY <3>1, <3>2
  <2> HIDE DEF g
  <2>3. \A i \in 1 .. n + 1 : g[i] = IF i <= n THEN e[i] ELSE x
    BY <1>1, <2>2
  <2> QED BY <2>2, <2>3, Zenon DEF g
<1>11. \A i \in 1 .. n + 1 : <<"len", Len(P!Units(d[i]))>> = IF i <= n THEN e[i] ELSE x
  <2> SUFFICES ASSUME NEW i \in 1 .. n + 1
               PROVE  <<"len", Len(P!Units(d[i]))>> = IF i <= n THEN e[i] ELSE x
    OBVIOUS
  <2>1. CASE i <= n
    <3>1. i \in 1 .. n
      BY <1>1, <2>1
    <3> QED BY <1>4, <1>8, <2>1, <3>1
  <2>2. CASE ~(i <= n)
    <3>1. i = n + 1
      BY <1>1, <2>2
    <3> QED BY <1>4, <1>6, <2>2, <3>1
  <2> QED BY <2>1, <2>2
<1>12. EntriesOf(d) = Append(e, x)
  BY <1>5, <1>10, <1>11
<1> QED BY <1>7, <1>8, <1>9, <1>12 DEF n, e, d, x

\* The state of the loop in _handleReadPackage.
Spot == [buf : Seq(Unit), handled : Seq(Packet), broken : BOOLEAN]

LEMMA ReadLenIs ==
  ASSUME P!PackageAssumption, NEW p \in Packet
  PROVE  /\ P!ReadLen(p) \in P!HeaderLen(p) .. Len(P!Units(p))
         /\ p \notin Unread => P!ReadLen(p) = Len(P!Units(p))
<1>1. P!ReadArgs(p) = Args[p]
  <2>1. Args[p] \in Nat
    BY UnitsAre
  <2> QED BY <2>1 DEF P!ReadArgs, P!TupleLen
<1> DEFINE h == P!HeaderLen(p)
           a == Args[p]
<1>2. Len(P!Units(p)) = h + a /\ h \in Nat /\ a \in Nat
  BY UnitsAre
<1>3. P!ReadLen(p) = h + IF p \in Unread THEN 0 ELSE a
  BY <1>1 DEF P!ReadLen
<1> HIDE DEF h, a
<1>4. P!ReadLen(p) \in h .. h + a /\ (p \notin Unread => P!ReadLen(p) = h + a)
  BY <1>2, <1>3
<1> QED BY <1>2, <1>4 DEF h

\* A turn that goes wrong changes nothing more, and one that does not takes the
\* header, and of a packet that is read the values too.
TakesPacket(at, size) ==
  /\ ~at.broken /\ ~(Len(at.buf) < size)
  /\ at.buf # <<>> /\ at.buf[1] \in Packet \X {1}
  /\ IsPrefix(SubSeq(P!Units(at.buf[1][1]), 1, P!ReadLen(at.buf[1][1])), at.buf)

LEMMA TakePacketIs ==
  ASSUME NEW at, NEW size
  PROVE  LET p == at.buf[1][1]
             n == P!ReadLen(p)
         IN  P!TakePacket(at, size) =
               IF TakesPacket(at, size)
               THEN [buf |-> SubSeq(at.buf, n + 1, Len(at.buf)),
                     handled |-> IF p \in Unread THEN at.handled ELSE Append(at.handled, p),
                     broken |-> size < n]
               ELSE [at EXCEPT !.broken = TRUE]
BY SameOperators DEF P!TakePacket, TakesPacket, P!Ignore

LEMMA TakeType ==
  ASSUME P!PackageAssumption, NEW at \in Spot, NEW size
  PROVE  P!TakePacket(at, size) \in Spot
<1> DEFINE p == at.buf[1][1]
           n == P!ReadLen(p)
<1>1. at.buf \in Seq(Unit) /\ at.handled \in Seq(Packet) /\ at.broken \in BOOLEAN
  BY DEF Spot
<1>2. CASE TakesPacket(at, size)
  <2>1. at.buf[1] \in Packet \X {1}
    BY <1>2 DEF TakesPacket
  <2>2. p \in Packet
    BY <2>1
  <2>3. n \in Nat
    <3>1. P!HeaderLen(p) \in Nat /\ P!ReadLen(p) \in P!HeaderLen(p) .. Len(P!Units(p))
      BY <2>2, ReadLenIs, UnitsAre
    <3> QED BY <3>1
  <2>4. P!TakePacket(at, size) =
          [buf |-> SubSeq(at.buf, n + 1, Len(at.buf)),
           handled |-> IF p \in Unread THEN at.handled ELSE Append(at.handled, p),
           broken |-> size < n]
    BY <1>2, TakePacketIs
  <2> HIDE DEF p, n
  <2>5. SubSeq(at.buf, n + 1, Len(at.buf)) \in Seq(Unit)
    <3>1. \A i \in n + 1 .. Len(at.buf) : at.buf[i] \in Unit
      BY <1>1, <2>3
    <3>2. n + 1 \in Int /\ Len(at.buf) \in Int
      BY <1>1, <2>3
    <3> QED BY <3>1, <3>2, SubSeqProperties
  <2>6. (IF p \in Unread THEN at.handled ELSE Append(at.handled, p)) \in Seq(Packet)
    BY <1>1, <2>2
  <2>7. (size < n) \in BOOLEAN
    OBVIOUS
  <2> QED BY <2>4, <2>5, <2>6, <2>7 DEF Spot
<1>3. CASE ~TakesPacket(at, size)
  <2>1. P!TakePacket(at, size) = [at EXCEPT !.broken = TRUE]
    BY <1>3, TakePacketIs
  <2> QED BY <2>1, Zenon DEF Spot
<1> QED BY <1>2, <1>3

\* What is left of packets nobody reads: values, and no header.
Leftover == Unread \X (Nat \ {0, 1})

\* In the loop, with the packets of todo still to take, to have handled e in the
\* end; missed says that the package has a packet nobody reads.
InLoop(at, todo, e, missed) ==
  /\ at \in Spot
  /\ at.broken => missed /\ \E r \in Seq(Packet) : at.handled \o r = e
  /\ ~at.broken => /\ at.handled \o P!Reads(todo) = e
                   /\ \E l \in Seq(Leftover) : at.buf = l \o BodyOf(todo) /\ (l # <<>> => missed)

LEMMA TurnBroken ==
  ASSUME P!PackageAssumption, NEW at, NEW e, NEW p \in Packet, NEW todo \in Seq(Packet),
         InLoop(at, <<p>> \o todo, e, TRUE),
         ~TakesPacket(at, Len(P!Units(p)))
  PROVE  InLoop(P!TakePacket(at, Len(P!Units(p))), todo, e, TRUE)
<1> DEFINE new == P!TakePacket(at, Len(P!Units(p)))
<1>1. new = [at EXCEPT !.broken = TRUE] /\ at \in Spot
  BY TakePacketIs DEF InLoop
<1>2. new \in Spot /\ new.broken = TRUE /\ new.handled = at.handled
  BY <1>1, Zenon DEF Spot
<1>3. \E r \in Seq(Packet) : at.handled \o r = e
  <2>1. <<p>> \o todo \in Seq(Packet)
    OBVIOUS
  <2>2. P!Reads(<<p>> \o todo) \in Seq(Packet)
    BY <2>1, ReadsIs, Zenon
  <2> QED BY <2>2, Zenon DEF InLoop
<1> HIDE DEF new
<1>4. InLoop(new, todo, e, TRUE)
  BY <1>2, <1>3, Zenon DEF InLoop
<1> QED BY <1>4, Zenon DEF new

\* A turn with the packet in its place.
LEMMA TurnInPlace ==
  ASSUME P!PackageAssumption, NEW at \in Spot, NEW e, NEW p \in Packet, NEW todo \in Seq(Packet),
         NEW missed \in BOOLEAN, p \in Unread => missed,
         ~at.broken, at.handled \o P!Reads(<<p>> \o todo) = e, at.buf = BodyOf(<<p>> \o todo)
  PROVE  InLoop(P!TakePacket(at, Len(P!Units(p))), todo, e, missed)
<1> DEFINE u == P!Units(p)
           b == BodyOf(todo)
           n == P!ReadLen(p)
           m == Len(u)
           l == SubSeq(u, n + 1, m)
           new == P!TakePacket(at, m)
<1>1. /\ u \in Seq(P!Field) /\ b \in Seq(P!Field) /\ at.buf = u \o b
      /\ \A j \in 1 .. m : u[j] = <<p, j>>
  BY UnitsAre, BodyIs, Zenon
<1>2. /\ n \in Nat /\ m \in Nat /\ 3 <= n /\ n <= m /\ (p \notin Unread => n = m)
  <2>1. P!HeaderLen(p) \in Nat /\ P!HeaderLen(p) >= 3 /\ m \in Nat
    BY <1>1, UnitsAre
  <2>2. n \in P!HeaderLen(p) .. m /\ (p \notin Unread => n = m)
    BY ReadLenIs
  <2> QED BY <2>1, <2>2
<1>3. at.handled \in Seq(Packet) /\ P!Reads(todo) \in Seq(Packet)
      /\ e = at.handled \o (ReadOf[p] \o P!Reads(todo))
  BY ReadsIs, Zenon DEF Spot
<1> HIDE DEF u, b, n, m
<1>4. /\ l \in Seq(P!Field) /\ IsPrefix(SubSeq(u, 1, n), u \o b)
      /\ SubSeq(u \o b, n + 1, Len(u \o b)) = l \o b
  <2>1. n \in 0 .. Len(u)
    BY <1>2 DEF m
  <2> QED BY <1>1, <2>1, CutInside, ZenonT(30) DEF m
<1>5. Len(u \o b) >= m /\ u \o b # <<>> /\ (u \o b)[1] = <<p, 1>> /\ Len(u \o b) \in Nat
  <2>1. /\ Len(u \o b) = m + Len(b) /\ Len(b) \in Nat
        /\ (u \o b)[1] = u[1]
    <3>1. 1 \in 1 .. Len(u) + Len(b) /\ 1 <= Len(u) /\ Len(b) \in Nat
      BY <1>1, <1>2 DEF m
    <3>2. Len(u \o b) = Len(u) + Len(b)
      BY <1>1, ConcatProperties
    <3>3. (u \o b)[1] = u[1]
      BY <1>1, <3>1, ConcatProperties
    <3> QED BY <3>1, <3>2, <3>3 DEF m
  <2>2. u[1] = <<p, 1>>
    BY <1>1, <1>2
  <2> QED BY <1>2, <2>1, <2>2
<1>6. TakesPacket(at, m)
  <2>1. at.buf[1] = <<p, 1>> /\ at.buf[1][1] = p /\ at.buf[1] \in Packet \X {1}
    <3> DEFINE x == at.buf[1]
    <3>1. x = <<p, 1>>
      BY <1>1, <1>5, Zenon
    <3> HIDE DEF x
    <3>2. x[1] = p
      BY <3>1
    <3>3. x \in Packet \X {1}
      BY <3>1
    <3> QED BY <3>1, <3>2, <3>3 DEF x
  <2>2. ~(Len(at.buf) < m) /\ at.buf # <<>>
    BY <1>1, <1>2, <1>5
  <2>3. IsPrefix(SubSeq(P!Units(at.buf[1][1]), 1, P!ReadLen(at.buf[1][1])), at.buf)
    BY <1>1, <1>4, <2>1, Zenon DEF u, n
  <2> QED BY <2>1, <2>2, <2>3 DEF TakesPacket
<1>7. new = [buf |-> l \o b,
             handled |-> IF p \in Unread THEN at.handled ELSE Append(at.handled, p),
             broken |-> m < n]
  <2>1. at.buf[1][1] = p
    BY <1>1, <1>5
  <2>2. new = [buf |-> SubSeq(at.buf, n + 1, Len(at.buf)),
               handled |-> IF p \in Unread THEN at.handled ELSE Append(at.handled, p),
               broken |-> m < n]
    BY <1>6, <2>1, TakePacketIs, Zenon DEF n
  <2> QED BY <1>1, <1>4, <2>2, Zenon
<1>8. new \in Spot
  BY TakeType
<1> HIDE DEF l, new
<1>9. ~new.broken /\ new.buf = l \o b
      /\ new.handled = IF p \in Unread THEN at.handled ELSE Append(at.handled, p)
  <2>1. ~(m < n)
    BY <1>2
  <2> QED BY <1>7, <2>1, Zenon
<1>10. l \in Seq(Leftover) /\ (l # <<>> => missed)
  <2>1. CASE p \in Unread
    <3>1. \A i \in n + 1 .. m : u[i] \in Leftover
      <4> SUFFICES ASSUME NEW i \in n + 1 .. m PROVE u[i] \in Leftover
        OBVIOUS
      <4>1. i \in 1 .. m /\ i \in Nat \ {0, 1}
        BY <1>2
      <4>2. u[i] = <<p, i>>
        BY <1>1, <4>1
      <4> QED BY <2>1, <4>1, <4>2 DEF Leftover
    <3>2. n + 1 \in Int /\ m \in Int
      BY <1>2
    <3>3. l \in Seq(Leftover)
      BY <3>1, <3>2, SubSeqProperties DEF l
    <3> QED BY <2>1, <3>3
  <2>2. CASE p \notin Unread
    <3>1. l = <<>>
      <4>1. n + 1 \in Int /\ m \in Int /\ m < n + 1
        BY <1>2, <2>2
      <4> QED BY <4>1, SubSeqEmpty DEF l
    <3> QED BY <3>1
  <2> QED BY <2>1, <2>2
<1>11. new.handled \o P!Reads(todo) = e
  <2>1. CASE p \in Unread
    <3>1. ReadOf[p] = <<>>
      BY <2>1 DEF ReadOf
    <3>2. <<>> \o P!Reads(todo) = P!Reads(todo)
      BY <1>3
    <3> QED BY <1>3, <1>9, <2>1, <3>1, <3>2, Zenon
  <2>2. CASE p \notin Unread
    <3>1. ReadOf[p] = <<p>> /\ <<p>> \in Seq(Packet)
      BY <2>2 DEF ReadOf
    <3>2. Append(at.handled, p) = at.handled \o <<p>>
      BY <1>3, AppendIsConcat
    <3> DEFINE h == at.handled
               o == <<p>>
               r == P!Reads(todo)
    <3>3. h \in Seq(Packet) /\ o \in Seq(Packet) /\ r \in Seq(Packet)
      BY <1>3, <3>1
    <3> HIDE DEF h, o, r
    <3>4. (h \o o) \o r = h \o (o \o r)
      BY <3>3, JoinPackets
    <3> QED BY <1>3, <1>9, <2>2, <3>1, <3>2, <3>4, Zenon DEF h, o, r
  <2> QED BY <2>1, <2>2, Zenon
<1>12. InLoop(new, todo, e, missed)
  BY <1>8, <1>9, <1>10, <1>11, Zenon DEF InLoop, b
<1> QED BY <1>12 DEF new, m, u

LEMMA Turn ==
  ASSUME P!PackageAssumption, NEW at, NEW e, NEW p \in Packet, NEW todo \in Seq(Packet),
         NEW missed \in BOOLEAN, p \in Unread => missed,
         InLoop(at, <<p>> \o todo, e, missed)
  PROVE  InLoop(P!TakePacket(at, Len(P!Units(p))), todo, e, missed)
<1>1. CASE at.broken
  <2>1. missed = TRUE /\ ~TakesPacket(at, Len(P!Units(p)))
    BY <1>1 DEF InLoop, TakesPacket
  <2> QED BY <2>1, TurnBroken, Zenon
<1>2. CASE ~at.broken
  <2>1. /\ at \in Spot /\ at.handled \o P!Reads(<<p>> \o todo) = e
    BY <1>2, Zenon DEF InLoop
  <2>2. PICK l \in Seq(Leftover) : at.buf = l \o BodyOf(<<p>> \o todo) /\ (l # <<>> => missed)
    BY <1>2, Zenon DEF InLoop
  <2>3. <<p>> \o todo \in Seq(Packet)
    OBVIOUS
  <2>4. BodyOf(<<p>> \o todo) \in Seq(P!Field)
    BY <2>3, BodyIs, Zenon
  <2>5. CASE l = <<>>
    <3>1. at.buf = BodyOf(<<p>> \o todo)
      BY <2>2, <2>4, <2>5, ConcatEmptySeq
    <3> QED BY <1>2, <2>1, <3>1, TurnInPlace, Zenon
  <2>6. CASE l # <<>>
    <3> DEFINE b == BodyOf(<<p>> \o todo)
    <3> HIDE DEF b
    <3>1. l[1] \in Leftover /\ (l \o b)[1] = l[1]
      <4>1. 1 \in 1 .. Len(l) /\ l[1] \in Leftover
        BY <2>6
      <4> QED BY <2>4, <4>1 DEF b
    <3>2. at.buf[1] \notin Packet \X {1}
      BY <2>2, <3>1, Zenon DEF b, Leftover
    <3>3. ~TakesPacket(at, Len(P!Units(p))) /\ missed = TRUE
      BY <2>2, <2>6, <3>2 DEF TakesPacket
    <3> QED BY <3>3, TurnBroken, Zenon
  <2> QED BY <2>5, <2>6
<1> QED BY <1>1, <1>2

LEMMA TakePacketsIs ==
  ASSUME P!PackageAssumption, NEW start \in Spot, NEW T, NEW ps \in Seq(T)
  PROVE  \E at \in [0 .. Len(ps) -> Spot] :
           /\ at[0] = start
           /\ \A i \in 1 .. Len(ps) : at[i] = P!TakePacket(at[i - 1], ps[i])
           /\ P!TakePackets(start, ps) = at[Len(ps)]
<1> DEFINE n == Len(ps)
           f == [i \in 1 .. n |-> [a \in Spot |-> P!TakePacket(a, ps[i])]]
           y == CHOOSE y : y = [i \in 0 .. n |-> IF i = 0 THEN start
                                                 ELSE P!TakePacket(y[i - 1], ps[i])]
<1>1. n \in Nat
  OBVIOUS
<1>2. P!TakePackets(start, ps) = y[n]
  BY DEF P!TakePackets
<1> HIDE DEF n
<1>3. f \in [1 .. n -> [Spot -> Spot]]
  BY TakeType
<1>4. \A i \in 1 .. n : \A a \in Spot : f[i][a] = P!TakePacket(a, ps[i])
  OBVIOUS
<1> HIDE DEF f
<1>5. PICK h : Computes(h, Spot, start, n, f)
  BY <1>1, <1>3, Iterate
<1>6. /\ h \in [0 .. n -> Spot] /\ h[0] = start
      /\ \A i \in 1 .. n : h[i] = f[i][h[i - 1]]
  BY <1>5 DEF Computes
<1>7. \A i \in 1 .. n : h[i] = P!TakePacket(h[i - 1], ps[i])
  <2> SUFFICES ASSUME NEW i \in 1 .. n PROVE h[i] = P!TakePacket(h[i - 1], ps[i])
    OBVIOUS
  <2>1. i - 1 \in 0 .. n
    BY <1>1
  <2> QED BY <1>4, <1>6, <2>1
<1>8. h = [i \in 0 .. n |-> IF i = 0 THEN start ELSE P!TakePacket(h[i - 1], ps[i])]
  <2>1. \A i \in 0 .. n : h[i] = IF i = 0 THEN start ELSE P!TakePacket(h[i - 1], ps[i])
    <3> SUFFICES ASSUME NEW i \in 0 .. n
                 PROVE  h[i] = IF i = 0 THEN start ELSE P!TakePacket(h[i - 1], ps[i])
      OBVIOUS
    <3>1. i = 0 \/ (i # 0 /\ i \in 1 .. n)
      BY <1>1
    <3> QED BY <1>6, <1>7, <3>1
  <2>2. h = [i \in 0 .. n |-> h[i]]
    BY <1>6
  <2> QED BY <2>1, <2>2, Zenon
<1>9. y = [i \in 0 .. n |-> IF i = 0 THEN start ELSE P!TakePacket(y[i - 1], ps[i])]
  BY <1>8, Zenon
<1> HIDE DEF y
<1>10. y[0] = h[0]
  BY <1>1, <1>6, <1>9
<1>11. \A i \in 1 .. n : y[i - 1] = h[i - 1] => y[i] = h[i]
  <2> SUFFICES ASSUME NEW i \in 1 .. n, y[i - 1] = h[i - 1] PROVE y[i] = h[i]
    OBVIOUS
  <2>1. i \in 0 .. n /\ i # 0
    BY <1>1
  <2>2. y[i] = P!TakePacket(y[i - 1], ps[i])
    BY <1>9, <2>1, Zenon
  <2> QED BY <1>7, <2>2
<1>12. y[n] = h[n]
  <2>1. SameSteps(n, y, h)
    BY <1>10, <1>11 DEF SameSteps
  <2>2. \A i \in 0 .. n : y[i] = h[i]
    BY <1>1, <2>1, IterateOnce
  <2> QED BY <1>1, <2>2
<1> QED BY <1>2, <1>6, <1>7, <1>12 DEF n

\* The sizes in the list of a package with the packets c.
SizesOf(c) == [i \in 1 .. Len(c) |-> Len(P!Units(c[i]))]

LEMMA Loop ==
  ASSUME P!PackageAssumption, NEW c \in Seq(Packet), NEW e, NEW missed \in BOOLEAN, NEW start,
         \A i \in 1 .. Len(c) : c[i] \in Unread => missed,
         InLoop(start, c, e, missed)
  PROVE  InLoop(P!TakePackets(start, SizesOf(c)), <<>>, e, missed)
<1> DEFINE n == Len(c)
           ps == SizesOf(c)
<1>1. n \in Nat /\ \A i \in 1 .. n : c[i] \in Packet
  OBVIOUS
<1>2. ps \in Seq(Nat) /\ Len(ps) = n /\ \A i \in 1 .. n : ps[i] = Len(P!Units(c[i]))
  <2> HIDE DEF n
  <2>1. ps = [i \in 1 .. n |-> Len(P!Units(c[i]))]
    BY DEF SizesOf, n
  <2> HIDE DEF ps
  <2>2. \A i \in 1 .. n : Len(P!Units(c[i])) \in Nat
    <3> SUFFICES ASSUME NEW i \in 1 .. n PROVE Len(P!Units(c[i])) \in Nat
      OBVIOUS
    <3>1. P!Units(c[i]) \in Seq(P!Field)
      BY <1>1, UnitsAre
    <3> QED BY <3>1
  <2>3. ps \in [1 .. n -> Nat]
    BY <2>1, <2>2
  <2> QED BY <1>1, <2>1, <2>3
<1>3. start \in Spot
  BY DEF InLoop
<1> HIDE DEF ps
<1>4. PICK at \in [0 .. n -> Spot] :
        /\ at[0] = start
        /\ \A i \in 1 .. n : at[i] = P!TakePacket(at[i - 1], ps[i])
        /\ P!TakePackets(start, ps) = at[n]
  <2>1. \E at \in [0 .. Len(ps) -> Spot] :
           /\ at[0] = start
           /\ \A i \in 1 .. Len(ps) : at[i] = P!TakePacket(at[i - 1], ps[i])
           /\ P!TakePackets(start, ps) = at[Len(ps)]
    BY <1>2, <1>3, TakePacketsIs
  <2> QED BY <1>2, <2>1, Zenon
<1> DEFINE T == {i \in Nat : i <= n => InLoop(at[i], SubSeq(c, i + 1, n), e, missed)}
<1>5. 0 \in T
  <2>1. SubSeq(c, 0 + 1, n) = c
    BY SubSeqFull
  <2> QED BY <1>4, <2>1, Zenon
<1> HIDE DEF n
<1>6. ASSUME NEW i \in Nat, i \in T PROVE i + 1 \in T
  <2> SUFFICES ASSUME i + 1 <= n PROVE InLoop(at[i + 1], SubSeq(c, (i + 1) + 1, n), e, missed)
    OBVIOUS
  <2> DEFINE p == c[i + 1]
             todo == SubSeq(c, (i + 1) + 1, n)
  <2>1. i <= n /\ i + 1 \in 1 .. n /\ (i + 1) - 1 = i /\ p \in Packet /\ (p \in Unread => missed)
    BY <1>1 DEF n
  <2>2. todo \in Seq(Packet)
    <3>1. \A j \in (i + 1) + 1 .. n : c[j] \in Packet
      BY <1>1
    <3> QED BY <1>1, <3>1, SubSeqProperties
  <2>3. SubSeq(c, i + 1, n) = <<p>> \o todo
    <3>1. i + 1 \in 1 .. Len(c) /\ n \in i + 1 .. Len(c)
      BY <1>1, <2>1 DEF n
    <3> QED BY <3>1, SubSeqRecursiveFirst
  <2>4. InLoop(at[i], <<p>> \o todo, e, missed)
    BY <1>6, <2>1, <2>3, Zenon
  <2>5. at[i + 1] = P!TakePacket(at[i], Len(P!Units(p)))
    <3>1. at[i + 1] = P!TakePacket(at[(i + 1) - 1], ps[i + 1])
      BY <1>4, <2>1
    <3> QED BY <1>2, <2>1, <3>1
  <2> HIDE DEF p, todo
  <2>6. InLoop(P!TakePacket(at[i], Len(P!Units(p))), todo, e, missed)
    BY <2>1, <2>2, <2>4, Turn
  <2> QED BY <2>5, <2>6 DEF todo
<1>7. Nat \subseteq T
  <2> HIDE DEF T
  <2> QED BY <1>5, <1>6, SetInduction
<1>8. InLoop(at[n], SubSeq(c, n + 1, n), e, missed)
  BY <1>1, <1>7
<1>9. SubSeq(c, n + 1, n) = <<>>
  <2>1. n + 1 \in Int /\ n \in Int /\ n < n + 1
    BY <1>1
  <2> QED BY <2>1, SubSeqEmpty
<1> QED BY <1>4, <1>8, <1>9, Zenon DEF ps

\* The list of the sizes of a package is as long as there are packets.
LEMMA PayIs ==
  ASSUME P!PackageAssumption, NEW c \in Seq(Packet)
  PROVE  /\ ListOf(c) \in Seq(P!Number) /\ BodyOf(c) \in Seq(P!Field)
         /\ PayOf(c) \in Seq(Unit) /\ Len(PayOf(c)) \in Nat /\ Len(PayOf(c)) > 0
         /\ Len(PayOf(c)) = Len(c) + 1 + Len(BodyOf(c))
         /\ \A i \in 1 .. Len(c) : PayOf(c)[i] = <<"len", Len(P!Units(c[i]))>>
         /\ PayOf(c)[Len(c) + 1] = <<"len", 0>>
         /\ SubSeq(PayOf(c), Len(c) + 2, Len(PayOf(c))) = BodyOf(c)
<1> DEFINE n == Len(c)
           e == EntriesOf(c)
           x == P!SizeEntry(0)
           l == ListOf(c)
           b == BodyOf(c)
           w == PayOf(c)
<1>1. n \in Nat
  OBVIOUS
<1>2. x = <<"len", 0>> /\ x \in P!Number
  BY DEF P!SizeEntry, P!Number
<1>3. e \in Seq(P!Number) /\ Len(e) = n /\ \A i \in 1 .. n : e[i] = <<"len", Len(P!Units(c[i]))>>
  <2>1. CASE c = <<>>
    BY <2>1 DEF EntriesOf
  <2>2. CASE c # <<>>
    <3>1. c[1] \in Packet
      BY <2>2
    <3> QED BY <3>1, EntriesAre
  <2> QED BY <2>1, <2>2
<1>4. b \in Seq(P!Field)
  BY MapsType, SpreadType, Zenon DEF BodyOf
<1>5. l = Append(e, x) /\ w = l \o b
  BY DEF ListOf, PayOf
<1> HIDE DEF n, e, x, l, b, w
<1>6. /\ l \in Seq(P!Number) /\ Len(l) = n + 1 /\ l[n + 1] = x
      /\ \A i \in 1 .. n : l[i] = e[i]
  BY <1>2, <1>3, <1>5, AppendProperties
<1>7. l \in Seq(Unit) /\ b \in Seq(Unit)
  <2>1. P!Number \subseteq Unit /\ P!Field \subseteq Unit
    BY DEF Unit
  <2> QED BY <1>4, <1>6, <2>1, SeqMonotonic
<1>8. /\ w \in Seq(Unit) /\ Len(w) = (n + 1) + Len(b) /\ Len(b) \in Nat
      /\ \A i \in 1 .. n + 1 : w[i] = l[i]
  <2>1. Len(b) \in Nat
    BY <1>7
  <2>2. w \in Seq(Unit) /\ Len(w) = (n + 1) + Len(b)
    BY <1>5, <1>6, <1>7, ConcatProperties
  <2>3. \A i \in 1 .. n + 1 : w[i] = l[i]
    <3> SUFFICES ASSUME NEW i \in 1 .. n + 1 PROVE w[i] = l[i]
      OBVIOUS
    <3>1. i \in 1 .. Len(l) + Len(b) /\ i <= Len(l)
      BY <1>1, <1>6, <2>1
    <3> QED BY <1>5, <1>7, <3>1, ConcatProperties
  <2> QED BY <2>1, <2>2, <2>3
<1>9. SubSeq(w, n + 2, Len(w)) = b
  <2>1. SubSeq(w, Len(l) + 1, Len(w)) = b
    BY <1>5, <1>7, <1>8, SplitRest
  <2>2. Len(l) + 1 = n + 2
    BY <1>1, <1>6
  <2> QED BY <2>1, <2>2, Zenon
<1>10. \A i \in 1 .. n : w[i] = <<"len", Len(P!Units(c[i]))>>
  BY <1>1, <1>3, <1>6, <1>8
<1>11. w[n + 1] = <<"len", 0>>
  BY <1>1, <1>2, <1>6, <1>8
<1>12. Len(w) \in Nat /\ Len(w) > 0 /\ Len(w) = n + 1 + Len(b)
  BY <1>1, <1>8
<1> QED BY <1>4, <1>6, <1>8, <1>9, <1>10, <1>11, <1>12, Zenon DEF n, l, b, w

LEMMA ListLengthOfPay ==
  ASSUME P!PackageAssumption, NEW c \in Seq(Packet)
  PROVE  P!ListLength(PayOf(c)) = Len(c)
<1> DEFINE n == Len(c)
           w == PayOf(c)
           ends == {i \in DOMAIN w : w[i] = P!SizeEntry(0)}
           before == {i \in DOMAIN w : w[i][1] # "len"}
<1>1. /\ n \in Nat /\ Len(w) \in Nat /\ Len(w) >= n + 1 /\ DOMAIN w = 1 .. Len(w)
      /\ \A i \in 1 .. n : w[i] = <<"len", Len(P!Units(c[i]))>>
      /\ w[n + 1] = <<"len", 0>>
  <2>1. Len(BodyOf(c)) \in Nat
    BY PayIs
  <2>2. w \in Seq(Unit)
    BY PayIs
  <2>3. Len(w) = n + 1 + Len(BodyOf(c)) /\ Len(w) \in Nat
    BY PayIs
  <2> HIDE DEF w
  <2> QED BY <2>1, <2>2, <2>3, PayIs DEF w
<1>2. \A i \in 1 .. n : Len(P!Units(c[i])) # 0
  <2> SUFFICES ASSUME NEW i \in 1 .. n PROVE Len(P!Units(c[i])) # 0
    OBVIOUS
  <2>1. c[i] \in Packet
    OBVIOUS
  <2>2. Len(P!Units(c[i])) = P!HeaderLen(c[i]) + Args[c[i]] /\ P!HeaderLen(c[i]) \in Nat
        /\ P!HeaderLen(c[i]) >= 3 /\ Args[c[i]] \in Nat
    BY <2>1, UnitsAre, Zenon
  <2> QED BY <2>2
<1> HIDE DEF w
<1>3. n + 1 \in ends
  BY <1>1 DEF P!SizeEntry
<1>4. \A i \in ends : n + 1 <= i
  <2> SUFFICES ASSUME NEW i \in ends PROVE n + 1 <= i
    OBVIOUS
  <2>1. i \in 1 .. Len(w) /\ w[i] = <<"len", 0>>
    BY <1>1 DEF P!SizeEntry
  <2>2. i \notin 1 .. n
    BY <1>1, <1>2, <2>1
  <2> QED BY <1>1, <2>1, <2>2
<1>5. \A j \in before : n + 1 < j
  <2> SUFFICES ASSUME NEW j \in before PROVE n + 1 < j
    OBVIOUS
  <2>1. j \in 1 .. Len(w) /\ w[j][1] # "len"
    BY <1>1
  <2>2. j # n + 1 /\ j \notin 1 .. n
    BY <1>1, <2>1
  <2> QED BY <1>1, <2>1, <2>2
<1>6. P!ListLength(w) = IF \E i \in ends : \A j \in before : i < j
                        THEN (CHOOSE i \in ends : \A j \in ends : i <= j) - 1 ELSE None
  BY DEF P!ListLength
<1>7. ends \subseteq Int
  BY <1>1
<1> HIDE DEF ends, before, n
<1>8. (CHOOSE i \in ends : \A j \in ends : i <= j) = n + 1
  <2>1. \A i \in ends : (\A j \in ends : i <= j) => i = n + 1
    BY <1>1, <1>3, <1>4, <1>7
  <2> QED BY <1>3, <1>4, <2>1
<1>9. P!ListLength(w) = (n + 1) - 1
  BY <1>3, <1>5, <1>6, <1>8, Zenon
<1> QED BY <1>1, <1>9 DEF n, w

\* With a value in front there is no list.
LEMMA NoList ==
  ASSUME NEW w \in Seq(Unit), w # <<>>, w[1][1] # "len"
  PROVE  P!ListLength(w) = None
<1> DEFINE ends == {i \in DOMAIN w : w[i] = P!SizeEntry(0)}
           before == {i \in DOMAIN w : w[i][1] # "len"}
<1>1. DOMAIN w = 1 .. Len(w) /\ 1 \in DOMAIN w
  OBVIOUS
<1>2. 1 \in before /\ \A i \in ends : ~(i < 1)
  BY <1>1
<1>3. P!ListLength(w) = IF \E i \in ends : \A j \in before : i < j
                        THEN (CHOOSE i \in ends : \A j \in ends : i <= j) - 1 ELSE None
  BY DEF P!ListLength
<1> HIDE DEF ends, before
<1> QED BY <1>2, <1>3

LEMMA ListLengthType ==
  ASSUME P!PackageAssumption, NEW w \in Seq(Unit), P!ListLength(w) # None
  PROVE  P!ListLength(w) \in Nat /\ P!ListLength(w) < Len(w)
<1> DEFINE ends == {i \in DOMAIN w : w[i] = P!SizeEntry(0)}
           before == {i \in DOMAIN w : w[i][1] # "len"}
<1>1. DOMAIN w = 1 .. Len(w) /\ Len(w) \in Nat
  OBVIOUS
<1>2. ends \in SUBSET Nat /\ ends \subseteq 1 .. Len(w)
  BY <1>1
<1>3. P!ListLength(w) = IF \E i \in ends : \A j \in before : i < j
                        THEN (CHOOSE i \in ends : \A j \in ends : i <= j) - 1 ELSE None
  BY DEF P!ListLength
<1> HIDE DEF ends, before
<1>4. ends # {} /\ P!ListLength(w) = (CHOOSE i \in ends : \A j \in ends : i <= j) - 1
  BY <1>3
<1>5. \E i \in ends : \A j \in ends : i <= j
  BY <1>2, <1>4, LeastNumber
<1>6. (CHOOSE i \in ends : \A j \in ends : i <= j) \in ends
  BY <1>5
<1>7. PICK m \in 1 .. Len(w) : P!ListLength(w) = m - 1
  BY <1>2, <1>4, <1>6, Zenon
<1> QED BY <1>1, <1>7

------------------------------------------------------------------------------
(* The writer.                                                             *)

\* Two writes were not going on at once, and none has failed.
Quiet == ~overlap /\ ~failed

\* A package that was not sent holds what was written into it, and the write that
\* is going on still finds all of the package it writes.
WriterInv ==
  /\ \A k \in Pkg : k \notin P!ToSet(sent) =>
       /\ sizes[k] = EntriesOf(content[k]) /\ body[k] = BodyOf(content[k])
       /\ lastSize[k] = Len(body[k])
  /\ \A i \in 1 .. Len(ops) : ops[i].pkg \in P!ToSet(sent)
  /\ Quiet => /\ Len(ops) <= 1
              /\ \A i \in 1 .. Len(ops) : \A b \in {"word", "sizes", "body"} :
                   P!Bytes(ops[i].pkg, b) = BufferOf(content[ops[i].pkg])[b]

\* What a write is still going to put on the wire.
Going == IF ops = <<>> THEN <<>> ELSE Spread(BufferOf(content[ops[1].pkg]), ops[1].left)

LEMMA BufferType ==
  ASSUME P!PackageAssumption, NEW c \in Seq(Packet)
  PROVE  BufferOf(c) \in [{"word", "sizes", "body"} -> Seq(Unit)]
<1>1. P!Number \subseteq Unit /\ P!Field \subseteq Unit
  BY DEF Unit
<1>2. ListOf(c) \in Seq(Unit) /\ BodyOf(c) \in Seq(Unit)
  BY <1>1, PayIs, SeqMonotonic
<1>3. <<<<"word", Len(PayOf(c))>>>> \in Seq(Unit)
  <2>1. Len(PayOf(c)) \in Nat
    BY PayIs
  <2>2. <<"word", Len(PayOf(c))>> \in Unit
    BY <2>1 DEF Unit, P!Number
  <2> QED BY <2>2
<1> QED BY <1>2, <1>3 DEF BufferOf

\* A write writes a whole package.
LEMMA BuffersAreFrame ==
  ASSUME P!PackageAssumption, NEW c \in Seq(Packet)
  PROVE  Spread(BufferOf(c), <<"word", "sizes", "body">>) = FrameOf(c) /\ FrameOf(c) \in Seq(Unit)
<1> DEFINE f == BufferOf(c)
           Dom == {"word", "sizes", "body"}
           a == f["word"]
           l == f["sizes"]
           b == f["body"]
           z == <<>>
<1>1. f \in [Dom -> Seq(Unit)]
  BY BufferType
<1>2. a = <<<<"word", Len(PayOf(c))>>>> /\ l = ListOf(c) /\ b = BodyOf(c)
  BY DEF BufferOf
<1>3. /\ z \in Seq(Dom) /\ <<"body">> \in Seq(Dom) /\ <<"sizes", "body">> \in Seq(Dom)
      /\ <<"body">> = <<"body">> \o z /\ <<"sizes", "body">> = <<"sizes">> \o <<"body">>
      /\ <<"word", "sizes", "body">> = <<"word">> \o <<"sizes", "body">>
  OBVIOUS
<1>4. a \in Seq(Unit) /\ l \in Seq(Unit) /\ b \in Seq(Unit)
  <2> HIDE DEF f
  <2> QED BY <1>1
<1>5. Spread(f, z) = <<>>
  BY SpreadEmpty
<1> DEFINE last == <<"body">>
           two == <<"sizes", "body">>
<1> HIDE DEF f, Dom, a, l, b, z
<1>6. Spread(f, last) = b
  <2>1. Spread(f, <<"body">> \o z) = f["body"] \o Spread(f, z)
    <3>1. "body" \in Dom
      BY DEF Dom
    <3> QED BY <1>1, <1>3, <3>1, SpreadCons, Zenon
  <2> QED BY <1>3, <1>4, <1>5, <2>1, ConcatEmptySeq, Zenon DEF b
<1>7. Spread(f, two) = l \o b
  <2>1. "sizes" \in Dom /\ last \in Seq(Dom)
    BY <1>3 DEF Dom
  <2> HIDE DEF last
  <2>2. Spread(f, <<"sizes">> \o last) = f["sizes"] \o Spread(f, last)
    BY <1>1, <2>1, SpreadCons, ZenonT(30)
  <2> QED BY <1>3, <1>6, <2>2, Zenon DEF l, last
<1>8. Spread(f, <<"word", "sizes", "body">>) = a \o (l \o b)
  <2>1. "word" \in Dom /\ two \in Seq(Dom)
    BY <1>3 DEF Dom
  <2> HIDE DEF two
  <2>2. Spread(f, <<"word">> \o two) = f["word"] \o Spread(f, two)
    BY <1>1, <2>1, SpreadCons, ZenonT(30)
  <2> QED BY <1>3, <1>7, <2>2, Zenon DEF a, two
<1>9. FrameOf(c) = a \o (l \o b)
  BY <1>2 DEF FrameOf, PayOf
<1>10. a \o (l \o b) \in Seq(Unit)
  <2>1. l \o b \in Seq(Unit)
    BY <1>4, ConcatProperties
  <2> QED BY <1>4, <2>1, ConcatProperties
<1> QED BY <1>8, <1>9, <1>10, Zenon DEF f

LEMMA FrameType ==
  ASSUME P!PackageAssumption
  PROVE  [c \in Seq(Packet) |-> FrameOf(c)] \in [Seq(Packet) -> Seq(Unit)]
BY BuffersAreFrame

\* What the type invariant says of one package.
LEMMA OfPackage ==
  ASSUME P!TypeOK, NEW k \in Pkg
  PROVE  /\ sizes[k] \in Seq(P!Number) /\ body[k] \in Seq(P!Field) /\ content[k] \in Seq(Packet)
         /\ lastSize[k] \in Nat /\ packageSize[k] \in Nat
BY DEF P!TypeOK

Op == [pkg : Pkg, left : Seq({"word", "sizes", "body"})]

LEMMA OfOp ==
  ASSUME P!TypeOK, NEW i \in 1 .. Len(ops)
  PROVE  /\ ops[i] \in Op /\ ops[i].pkg \in Pkg /\ ops[i].left \in Seq({"word", "sizes", "body"})
         /\ content[ops[i].pkg] \in Seq(Packet)
<1>1. ops \in Seq(Op)
  BY DEF P!TypeOK, Op
<1>2. ops[i] \in Op
  BY <1>1
<1>3. ops[i].pkg \in Pkg /\ ops[i].left \in Seq({"word", "sizes", "body"})
  BY <1>2 DEF Op
<1> QED BY <1>2, <1>3, OfPackage

LEMMA GoingType ==
  ASSUME P!PackageAssumption, P!TypeOK
  PROVE  Going \in Seq(Unit)
<1>1. CASE ops = <<>>
  BY <1>1 DEF Going
<1>2. CASE ops # <<>>
  <2>1. 1 \in 1 .. Len(ops)
    <3>1. ops \in Seq(Op)
      BY DEF P!TypeOK, Op
    <3> QED BY <1>2, <3>1
  <2> DEFINE f == BufferOf(content[ops[1].pkg])
             l == ops[1].left
  <2>2. l \in Seq({"word", "sizes", "body"}) /\ f \in [{"word", "sizes", "body"} -> Seq(Unit)]
    BY <2>1, OfOp, BufferType
  <2>3. Going = Spread(f, l)
    BY <1>2 DEF Going
  <2> HIDE DEF f, l
  <2> QED BY <2>2, <2>3, SpreadType, Zenon
<1> QED BY <1>1, <1>2

LEMMA WritePacketTypes ==
  ASSUME P!PackageAssumption, P!TypeOK, WriterInv, NEW k \in Pkg, NEW p \in Packet,
         P!WritePacket(k, p)
  PROVE  P!TypeOK' /\ WriterInv'
<1> DEFINE c == content[k]
           b == body[k] \o P!Units(p)
<1>1. /\ k \notin P!ToSet(sent)
      /\ body' = [body EXCEPT ![k] = b]
      /\ sizes' = [sizes EXCEPT ![k] = Append(sizes[k], P!SizeEntry(Len(b) - lastSize[k]))]
      /\ lastSize' = [lastSize EXCEPT ![k] = Len(b)]
      /\ content' = [content EXCEPT ![k] = Append(c, p)]
      /\ UNCHANGED <<packageSize, sent, ops, overlap, failed, wire, reading, readSize, inBuf, handled, misread>>
  BY DEF P!WritePacket, P!EndPacket, P!reader, P!ipackage
<1>2. c \in Seq(Packet) /\ body[k] \in Seq(P!Field) /\ P!Units(p) \in Seq(P!Field)
  BY OfPackage, UnitsAre
<1>3. sizes[k] = EntriesOf(c) /\ body[k] = BodyOf(c) /\ lastSize[k] = Len(body[k])
  BY <1>1 DEF WriterInv
<1>4. Append(c, p) \in Seq(Packet) /\ b \in Seq(P!Field) /\ Len(b) \in Nat
      /\ Len(b) - lastSize[k] = Len(P!Units(p))
  <2>1. b \in Seq(P!Field) /\ Len(b) = Len(body[k]) + Len(P!Units(p))
    BY <1>2, ConcatProperties
  <2>2. Len(body[k]) \in Nat /\ Len(P!Units(p)) \in Nat
    BY <1>2
  <2>3. Append(c, p) \in Seq(Packet)
    BY <1>2
  <2> QED BY <1>3, <2>1, <2>2, <2>3
<1>5. b = BodyOf(Append(c, p))
  BY <1>2, <1>3, BodyIs, Zenon
<1>6. Append(sizes[k], P!SizeEntry(Len(b) - lastSize[k])) = EntriesOf(Append(c, p))
  BY <1>2, <1>3, <1>4, EntriesAre, Zenon
<1>7. EntriesOf(Append(c, p)) \in Seq(P!Number)
  <2>1. Append(c, p) \in Seq(Packet)
    BY <1>4
  <2> QED BY <2>1, EntriesAre, Zenon
<1> DEFINE d == Append(c, p)
           e == EntriesOf(d)
<1>8. /\ sizes' = [sizes EXCEPT ![k] = e] /\ body' = [body EXCEPT ![k] = b]
      /\ content' = [content EXCEPT ![k] = d] /\ lastSize' = [lastSize EXCEPT ![k] = Len(b)]
      /\ e \in Seq(P!Number) /\ b \in Seq(P!Field) /\ d \in Seq(Packet) /\ Len(b) \in Nat
      /\ e = EntriesOf(d) /\ b = BodyOf(d)
  BY <1>1, <1>4, <1>5, <1>6, <1>7, Zenon
<1> HIDE DEF b, d, e, c
<1>9. P!TypeOK'
  <2>1. sizes' \in [Pkg -> Seq(P!Number)] /\ body' \in [Pkg -> Seq(P!Field)]
    BY <1>8, Zenon DEF P!TypeOK
  <2>2. lastSize' \in [Pkg -> Nat] /\ content' \in [Pkg -> Seq(Packet)]
    BY <1>8, Zenon DEF P!TypeOK
  <2> QED BY <1>1, <2>1, <2>2, Zenon DEF P!TypeOK, P!Number, P!Field
<1>10. \A j \in Pkg : j # k => /\ sizes'[j] = sizes[j] /\ body'[j] = body[j] /\ content'[j] = content[j]
                               /\ lastSize'[j] = lastSize[j]
  BY <1>8 DEF P!TypeOK
<1>11. sizes'[k] = e /\ body'[k] = b /\ content'[k] = d /\ lastSize'[k] = Len(b)
  BY <1>8 DEF P!TypeOK
<1>12. P!ToSet(sent)' = P!ToSet(sent) /\ (Quiet' <=> Quiet) /\ ops' = ops
  BY <1>1 DEF Quiet, P!ToSet
<1>13. \A i \in 1 .. Len(ops) : ops[i].pkg \in Pkg /\ ops[i].pkg # k
  BY <1>1, OfOp DEF WriterInv
<1>14. \A i \in 1 .. Len(ops), buffer \in {"word", "sizes", "body"} :
         P!Bytes(ops[i].pkg, buffer)' = P!Bytes(ops[i].pkg, buffer)
  <2> SUFFICES ASSUME NEW i \in 1 .. Len(ops), NEW buffer \in {"word", "sizes", "body"}
               PROVE  P!Bytes(ops[i].pkg, buffer)' = P!Bytes(ops[i].pkg, buffer)
    OBVIOUS
  <2>1. ops[i].pkg \in Pkg /\ ops[i].pkg # k
    BY <1>13
  <2>2. /\ sizes'[ops[i].pkg] = sizes[ops[i].pkg] /\ body'[ops[i].pkg] = body[ops[i].pkg]
        /\ packageSize' = packageSize /\ ops' = ops
    BY <1>1, <1>10, <2>1
  <2> QED BY <2>2 DEF P!Bytes
<1>15. WriterInv'
  <2>1. ASSUME NEW j \in Pkg, j \notin P!ToSet(sent)'
        PROVE  /\ sizes'[j] = EntriesOf(content'[j]) /\ body'[j] = BodyOf(content'[j])
               /\ lastSize'[j] = Len(body'[j])
    <3>1. CASE j = k
      BY <1>8, <1>11, <3>1
    <3>2. CASE j # k
      BY <1>10, <1>12, <2>1, <3>2 DEF WriterInv
    <3> QED BY <3>1, <3>2
  <2>2. \A i \in 1 .. Len(ops') : ops'[i].pkg \in P!ToSet(sent)'
    BY <1>12 DEF WriterInv
  <2>3. ASSUME Quiet'
        PROVE  /\ Len(ops') <= 1
               /\ \A i \in 1 .. Len(ops') : \A buffer \in {"word", "sizes", "body"} :
                    P!Bytes(ops[i].pkg, buffer)' = BufferOf(content'[ops'[i].pkg])[buffer]
    BY <1>10, <1>12, <1>13, <1>14, <2>3 DEF WriterInv
  <2> QED BY <2>1, <2>2, <2>3 DEF WriterInv
<1> QED BY <1>9, <1>15

LEMMA SendTypes ==
  ASSUME P!PackageAssumption, P!TypeOK, WriterInv, NEW k \in Pkg, P!Send(k)
  PROVE  /\ P!TypeOK' /\ WriterInv'
         /\ Quiet' => Quiet /\ Going = <<>> /\ Going' = FrameOf(content[k])
         /\ sent' = Append(sent, k) /\ content[k] \in Seq(Packet)
         /\ UNCHANGED <<content, wire, reading, readSize, inBuf, handled, misread>>
<1> DEFINE c == content[k]
           op == [pkg |-> k, left |-> <<"word", "sizes", "body">>]
           size == Len(sizes'[k]) + Len(body[k])
<1>1. /\ k \notin P!ToSet(sent)
      /\ sizes' = [sizes EXCEPT ![k] = Append(sizes[k], P!SizeEntry(0))]
      /\ packageSize' = [packageSize EXCEPT ![k] = size]
      /\ lastSize' = [lastSize EXCEPT ![k] = 0]
      /\ sent' = Append(sent, k)
      /\ ops' = Append(ops, op)
      /\ overlap' = (overlap \/ ops # <<>>)
      /\ UNCHANGED <<body, content, failed, wire, reading, readSize, inBuf, handled, misread>>
  BY DEF P!Send, P!Pack, P!reader, P!ipackage
<1>2. c \in Seq(Packet) /\ sizes[k] = EntriesOf(c) /\ body[k] = BodyOf(c)
  BY <1>1, OfPackage DEF WriterInv
<1>3. sizes'[k] = ListOf(c)
  BY <1>1, <1>2 DEF ListOf, P!TypeOK
<1>4. size \in Nat /\ size = Len(PayOf(c)) /\ ListOf(c) \in Seq(P!Number) /\ BodyOf(c) \in Seq(P!Field)
  <2>1. ListOf(c) \in Seq(P!Number) /\ BodyOf(c) \in Seq(P!Field)
    BY <1>2, PayIs
  <2>2. ListOf(c) \in Seq(Unit) /\ BodyOf(c) \in Seq(Unit)
    <3>1. P!Number \subseteq Unit /\ P!Field \subseteq Unit
      BY DEF Unit
    <3> QED BY <2>1, <3>1, SeqMonotonic
  <2>3. Len(ListOf(c) \o BodyOf(c)) = Len(ListOf(c)) + Len(BodyOf(c))
    BY <2>2, ConcatProperties
  <2>4. Len(ListOf(c)) \in Nat /\ Len(BodyOf(c)) \in Nat
    BY <2>1
  <2> QED BY <1>2, <1>3, <2>1, <2>3, <2>4 DEF PayOf
<1>5. op \in Op /\ op.pkg = k /\ op.left = <<"word", "sizes", "body">>
  BY DEF Op
<1>6. sizes' = [sizes EXCEPT ![k] = ListOf(c)]
  BY <1>1, <1>2 DEF ListOf
<1>7. /\ ops \in Seq(Op) /\ sent \in Seq(Pkg) /\ Len(ops) \in Nat
      /\ ops' \in Seq(Op) /\ Len(ops') = Len(ops) + 1 /\ ops'[Len(ops) + 1] = op
      /\ \A i \in 1 .. Len(ops) : ops'[i] = ops[i]
  <2>1. ops \in Seq(Op) /\ sent \in Seq(Pkg) /\ Len(ops) \in Nat
    BY DEF P!TypeOK, Op
  <2> HIDE DEF op
  <2> QED BY <1>1, <1>5, <2>1, AppendProperties
<1> HIDE DEF op, size, c
<1>8. P!TypeOK'
  <2>1. sizes' \in [Pkg -> Seq(P!Number)] /\ packageSize' \in [Pkg -> Nat] /\ lastSize' \in [Pkg -> Nat]
    BY <1>1, <1>4, <1>6, Zenon DEF P!TypeOK
  <2>2. sent' \in Seq(Pkg) /\ overlap' \in BOOLEAN
    BY <1>1, <1>7 DEF P!TypeOK
  <2>3. ops' \in Seq([pkg : Pkg, left : Seq({"word", "sizes", "body"})])
    BY <1>7 DEF Op
  <2> QED BY <1>1, <2>1, <2>2, <2>3, Zenon DEF P!TypeOK, P!Number, P!Field
<1>9. P!ToSet(sent)' = P!ToSet(sent) \cup {k}
  <2>1. ToSet(Append(sent, k)) = ToSet(sent) \cup {k}
    BY <1>7, ToSetAppend
  <2>2. P!ToSet(sent)' = ToSet(Append(sent, k)) /\ P!ToSet(sent) = ToSet(sent)
    BY <1>1 DEF P!ToSet, ToSet
  <2> QED BY <2>1, <2>2
<1>10. \A j \in Pkg : j # k => sizes'[j] = sizes[j] /\ lastSize'[j] = lastSize[j]
  BY <1>1, <1>6 DEF P!TypeOK
<1>11. Quiet' => Quiet /\ ops = <<>> /\ Len(ops) = 0
  BY <1>1, <1>7, Zenon DEF Quiet
<1>12. \A buffer \in {"word", "sizes", "body"} :
         P!Bytes(k, buffer)' = BufferOf(c)[buffer]
  <2>1. sizes'[k] = ListOf(c) /\ body'[k] = BodyOf(c) /\ packageSize'[k] = Len(PayOf(c))
    BY <1>1, <1>2, <1>3, <1>4 DEF P!TypeOK
  <2> QED BY <2>1 DEF P!Bytes, BufferOf
<1>13. WriterInv'
  <2>1. ASSUME NEW j \in Pkg, j \notin P!ToSet(sent)'
        PROVE  /\ sizes'[j] = EntriesOf(content'[j]) /\ body'[j] = BodyOf(content'[j])
               /\ lastSize'[j] = Len(body'[j])
    <3>1. j # k /\ j \notin P!ToSet(sent)
      BY <1>9, <2>1
    <3> QED BY <1>1, <1>10, <3>1 DEF WriterInv
  <2>2. ASSUME NEW i \in 1 .. Len(ops') PROVE ops'[i].pkg \in P!ToSet(sent)'
    <3>1. i \in 1 .. Len(ops) \/ i = Len(ops) + 1
      BY <1>7
    <3> QED BY <1>5, <1>7, <1>9, <3>1 DEF WriterInv
  <2>3. ASSUME Quiet'
        PROVE  /\ Len(ops') <= 1
               /\ \A i \in 1 .. Len(ops') : \A buffer \in {"word", "sizes", "body"} :
                    P!Bytes(ops[i].pkg, buffer)' = BufferOf(content'[ops'[i].pkg])[buffer]
    <3>1. Len(ops') = 1 /\ ops'[1].pkg = k
      BY <1>5, <1>7, <1>11, <2>3
    <3>2. \A i \in 1 .. Len(ops') : i = 1
      BY <3>1
    <3>3. \A buffer \in {"word", "sizes", "body"} :
            P!Bytes(ops[1].pkg, buffer)' = P!Bytes(k, buffer)'
      BY <3>1 DEF P!Bytes
    <3>4. content'[ops'[1].pkg] = c
      BY <1>1, <3>1 DEF c
    <3> QED BY <1>12, <3>1, <3>2, <3>3, <3>4
  <2> QED BY <2>1, <2>2, <2>3 DEF WriterInv
<1>14. Quiet' => Going = <<>> /\ Going' = FrameOf(c)
  <2> SUFFICES ASSUME Quiet' PROVE Going = <<>> /\ Going' = FrameOf(c)
    OBVIOUS
  <2>1. Going = <<>>
    BY <1>11 DEF Going
  <2>2. ops' # <<>> /\ ops'[1] = op
    BY <1>7, <1>11
  <2>3. Going' = Spread(BufferOf(content'[k]), <<"word", "sizes", "body">>)
    BY <1>5, <2>2 DEF Going
  <2>4. content'[k] = c
    BY <1>1 DEF c
  <2> QED BY <1>2, <2>1, <2>3, <2>4, BuffersAreFrame
<1> QED BY <1>1, <1>2, <1>8, <1>11, <1>13, <1>14 DEF c

LEMMA TransmitTypes ==
  ASSUME P!PackageAssumption, P!TypeOK, WriterInv, NEW i \in 1 .. Len(ops), P!Transmit(i)
  PROVE  /\ P!TypeOK' /\ WriterInv'
         /\ (Quiet' => Quiet) /\ (Quiet => wire' \o Going' = wire \o Going)
         /\ UNCHANGED <<sent, content, reading, readSize, inBuf, handled, misread>>
<1> DEFINE k == ops[i].pkg
           l == ops[i].left
           new == P!Bytes(k, Head(l))
           Dom == {"word", "sizes", "body"}
<1>1. /\ l # <<>> /\ wire' = wire \o new
      /\ ops' = [ops EXCEPT ![i].left = Tail(l)]
      /\ UNCHANGED <<sizes, body, lastSize, packageSize, sent, content, overlap, failed,
                     reading, readSize, inBuf, handled, misread>>
  BY DEF P!Transmit, P!reader, P!ipackage
<1>2. k \in Pkg /\ l \in Seq(Dom) /\ content[k] \in Seq(Packet) /\ ops[i] \in Op
  BY OfOp
<1>3. Head(l) \in Dom /\ Tail(l) \in Seq(Dom) /\ l = <<Head(l)>> \o Tail(l)
  <2> HIDE DEF l, Dom
  <2> QED BY <1>1, <1>2
<1>4. new \in Seq(Unit)
  <2>1. sizes[k] \in Seq(P!Number) /\ body[k] \in Seq(P!Field) /\ packageSize[k] \in Nat
    BY <1>2, OfPackage
  <2>2. sizes[k] \in Seq(Unit) /\ body[k] \in Seq(Unit)
    <3>1. P!Number \subseteq Unit /\ P!Field \subseteq Unit
      BY DEF Unit
    <3> QED BY <2>1, <3>1, SeqMonotonic
  <2>3. <<<<"word", packageSize[k]>>>> \in Seq(Unit)
    <3>1. <<"word", packageSize[k]>> \in Unit
      BY <2>1 DEF Unit, P!Number
    <3> QED BY <3>1
  <2> HIDE DEF k, l
  <2> QED BY <1>3, <2>2, <2>3 DEF P!Bytes
<1>5. ops \in Seq(Op) /\ wire \in Seq(Unit) /\ Len(ops) \in Nat
  BY DEF P!TypeOK, Op, Unit
<1>6. ops' \in Seq(Op) /\ Len(ops') = Len(ops)
      /\ ops'[i].left = Tail(l) /\ ops'[i].pkg = k
      /\ \A j \in 1 .. Len(ops) : ops'[j].pkg = ops[j].pkg
  <2> DEFINE op == [ops[i] EXCEPT !.left = Tail(l)]
  <2>1. op \in Op /\ op.pkg = k /\ op.left = Tail(l)
    BY <1>2, <1>3, Zenon DEF Op
  <2>2. ops' = [ops EXCEPT ![i] = op]
    BY <1>1
  <2> HIDE DEF op
  <2>3. ops' \in Seq(Op) /\ Len(ops') = Len(ops) /\ ops'[i] = op
        /\ \A j \in 1 .. Len(ops) : j # i => ops'[j] = ops[j]
    BY <1>5, <2>1, <2>2
  <2> QED BY <2>1, <2>3
<1> HIDE DEF new, l, Dom
<1>7. P!TypeOK'
  <2>1. wire' \in Seq(P!Number \cup P!Field)
    <3>1. wire' \in Seq(Unit)
      BY <1>1, <1>4, <1>5, ConcatProperties
    <3> QED BY <3>1 DEF Unit
  <2>2. ops' \in Seq([pkg : Pkg, left : Seq({"word", "sizes", "body"})])
    BY <1>6 DEF Op
  <2> QED BY <1>1, <2>1, <2>2, Zenon DEF P!TypeOK, P!Number, P!Field
<1>8. (Quiet' <=> Quiet) /\ P!ToSet(sent)' = P!ToSet(sent)
  BY <1>1 DEF Quiet, P!ToSet
<1>9. \A j \in 1 .. Len(ops), buffer \in {"word", "sizes", "body"} :
         P!Bytes(ops[j].pkg, buffer)' = P!Bytes(ops[j].pkg, buffer)
  BY <1>1, <1>6, Zenon DEF P!Bytes
<1>10. WriterInv'
  <2>1. \A j \in 1 .. Len(ops') : ops'[j].pkg \in P!ToSet(sent)'
    BY <1>6, <1>8 DEF WriterInv
  <2>2. ASSUME Quiet'
        PROVE  /\ Len(ops') <= 1
               /\ \A j \in 1 .. Len(ops') : \A buffer \in {"word", "sizes", "body"} :
                    P!Bytes(ops[j].pkg, buffer)' = BufferOf(content'[ops'[j].pkg])[buffer]
    BY <1>1, <1>6, <1>8, <1>9, <2>2 DEF WriterInv
  <2>3. \A j \in Pkg : j \notin P!ToSet(sent)' =>
          /\ sizes'[j] = EntriesOf(content'[j]) /\ body'[j] = BodyOf(content'[j])
          /\ lastSize'[j] = Len(body'[j])
    BY <1>1, <1>8 DEF WriterInv
  <2> QED BY <2>1, <2>2, <2>3 DEF WriterInv
<1>11. ASSUME Quiet PROVE wire' \o Going' = wire \o Going
  <2> DEFINE f == BufferOf(content[k])
             t == Tail(l)
             h == Head(l)
  <2>1. i = 1 /\ ops # <<>> /\ ops' # <<>>
    <3>1. Len(ops) <= 1
      BY <1>11 DEF WriterInv
    <3> QED BY <1>5, <1>6, <3>1
  <2>2. Going = Spread(f, l)
    BY <2>1 DEF Going, l
  <2>3. Going' = Spread(f, t)
    BY <1>1, <1>6, <2>1 DEF Going
  <2>4. new = f[h]
    BY <1>3, <1>11 DEF new, WriterInv, Dom
  <2>5. f \in [Dom -> Seq(Unit)]
    BY <1>2, BufferType DEF Dom
  <2> HIDE DEF f, t, h
  <2>6. h \in Dom /\ t \in Seq(Dom) /\ l = <<h>> \o t
    BY <1>3 DEF h, t
  <2>7. Going = f[h] \o Spread(f, t)
    BY <2>2, <2>5, <2>6, SpreadCons, Zenon
  <2> DEFINE g == Spread(f, t)
  <2>8. g \in Seq(Unit)
    BY <2>5, <2>6, SpreadType, Zenon
  <2> HIDE DEF g
  <2>9. (wire \o new) \o g = wire \o (new \o g)
    BY <1>4, <1>5, <2>8, JoinUnits, Zenon
  <2> QED BY <1>1, <2>3, <2>4, <2>7, <2>9 DEF g
<1> QED BY <1>1, <1>7, <1>8, <1>10, <1>11, Zenon

LEMMA HandleSendTypes ==
  ASSUME P!PackageAssumption, P!TypeOK, WriterInv, NEW i \in 1 .. Len(ops), P!HandleSend(i)
  PROVE  /\ P!TypeOK' /\ WriterInv'
         /\ (Quiet' => Quiet /\ Going = <<>> /\ Going' = <<>>)
         /\ UNCHANGED <<sent, content, wire, reading, readSize, inBuf, handled, misread>>
<1> DEFINE k == ops[i].pkg
<1>1. /\ sizes' = [sizes EXCEPT ![k] = <<>>] /\ body' = [body EXCEPT ![k] = <<>>]
      /\ failed' = (failed \/ ops[i].left # <<>>)
      /\ ops' = P!RemoveAt(ops, i)
      /\ UNCHANGED <<lastSize, packageSize, sent, content, overlap, wire, reading, readSize, inBuf, handled,
                     misread>>
  BY DEF P!HandleSend, P!Consume, P!reader, P!ipackage
<1>2. k \in Pkg /\ k \in P!ToSet(sent)
  BY OfOp DEF WriterInv
<1>3. ops \in Seq(Op) /\ Len(ops) \in Nat /\ i >= 1 /\ i <= Len(ops)
  BY DEF P!TypeOK, Op
<1>4. /\ ops' \in Seq(Op) /\ Len(ops') = Len(ops) - 1
      /\ \A j \in 1 .. Len(ops') : \E m \in 1 .. Len(ops) : ops'[j] = ops[m]
  <2> DEFINE a == SubSeq(ops, 1, i - 1)
             b == SubSeq(ops, i + 1, Len(ops))
  <2>1. ops' = a \o b
    BY <1>1 DEF P!RemoveAt
  <2>2. a \in Seq(Op) /\ Len(a) = i - 1 /\ \A j \in 1 .. i - 1 : a[j] = ops[j]
    BY <1>3
  <2>3. b \in Seq(Op) /\ Len(b) = Len(ops) - i /\ \A j \in 1 .. Len(ops) - i : b[j] = ops[i + j]
    <3>1. \A j \in i + 1 .. Len(ops) : ops[j] \in Op
      BY <1>3
    <3>2. i + 1 \in Int /\ Len(ops) \in Int
      BY <1>3
    <3>3. /\ b \in Seq(Op) /\ Len(b) = IF i + 1 <= Len(ops) THEN Len(ops) - (i + 1) + 1 ELSE 0
          /\ \A j \in 1 .. Len(ops) - (i + 1) + 1 : b[j] = ops[(i + 1) + j - 1]
      BY <3>1, <3>2, SubSeqProperties
    <3> HIDE DEF b
    <3>4. Len(b) = Len(ops) - i
      BY <1>3, <3>3
    <3>5. \A j \in 1 .. Len(ops) - i : b[j] = ops[i + j]
      <4> SUFFICES ASSUME NEW j \in 1 .. Len(ops) - i PROVE b[j] = ops[i + j]
        OBVIOUS
      <4>1. j \in 1 .. Len(ops) - (i + 1) + 1 /\ (i + 1) + j - 1 = i + j
        BY <1>3
      <4> QED BY <3>3, <4>1
    <3> QED BY <3>3, <3>4, <3>5
  <2> HIDE DEF a, b
  <2>4. ops' \in Seq(Op) /\ Len(ops') = Len(ops) - 1
    <3>1. ops' \in Seq(Op) /\ Len(ops') = Len(a) + Len(b)
      BY <2>1, <2>2, <2>3, ConcatProperties, Zenon
    <3>2. (i - 1) + (Len(ops) - i) = Len(ops) - 1
      BY <1>3
    <3> QED BY <2>2, <2>3, <3>1, <3>2
  <2>5. ASSUME NEW j \in 1 .. Len(ops') PROVE \E m \in 1 .. Len(ops) : ops'[j] = ops[m]
    <3>1. CASE j <= i - 1
      <4>1. j \in 1 .. i - 1 /\ j \in 1 .. Len(ops)
        BY <1>3, <2>4, <2>5, <3>1
      <4>2. ops'[j] = a[j]
        BY <2>1, <2>2, <2>3, <2>4, <4>1
      <4> QED BY <2>2, <4>1, <4>2
    <3>2. CASE ~(j <= i - 1)
      <4>1. j - (i - 1) \in 1 .. Len(ops) - i /\ i + (j - (i - 1)) \in 1 .. Len(ops)
        BY <1>3, <2>4, <2>5, <3>2
      <4>2. ops'[j] = b[j - (i - 1)]
        BY <1>3, <2>1, <2>2, <2>3, <2>4, <2>5, <3>2
      <4> QED BY <2>3, <4>1, <4>2, Zenon
    <3> QED BY <3>1, <3>2
  <2> QED BY <2>4, <2>5
<1> HIDE DEF k
<1>5. P!TypeOK'
  <2>1. sizes' \in [Pkg -> Seq(P!Number)] /\ body' \in [Pkg -> Seq(P!Field)]
    <3>1. <<>> \in Seq(P!Number) /\ <<>> \in Seq(P!Field)
      OBVIOUS
    <3>2. sizes \in [Pkg -> Seq(P!Number)] /\ body \in [Pkg -> Seq(P!Field)]
      BY Zenon DEF P!TypeOK
    <3> DEFINE z == <<>>
    <3>3. z \in Seq(P!Number) /\ z \in Seq(P!Field) /\ sizes' = [sizes EXCEPT ![k] = z]
          /\ body' = [body EXCEPT ![k] = z]
      BY <1>1, <3>1
    <3> HIDE DEF z
    <3> QED BY <3>2, <3>3, Zenon
  <2>2. ops' \in Seq([pkg : Pkg, left : Seq({"word", "sizes", "body"})])
    BY <1>4 DEF Op
  <2>3. failed' \in BOOLEAN
    BY <1>1 DEF P!TypeOK
  <2> QED BY <1>1, <2>1, <2>2, <2>3, Zenon DEF P!TypeOK, P!Number, P!Field
<1>6. P!ToSet(sent)' = P!ToSet(sent)
  BY <1>1 DEF P!ToSet
<1>7. Quiet' => Quiet /\ Len(ops) <= 1 /\ ops[i].left = <<>>
  BY <1>1, Zenon DEF Quiet, WriterInv
<1>8. WriterInv'
  <2>1. ASSUME NEW j \in Pkg, j \notin P!ToSet(sent)'
        PROVE  /\ sizes'[j] = EntriesOf(content'[j]) /\ body'[j] = BodyOf(content'[j])
               /\ lastSize'[j] = Len(body'[j])
    <3>1. j # k /\ j \notin P!ToSet(sent)
      BY <1>2, <1>6, <2>1
    <3>2. sizes'[j] = sizes[j] /\ body'[j] = body[j]
      BY <1>1, <3>1 DEF P!TypeOK
    <3> QED BY <1>1, <3>1, <3>2 DEF WriterInv
  <2>2. ASSUME NEW j \in 1 .. Len(ops') PROVE ops'[j].pkg \in P!ToSet(sent)'
    BY <1>4, <1>6 DEF WriterInv
  <2>3. ASSUME Quiet'
        PROVE  /\ Len(ops') <= 1
               /\ \A j \in 1 .. Len(ops') : \A buffer \in {"word", "sizes", "body"} :
                    P!Bytes(ops[j].pkg, buffer)' = BufferOf(content'[ops'[j].pkg])[buffer]
    <3>1. Len(ops') = 0
      BY <1>3, <1>4, <1>7, <2>3
    <3> QED BY <3>1
  <2> QED BY <2>1, <2>2, <2>3 DEF WriterInv
<1>9. Quiet' => Going = <<>> /\ Going' = <<>>
  <2> SUFFICES ASSUME Quiet' PROVE Going = <<>> /\ Going' = <<>>
    OBVIOUS
  <2>1. i = 1 /\ ops[1].left = <<>>
    BY <1>3, <1>7
  <2>2. ops' = <<>>
    BY <1>3, <1>4, <1>7
  <2> QED BY <2>1, <2>2, SpreadEmpty DEF Going
<1> QED BY <1>1, <1>5, <1>7, <1>8, <1>9

------------------------------------------------------------------------------
(* The reader.                                                             *)

LEMMA WriterStays ==
  ASSUME WriterInv, UNCHANGED P!writer
  PROVE  WriterInv' /\ Quiet' = Quiet /\ Going' = Going
<1>1. UNCHANGED <<sizes, body, lastSize, packageSize, sent, content, ops, overlap, failed>>
  BY DEF P!writer
<1>2. P!ToSet(sent)' = P!ToSet(sent) /\ Quiet' = Quiet /\ Going' = Going
  BY <1>1 DEF P!ToSet, Quiet, Going
<1>3. \A k, b : P!Bytes(k, b)' = P!Bytes(k, b)
  BY <1>1 DEF P!Bytes
<1> QED BY <1>1, <1>2, <1>3 DEF WriterInv

LEMMA ReadPackageSizeTypes ==
  ASSUME P!PackageAssumption, P!TypeOK, P!ReadPackageSize
  PROVE  P!TypeOK' /\ UNCHANGED P!writer
<1>1. wire # <<>> /\ wire \in Seq(Unit) /\ wire' = Tail(wire) /\ UNCHANGED <<P!writer, inBuf, handled>>
  BY DEF P!ReadPackageSize, P!TypeOK, Unit
<1>2. wire[1] \in Unit /\ Tail(wire) \in Seq(Unit)
  BY <1>1
<1>3. wire[1][1] = "word" => wire[1][2] \in Nat
  <2>1. wire[1] \in P!Number \/ wire[1] \in P!Field
    BY <1>2 DEF Unit
  <2> QED BY <2>1 DEF P!Number, P!Field, P!PackageAssumption
<1>4. readSize' \in Nat /\ reading' \in {"size", "package", "stopped"} /\ misread' \in BOOLEAN
  BY <1>3, Zenon DEF P!ReadPackageSize, P!PackageSize, P!TypeOK
<1>5. wire' \in Seq(P!Number \cup P!Field)
  BY <1>1, <1>2 DEF Unit
<1>6. UNCHANGED <<sizes, body, lastSize, packageSize, sent, content, ops, overlap, failed>>
  BY <1>1 DEF P!writer
<1> QED BY <1>1, <1>4, <1>5, <1>6, Zenon DEF P!TypeOK, P!Number, P!Field

LEMMA ReadErrorTypes ==
  ASSUME P!TypeOK, P!ReadError
  PROVE  /\ P!TypeOK' /\ reading' = "stopped"
         /\ UNCHANGED <<P!writer, wire, readSize, inBuf, handled, misread>>
<1>1. /\ reading' = "stopped" /\ UNCHANGED <<P!writer, wire, readSize, inBuf, handled, misread>>
      /\ UNCHANGED <<sizes, body, lastSize, packageSize, sent, content, ops, overlap, failed>>
  BY DEF P!ReadError, P!writer
<1> QED BY <1>1, Zenon DEF P!TypeOK, P!Number, P!Field

\* What is read after count sizes of the packets.
StartOf(buf, count) ==
  [buf |-> SubSeq(buf, count + 2, Len(buf)), handled |-> handled, broken |-> FALSE]
EndOf(buf, count) == P!TakePackets(StartOf(buf, count), [i \in 1 .. count |-> buf[i][2]])

LEMMA CommittedType ==
  ASSUME P!TypeOK, Len(wire) >= readSize
  PROVE  /\ P!Committed \in Seq(Unit)
         /\ SubSeq(wire, 1, readSize) \in Seq(Unit)
         /\ SubSeq(wire, readSize + 1, Len(wire)) \in Seq(Unit)
<1>1. wire \in Seq(Unit) /\ inBuf \in Seq(Unit) /\ readSize \in Nat /\ Len(wire) \in Nat
  BY DEF P!TypeOK, Unit
<1>2. \A i \in 1 .. Len(wire) : wire[i] \in Unit
  BY <1>1
<1>3. SubSeq(wire, 1, readSize) \in Seq(Unit)
  <2>1. \A i \in 1 .. readSize : wire[i] \in Unit
    BY <1>1, <1>2
  <2> QED BY <1>1, <2>1, SubSeqProperties
<1>4. SubSeq(wire, readSize + 1, Len(wire)) \in Seq(Unit)
  <2>1. \A i \in readSize + 1 .. Len(wire) : wire[i] \in Unit
    BY <1>1, <1>2
  <2> QED BY <1>1, <2>1, SubSeqProperties
<1> QED BY <1>1, <1>3, <1>4, ConcatProperties DEF P!Committed

LEMMA EndType ==
  ASSUME P!PackageAssumption, P!TypeOK, NEW w \in Seq(Unit), NEW n \in Nat, n < Len(w)
  PROVE  StartOf(w, n) \in Spot /\ EndOf(w, n) \in Spot
<1>1. Len(w) \in Nat /\ handled \in Seq(Packet)
  BY DEF P!TypeOK
<1>2. SubSeq(w, n + 2, Len(w)) \in Seq(Unit)
  <2>1. \A i \in n + 2 .. Len(w) : w[i] \in Unit
    BY <1>1
  <2> QED BY <1>1, <2>1, SubSeqProperties
<1>3. StartOf(w, n) \in Spot
  BY <1>1, <1>2 DEF StartOf, Spot
<1> DEFINE ps == [i \in 1 .. n |-> w[i][2]]
           T == {w[i][2] : i \in 1 .. n}
<1>4. ps \in Seq(T) /\ Len(ps) = n
  <2>1. ps \in [1 .. n -> T]
    OBVIOUS
  <2> HIDE DEF ps, T
  <2> QED BY <2>1
<1> HIDE DEF ps, T
<1>5. PICK at \in [0 .. Len(ps) -> Spot] : P!TakePackets(StartOf(w, n), ps) = at[Len(ps)]
  BY <1>3, <1>4, TakePacketsIs, Zenon
<1>6. P!TakePackets(StartOf(w, n), ps) \in Spot
  BY <1>4, <1>5
<1> QED BY <1>3, <1>6 DEF EndOf, ps

LEMMA ReadPackageTypes ==
  ASSUME P!PackageAssumption, P!TypeOK, P!ReadPackage
  PROVE  /\ P!TypeOK' /\ UNCHANGED P!writer
         /\ reading = "package" /\ reading' = "size" /\ ~misread /\ Len(wire) >= readSize
         /\ wire' = SubSeq(wire, readSize + 1, Len(wire))
         /\ P!ListLength(P!Committed) = None => misread' /\ UNCHANGED <<inBuf, handled>>
         /\ P!ListLength(P!Committed) # None =>
              LET end == EndOf(P!Committed, P!ListLength(P!Committed))
              IN  end \in Spot /\ inBuf' = end.buf /\ handled' = end.handled /\ misread' = end.broken
<1> DEFINE w == P!Committed
           n == P!ListLength(w)
<1>1. /\ reading = "package" /\ reading' = "size" /\ ~misread /\ Len(wire) >= readSize
      /\ wire' = SubSeq(wire, readSize + 1, Len(wire)) /\ UNCHANGED <<P!writer, readSize>>
  BY DEF P!ReadPackage
<1>2. w \in Seq(Unit) /\ wire' \in Seq(Unit)
  BY <1>1, CommittedType
<1>3. n = None => misread' /\ UNCHANGED <<inBuf, handled>>
  BY DEF P!ReadPackage
<1>4. n # None => inBuf' = EndOf(w, n).buf /\ handled' = EndOf(w, n).handled /\ misread' = EndOf(w, n).broken
  BY DEF P!ReadPackage, EndOf, StartOf, P!Ignore
<1>5. n # None => EndOf(w, n) \in Spot
  <2> HIDE DEF w
  <2>1. n # None => n \in Nat /\ n < Len(w)
    BY <1>2, ListLengthType
  <2> QED BY <1>2, <2>1, EndType
<1> HIDE DEF w, n
<1>6. inBuf' \in Seq(Unit) /\ handled' \in Seq(Packet) /\ misread' \in BOOLEAN
  <2>1. CASE n = None
    BY <1>3, <2>1 DEF P!TypeOK, Unit
  <2>2. CASE n # None
    BY <1>4, <1>5, <2>2 DEF Spot
  <2> QED BY <2>1, <2>2
<1>7. UNCHANGED <<sizes, body, lastSize, packageSize, sent, content, ops, overlap, failed>>
  BY <1>1 DEF P!writer
<1>8. P!TypeOK'
  <2>1. /\ inBuf' \in Seq(P!Number \cup P!Field) /\ wire' \in Seq(P!Number \cup P!Field)
        /\ reading' \in {"size", "package", "stopped"}
    BY <1>1, <1>2, <1>6 DEF Unit
  <2> QED BY <1>1, <1>6, <1>7, <2>1, Zenon DEF P!TypeOK, P!Number, P!Field
<1> QED BY <1>1, <1>3, <1>4, <1>5, <1>8 DEF w, n

\* What was sent, package by package.
Contents == [i \in DOMAIN sent |-> content[sent[i]]]

\* Something was sent that nobody reads.
Missed == \E k \in P!ToSet(sent) : P!ToSet(content[k]) \cap Unread # {}

FromSent(rest) == \A i \in 1 .. Len(rest) : \E k \in P!ToSet(sent) : rest[i] = content[k]

\* The wire, with what a write is going to put on it, holds the packages of rest;
\* the size word of the first one has been read when a package is waited for.
Ahead(rest) ==
  /\ reading = "size" => wire \o Going = FramesOf(rest)
  /\ reading = "package" => /\ rest # <<>> /\ readSize = Len(PayOf(Head(rest)))
                            /\ wire \o Going = PayOf(Head(rest)) \o FramesOf(Tail(rest))

\* What was handled is the start of what was to be read, and unless the reader has
\* lost its place the rest is what the packages ahead hold.
ReaderInv ==
  Quiet =>
    /\ reading = "package" => ~misread
    /\ \E rest \in Seq(Seq(Packet)), r \in Seq(Packet) :
         /\ FromSent(rest) /\ Ahead(rest) /\ handled \o r = P!Expected
         /\ ~misread => r = ReadsOf(rest)

LeftInv ==
  Quiet => /\ ~misread => inBuf \in Seq(Leftover)
           /\ inBuf # <<>> \/ misread => Missed

LEMMA ReadsType ==
  ASSUME P!PackageAssumption
  PROVE  [c \in Seq(Packet) |-> P!Reads(c)] \in [Seq(Packet) -> Seq(Packet)]
<1>1. \A c \in Seq(Packet) : P!Reads(c) \in Seq(Packet)
  <2> TAKE c \in Seq(Packet)
  <2>1. CASE Packet = {}
    <3>1. c = <<>>
      BY <2>1
    <3>2. [i \in DOMAIN c |-> IF c[i] \in Unread THEN <<>> ELSE <<c[i]>>] = <<>>
      BY <3>1
    <3>3. P!Reads(c) = <<>>
      BY <3>2, FlattenEmpty, SameOperators DEF P!Reads
    <3> QED BY <3>3
  <2>2. CASE Packet # {}
    <3>1. PICK p : p \in Packet
      BY <2>2
    <3> QED BY <3>1, ReadsIs, Zenon
  <2> QED BY <2>1, <2>2
<1> QED BY <1>1

\* What is read of a sequence of packages, and what is on the wire for it.
LEMMA PackagesOf ==
  ASSUME P!PackageAssumption, NEW q \in Seq(Seq(Packet)), NEW c \in Seq(Packet)
  PROVE  /\ ReadsOf(q) \in Seq(Packet) /\ FramesOf(q) \in Seq(Unit)
         /\ P!Reads(c) \in Seq(Packet) /\ FrameOf(c) \in Seq(Unit)
         /\ ReadsOf(Append(q, c)) = ReadsOf(q) \o P!Reads(c)
         /\ FramesOf(Append(q, c)) = FramesOf(q) \o FrameOf(c)
         /\ ReadsOf(<<c>> \o q) = P!Reads(c) \o ReadsOf(q)
         /\ FramesOf(<<c>> \o q) = FrameOf(c) \o FramesOf(q)
         /\ FramesOf(<<>>) = <<>>
<1> DEFINE f == [d \in Seq(Packet) |-> P!Reads(d)]
           g == [d \in Seq(Packet) |-> FrameOf(d)]
           Dom == Seq(Packet)
<1>1. f \in [Dom -> Seq(Packet)] /\ f[c] = P!Reads(c) /\ \A s : ReadsOf(s) = Spread(f, s)
  BY ReadsType DEF ReadsOf
<1>2. g \in [Dom -> Seq(Unit)] /\ g[c] = FrameOf(c) /\ \A s : FramesOf(s) = Spread(g, s)
  BY FrameType DEF FramesOf
<1>3. q \in Seq(Dom) /\ c \in Dom
  OBVIOUS
<1> HIDE DEF f, g, Dom
<1>4. Spread(f, q) \in Seq(Packet)
  BY <1>1, <1>3, SpreadType, Zenon
<1>5. Spread(g, q) \in Seq(Unit)
  BY <1>2, <1>3, SpreadType
<1>6. f \in [Dom -> Seq(Packet)] => Spread(f, Append(q, c)) = Spread(f, q) \o f[c]
  BY <1>3, SpreadAppend, Zenon
<1>7. g \in [Dom -> Seq(Unit)] => Spread(g, Append(q, c)) = Spread(g, q) \o g[c]
  BY <1>3, SpreadAppend, Zenon
<1>8. f \in [Dom -> Seq(Packet)] => Spread(f, <<c>> \o q) = f[c] \o Spread(f, q)
  BY <1>3, SpreadCons, ZenonT(30)
<1>9. g \in [Dom -> Seq(Unit)] => Spread(g, <<c>> \o q) = g[c] \o Spread(g, q)
  BY <1>3, SpreadCons, ZenonT(30)
<1>10. f[c] \in Seq(Packet) /\ g[c] \in Seq(Unit)
  BY <1>1, <1>2, <1>3
<1>11. Spread(g, <<>>) = <<>>
  BY SpreadEmpty
<1>12. ReadsOf(q) \in Seq(Packet) /\ FramesOf(q) \in Seq(Unit)
  BY <1>1, <1>2, <1>4, <1>5
<1>13. P!Reads(c) \in Seq(Packet) /\ FrameOf(c) \in Seq(Unit)
  BY <1>1, <1>2, <1>10
<1>14. ReadsOf(Append(q, c)) = ReadsOf(q) \o P!Reads(c) /\ ReadsOf(<<c>> \o q) = P!Reads(c) \o ReadsOf(q)
  BY <1>1, <1>6, <1>8, Zenon
<1>15. FramesOf(Append(q, c)) = FramesOf(q) \o FrameOf(c) /\ FramesOf(<<c>> \o q) = FrameOf(c) \o FramesOf(q)
  BY <1>2, <1>7, <1>9, Zenon
<1> QED BY <1>2, <1>11, <1>12, <1>13, <1>14, <1>15, Zenon

LEMMA ContentsAre ==
  ASSUME P!PackageAssumption, NEW q \in Seq(Pkg), NEW x \in [Pkg -> Seq(Packet)]
  PROVE  /\ [i \in DOMAIN q |-> x[q[i]]] \in Seq(Seq(Packet))
         /\ P!FlattenSeq([i \in DOMAIN q |-> P!Reads(x[q[i]])]) = ReadsOf([i \in DOMAIN q |-> x[q[i]]])
<1>1. DOMAIN q = 1 .. Len(q) /\ Len(q) \in Nat
  OBVIOUS
<1> DEFINE n == Len(q)
           y == [i \in DOMAIN q |-> x[q[i]]]
           f == [d \in Seq(Packet) |-> P!Reads(d)]
<1>2. y \in [1 .. n -> Seq(Packet)]
  <2>1. \A i \in 1 .. n : q[i] \in Pkg
    BY <1>1
  <2>2. \A i \in 1 .. n : x[q[i]] \in Seq(Packet)
    BY <1>1, <2>1
  <2> QED BY <1>1, <2>2
<1>3. y \in Seq(Seq(Packet)) /\ DOMAIN y = DOMAIN q
  <2>1. n \in Nat /\ DOMAIN q = 1 .. n
    BY <1>1
  <2> HIDE DEF n, y
  <2>2. y \in Seq(Seq(Packet)) /\ DOMAIN y = 1 .. n
    BY <1>2, <2>1
  <2> QED BY <2>1, <2>2
<1>4. \A i \in DOMAIN q : f[y[i]] = P!Reads(x[q[i]])
  <2>1. \A i \in DOMAIN q : y[i] = x[q[i]] /\ y[i] \in Seq(Packet)
    BY <1>1, <1>2
  <2> HIDE DEF y
  <2> QED BY <2>1
<1> HIDE DEF f, y
<1>5. Pieces(f, y) = [i \in DOMAIN q |-> P!Reads(x[q[i]])]
  BY <1>3, <1>4 DEF Pieces
<1>6. P!FlattenSeq([i \in DOMAIN q |-> P!Reads(x[q[i]])]) = Spread(f, y)
  BY <1>5, SameOperators DEF Spread
<1> QED BY <1>3, <1>6 DEF ReadsOf, f, y

LEMMA ExpectedIs ==
  ASSUME P!PackageAssumption, P!TypeOK
  PROVE  /\ Contents \in Seq(Seq(Packet))
         /\ P!Expected = ReadsOf(Contents) /\ P!Expected \in Seq(Packet)
<1>1. sent \in Seq(Pkg) /\ content \in [Pkg -> Seq(Packet)]
  BY DEF P!TypeOK
<1>2. Contents \in Seq(Seq(Packet)) /\ P!Expected = ReadsOf(Contents)
  BY <1>1, ContentsAre, Zenon DEF Contents, P!Expected
<1>3. <<>> \in Seq(Packet)
  OBVIOUS
<1> QED BY <1>2, <1>3, PackagesOf, Zenon

\* What the writer does to packages it has sent already the reader does not see.
LEMMA WriterStep ==
  ASSUME P!TypeOK, ReaderInv, LeftInv, UNCHANGED <<sent, reading, readSize, inBuf, handled, misread>>,
         Quiet' => Quiet /\ wire' \o Going' = wire \o Going,
         \A k \in P!ToSet(sent) : content'[k] = content[k]
  PROVE  ReaderInv' /\ LeftInv'
<1>1. P!ToSet(sent)' = P!ToSet(sent) /\ \A i \in DOMAIN sent : sent[i] \in P!ToSet(sent)
  BY DEF P!ToSet
<1>2. P!Expected' = P!Expected
  <2>1. \A i \in DOMAIN sent : content'[sent[i]] = content[sent[i]]
    BY <1>1
  <2>2. [i \in DOMAIN sent' |-> P!Reads(content'[sent'[i]])] = [i \in DOMAIN sent |-> P!Reads(content[sent[i]])]
    BY <2>1
  <2> QED BY <2>2 DEF P!Expected
<1>3. Missed' <=> Missed
  BY <1>1 DEF Missed
<1>4. \A rest : FromSent(rest) => FromSent(rest)'
  BY <1>1 DEF FromSent
<1>5. ASSUME NEW rest, Quiet', Ahead(rest) PROVE Ahead(rest)'
  <2>1. wire' \o Going' = wire \o Going
    BY <1>5
  <2> QED BY <1>5, <2>1, Zenon DEF Ahead
<1>6. ReaderInv'
  <2> SUFFICES ASSUME Quiet'
               PROVE  /\ reading' = "package" => ~misread'
                      /\ \E rest \in Seq(Seq(Packet)), r \in Seq(Packet) :
                           /\ FromSent(rest)' /\ Ahead(rest)' /\ handled' \o r = P!Expected'
                           /\ ~misread' => r = ReadsOf(rest)
    BY Zenon DEF ReaderInv
  <2>1. PICK rest \in Seq(Seq(Packet)), r \in Seq(Packet) :
          /\ FromSent(rest) /\ Ahead(rest) /\ handled \o r = P!Expected
          /\ ~misread => r = ReadsOf(rest)
    BY Zenon DEF ReaderInv
  <2>2. FromSent(rest)' /\ Ahead(rest)' /\ handled' \o r = P!Expected' /\ (~misread' => r = ReadsOf(rest))
    BY <1>2, <1>4, <1>5, <2>1
  <2>3. reading' = "package" => ~misread'
    BY DEF ReaderInv
  <2> QED BY <2>2, <2>3, Zenon
<1>7. LeftInv'
  BY <1>3 DEF LeftInv
<1> QED BY <1>6, <1>7

LEMMA SendReader ==
  ASSUME P!PackageAssumption, P!TypeOK, WriterInv, ReaderInv, LeftInv, NEW k \in Pkg, P!Send(k)
  PROVE  ReaderInv' /\ LeftInv'
<1> DEFINE c == content[k]
<1>1. /\ P!TypeOK' /\ (Quiet' => Quiet /\ Going = <<>> /\ Going' = FrameOf(c))
      /\ sent' = Append(sent, k) /\ c \in Seq(Packet)
      /\ UNCHANGED <<content, wire, reading, readSize, inBuf, handled, misread>>
  BY SendTypes
<1>2. sent \in Seq(Pkg) /\ wire \in Seq(Unit) /\ handled \in Seq(Packet)
  BY DEF P!TypeOK, Unit
<1>3. k \in P!ToSet(sent)' /\ \A j \in P!ToSet(sent) : j \in P!ToSet(sent)'
  <2>1. /\ Len(sent') = Len(sent) + 1 /\ sent' \in Seq(Pkg) /\ Len(sent) \in Nat
        /\ sent'[Len(sent) + 1] = k /\ \A i \in 1 .. Len(sent) : sent'[i] = sent[i]
    BY <1>1, <1>2, AppendProperties
  <2>2. DOMAIN sent' = 1 .. Len(sent) + 1 /\ DOMAIN sent = 1 .. Len(sent)
    BY <1>2, <2>1
  <2>3. \A i \in 1 .. Len(sent) : i \in DOMAIN sent'
    BY <2>1, <2>2
  <2>4. Len(sent) + 1 \in DOMAIN sent'
    BY <2>1, <2>2
  <2> QED BY <2>1, <2>2, <2>3, <2>4 DEF P!ToSet
<1>4. P!Expected' = P!Expected \o P!Reads(c) /\ P!Expected \in Seq(Packet) /\ P!Reads(c) \in Seq(Packet)
  <2>1. Contents \in Seq(Seq(Packet)) /\ Contents' \in Seq(Seq(Packet))
        /\ P!Expected = ReadsOf(Contents) /\ P!Expected' = ReadsOf(Contents')
        /\ P!Expected \in Seq(Packet)
    <3>1. /\ Contents \in Seq(Seq(Packet)) /\ P!Expected = ReadsOf(Contents) /\ P!Expected \in Seq(Packet)
      BY ExpectedIs
    <3>2. Contents' \in Seq(Seq(Packet)) /\ P!Expected' = ReadsOf(Contents')
      <4>1. sent' \in Seq(Pkg) /\ content' \in [Pkg -> Seq(Packet)]
        BY <1>1 DEF P!TypeOK
      <4> QED BY <4>1, ContentsAre, Zenon DEF Contents, P!Expected
    <3> QED BY <3>1, <3>2
  <2>2. Contents' = Append(Contents, c)
    <3>1. /\ Len(sent') = Len(sent) + 1 /\ Len(sent) \in Nat /\ DOMAIN sent' = 1 .. Len(sent) + 1
          /\ DOMAIN sent = 1 .. Len(sent)
          /\ sent'[Len(sent) + 1] = k /\ \A i \in 1 .. Len(sent) : sent'[i] = sent[i]
      BY <1>1, <1>2, AppendProperties
    <3> DEFINE n == Len(sent)
               x == Contents
               y == Contents'
    <3>2. DOMAIN x = 1 .. n /\ DOMAIN y = 1 .. n + 1 /\ n \in Nat
      BY <3>1 DEF Contents
    <3>3. \A i \in 1 .. n : x[i] = content[sent[i]] /\ y[i] = x[i]
      BY <1>1, <3>1 DEF Contents
    <3>4. y[n + 1] = c
      BY <1>1, <3>1 DEF Contents
    <3>5. x \in Seq(Seq(Packet)) /\ y \in Seq(Seq(Packet))
      BY <2>1
    <3> HIDE DEF x, y, n, c
    <3>6. Len(x) = n /\ Len(y) = n + 1
      BY <3>2, <3>5
    <3>7. c \in Seq(Packet)
      BY <1>1
    <3>8. /\ Append(x, c) \in Seq(Seq(Packet)) /\ Len(Append(x, c)) = n + 1 /\ Append(x, c)[n + 1] = c
          /\ \A i \in 1 .. n : Append(x, c)[i] = x[i]
      BY <3>5, <3>6, <3>7, AppendProperties
    <3>9. \A i \in 1 .. n + 1 : y[i] = Append(x, c)[i]
      <4> SUFFICES ASSUME NEW i \in 1 .. n + 1 PROVE y[i] = Append(x, c)[i]
        BY Zenon
      <4>1. i \in 1 .. n \/ i = n + 1
        BY <3>2
      <4> QED BY <3>3, <3>4, <3>8, <4>1
    <3>10. y = Append(x, c)
      BY <3>5, <3>6, <3>8, <3>9, SeqEqual
    <3> QED BY <3>10 DEF x, y
  <2>3. ReadsOf(Append(Contents, c)) = ReadsOf(Contents) \o P!Reads(c) /\ P!Reads(c) \in Seq(Packet)
    BY <1>1, <2>1, PackagesOf, Zenon
  <2> QED BY <2>1, <2>2, <2>3
<1>5. Missed => Missed'
  BY <1>1, <1>3 DEF Missed
<1>6. LeftInv'
  BY <1>1, <1>5 DEF LeftInv
<1>7. ReaderInv'
  <2> SUFFICES ASSUME Quiet'
               PROVE  /\ reading' = "package" => ~misread'
                      /\ \E rest \in Seq(Seq(Packet)), r \in Seq(Packet) :
                           /\ FromSent(rest)' /\ Ahead(rest)' /\ handled' \o r = P!Expected'
                           /\ ~misread' => r = ReadsOf(rest)
    BY Zenon DEF ReaderInv
  <2>1. PICK rest \in Seq(Seq(Packet)), r \in Seq(Packet) :
          /\ FromSent(rest) /\ Ahead(rest) /\ handled \o r = P!Expected
          /\ ~misread => r = ReadsOf(rest)
    BY <1>1, Zenon DEF ReaderInv
  <2> PICK q : q = Append(rest, c)
    BY Zenon
  <2> PICK s : s = r \o P!Reads(c)
    BY Zenon
  <2>2. /\ q \in Seq(Seq(Packet)) /\ s \in Seq(Packet)
        /\ FramesOf(q) = FramesOf(rest) \o FrameOf(c) /\ ReadsOf(q) = ReadsOf(rest) \o P!Reads(c)
        /\ FramesOf(rest) \in Seq(Unit) /\ FrameOf(c) \in Seq(Unit)
    <3>1. q \in Seq(Seq(Packet))
      BY <1>1, <2>1, AppendProperties
    <3>2. s \in Seq(Packet)
      BY <1>4, <2>1, ConcatProperties
    <3>3. /\ FramesOf(Append(rest, c)) = FramesOf(rest) \o FrameOf(c)
          /\ ReadsOf(Append(rest, c)) = ReadsOf(rest) \o P!Reads(c)
          /\ FramesOf(rest) \in Seq(Unit) /\ FrameOf(c) \in Seq(Unit)
      BY <1>1, <2>1, PackagesOf, Zenon
    <3> QED BY <3>1, <3>2, <3>3
  <2>3. handled' \o s = P!Expected'
    <3>1. (handled \o r) \o P!Reads(c) = handled \o (r \o P!Reads(c))
      <4>1. handled \in Seq(Packet) /\ r \in Seq(Packet) /\ P!Reads(c) \in Seq(Packet)
        BY <1>2, <1>4, <2>1
      <4> QED BY <4>1, JoinPackets, Zenon
    <3> QED BY <1>1, <1>4, <2>1, <3>1
  <2>4. ~misread' => s = ReadsOf(q)
    BY <1>1, <2>1, <2>2, Zenon
  <2>5. /\ Len(q) = Len(rest) + 1 /\ Len(rest) \in Nat /\ q[Len(rest) + 1] = c
        /\ \A i \in 1 .. Len(rest) : q[i] = rest[i]
    BY <1>1, <2>1, AppendProperties
  <2>6. FromSent(q)'
    <3> SUFFICES ASSUME NEW i \in 1 .. Len(q) PROVE \E j \in P!ToSet(sent)' : q[i] = content'[j]
      BY Zenon DEF FromSent
    <3>1. CASE i \in 1 .. Len(rest)
      BY <1>1, <1>3, <2>1, <2>5, <3>1 DEF FromSent
    <3>2. CASE i \notin 1 .. Len(rest)
      <4>1. i = Len(rest) + 1
        BY <2>5, <3>2
      <4> QED BY <1>1, <1>3, <2>5, <4>1
    <3> QED BY <3>1, <3>2
  <2>7. wire' \o Going' = wire \o FrameOf(c) /\ wire \o Going = wire
    <3>1. Going = <<>> /\ Going' = FrameOf(c)
      BY <1>1
    <3> QED BY <1>1, <1>2, <3>1, ConcatEmptySeq
  <2>8. Ahead(q)'
    <3>1. CASE reading = "size"
      <4>1. wire = FramesOf(rest)
        BY <2>1, <2>7, <3>1 DEF Ahead
      <4>2. wire' \o Going' = FramesOf(q) /\ reading' # "package"
        BY <1>1, <2>2, <2>7, <3>1, <4>1
      <4> QED BY <4>2 DEF Ahead
    <3>2. CASE reading = "package"
      <4> DEFINE a == PayOf(Head(rest))
                 b == FramesOf(Tail(rest))
                 d == FrameOf(c)
      <4>1. rest # <<>> /\ readSize = Len(a) /\ wire = a \o b
        BY <2>1, <2>7, <3>2, Zenon DEF Ahead
      <4>2. /\ Head(rest) \in Seq(Packet) /\ Tail(rest) \in Seq(Seq(Packet))
        BY <2>1, <4>1
      <4>3. a \in Seq(Unit) /\ b \in Seq(Unit) /\ d \in Seq(Unit)
        BY <2>2, <4>2, PayIs, PackagesOf, Zenon
      <4>4. FramesOf(Append(Tail(rest), c)) = b \o d
        BY <1>1, <4>2, PackagesOf, Zenon
      <4>5. Head(q) = Head(rest) /\ Tail(q) = Append(Tail(rest), c) /\ q # <<>>
        <5>1. 1 \in 1 .. Len(rest)
          BY <2>1, <4>1
        <5>2. q # <<>>
          <6>1. Len(q) = Len(rest) + 1 /\ Len(rest) \in Nat
            BY <2>5
          <6> QED BY ONLY <6>1
        <5> DEFINE m == Len(rest)
                   t == Tail(rest)
                   u == Tail(q)
                   v == Append(t, c)
        <5>3. m \in Nat /\ m >= 1 /\ q \in Seq(Seq(Packet)) /\ Len(q) = m + 1
              /\ q[m + 1] = c /\ \A i \in 1 .. m : q[i] = rest[i]
          BY <2>2, <2>5, <5>1
        <5>4. Head(q) = q[1] /\ Head(rest) = rest[1] /\ q[1] = rest[1]
          BY <5>1, <5>3
        <5>5. t \in Seq(Seq(Packet)) /\ Len(t) = m - 1 /\ \A i \in 1 .. m - 1 : t[i] = rest[i + 1]
          BY <2>1, <4>1
        <5>6. u \in Seq(Seq(Packet)) /\ Len(u) = m /\ \A i \in 1 .. m : u[i] = q[i + 1]
          <6>1. q \in Seq(Seq(Packet)) /\ q # <<>> /\ Len(q) - 1 = m
            BY <5>2, <5>3
          <6>2. u \in Seq(Seq(Packet)) /\ Len(u) = Len(q) - 1 /\ \A i \in 1 .. Len(q) - 1 : u[i] = q[i + 1]
            BY <6>1, HeadTailProperties
          <6> QED BY <6>1, <6>2
        <5> HIDE DEF t, u, m, c
        <5>7. c \in Seq(Packet)
          BY <1>1
        <5>8. v \in Seq(Seq(Packet)) /\ Len(v) = (m - 1) + 1 /\ v[(m - 1) + 1] = c
              /\ \A i \in 1 .. m - 1 : v[i] = t[i]
          BY <5>5, <5>7, AppendProperties
        <5> HIDE DEF v
        <5>9. \A i \in 1 .. m : u[i] = v[i]
          <6> SUFFICES ASSUME NEW i \in 1 .. m PROVE u[i] = v[i]
            OBVIOUS
          <6>1. CASE i = m
            BY <5>3, <5>6, <5>8, <6>1
          <6>2. CASE i # m
            <7>1. i \in 1 .. m - 1 /\ i + 1 \in 1 .. m
              BY <5>3, <6>2
            <7> QED BY <5>3, <5>5, <5>6, <5>8, <7>1, ZenonT(30)
          <6> QED BY <6>1, <6>2
        <5>10. u = v
          BY <5>3, <5>6, <5>8, <5>9, SeqEqual
        <5> QED BY <5>2, <5>4, <5>10, Zenon DEF t, u, v
      <4> HIDE DEF a, b, d
      <4>6. wire' \o Going' = a \o (b \o d)
        <5>1. (a \o b) \o d = a \o (b \o d)
          BY <4>3, JoinUnits, Zenon
        <5> QED BY <2>7, <4>1, <5>1 DEF d
      <4> QED BY <1>1, <3>2, <4>1, <4>4, <4>5, <4>6, Zenon DEF Ahead, a
    <3>3. CASE reading \notin {"size", "package"}
      BY <1>1, <3>3 DEF Ahead
    <3> QED BY <3>1, <3>2, <3>3
  <2>9. reading' = "package" => ~misread'
    BY <1>1 DEF ReaderInv
  <2> QED BY <2>2, <2>3, <2>4, <2>6, <2>8, <2>9, Zenon
<1> QED BY <1>6, <1>7

LEMMA ReadPackageSizeReader ==
  ASSUME P!PackageAssumption, P!TypeOK, ReaderInv, LeftInv, P!ReadPackageSize, Quiet
  PROVE  /\ reading' = "package" /\ ~misread' /\ UNCHANGED <<sent, content, inBuf, handled>>
         /\ \E rest \in Seq(Seq(Packet)) :
              /\ FromSent(rest) /\ P!Expected = handled \o ReadsOf(rest)
              /\ rest # <<>> /\ readSize' = Len(PayOf(Head(rest)))
              /\ wire' \o Going = PayOf(Head(rest)) \o FramesOf(Tail(rest))
<1>1. /\ reading = "size" /\ ~misread /\ wire # <<>> /\ wire' = Tail(wire)
      /\ UNCHANGED <<sent, content, inBuf, handled>>
  BY DEF P!ReadPackageSize, P!writer
<1>2. wire \in Seq(Unit) /\ Going \in Seq(Unit)
  BY GoingType DEF P!TypeOK, Unit
<1>3. PICK rest \in Seq(Seq(Packet)), r \in Seq(Packet) :
        /\ FromSent(rest) /\ Ahead(rest) /\ handled \o r = P!Expected
        /\ r = ReadsOf(rest)
  BY <1>1, Zenon DEF ReaderInv
<1>4. wire \o Going = FramesOf(rest)
  BY <1>1, <1>3 DEF Ahead
<1>5. rest # <<>>
  <2> SUFFICES ASSUME rest = <<>> PROVE FALSE
    OBVIOUS
  <2>1. wire \o Going = <<>>
    <3>1. \A c \in Seq(Packet) : FramesOf(<<>>) = <<>>
      BY <1>3, PackagesOf, Zenon
    <3>2. <<>> \in Seq(Packet)
      OBVIOUS
    <3> QED BY <1>4, <3>1, <3>2
  <2>2. Len(wire \o Going) = Len(wire) + Len(Going) /\ Len(wire) > 0 /\ Len(Going) \in Nat
    BY <1>1, <1>2
  <2>3. Len(wire \o Going) = 0
    BY <2>1
  <2> QED BY <1>2, <2>2, <2>3
<1> DEFINE h == Head(rest)
           t == Tail(rest)
           a == PayOf(h)
           b == FramesOf(t)
           w == <<"word", Len(a)>>
           d == <<w>>
<1>6. h \in Seq(Packet) /\ t \in Seq(Seq(Packet)) /\ rest = <<h>> \o t
  <2>1. h \in Seq(Packet) /\ t \in Seq(Seq(Packet))
    BY <1>3, <1>5, HeadTailProperties
  <2>2. rest = <<Head(rest)>> \o Tail(rest)
    BY <1>3, <1>5, HeadAndTail
  <2> QED BY <2>1, <2>2
<1>7. FramesOf(rest) = FrameOf(h) \o b /\ b \in Seq(Unit)
  BY <1>6, PackagesOf, Zenon
<1>8. a \in Seq(Unit) /\ Len(a) \in Nat /\ Len(a) > 0
  BY <1>6, PayIs
<1>9. d \in Seq(Unit) /\ Len(d) = 1 /\ d[1] = w
  <2>1. w \in Unit
    BY <1>8 DEF Unit, P!Number
  <2> QED BY <2>1
<1>10. FrameOf(h) = d \o a
  BY DEF FrameOf
<1> HIDE DEF h, t, a, b, w, d
<1>11. FramesOf(rest) = d \o (a \o b) /\ a \o b \in Seq(Unit)
  <2>1. d \in Seq(Unit) /\ a \in Seq(Unit) /\ b \in Seq(Unit)
    BY <1>7, <1>8, <1>9
  <2>2. (d \o a) \o b = d \o (a \o b)
    BY <2>1, JoinUnits, Zenon
  <2> QED BY <1>7, <1>10, <2>1, <2>2, ConcatProperties
<1>12. /\ SubSeq(wire, 1, Len(d)) = d
       /\ SubSeq(wire, Len(d) + 1, Len(wire)) \o Going = a \o b
  <2> DEFINE e == a \o b
             g == Going
  <2>1. TwoWays(wire, g, d, e)
    BY <1>4, <1>11 DEF TwoWays
  <2>2. wire \in Seq(Unit) /\ g \in Seq(Unit) /\ d \in Seq(Unit) /\ e \in Seq(Unit)
    BY <1>2, <1>9, <1>11
  <2>3. Len(d) <= Len(wire)
    BY <1>1, <1>2, <1>9
  <2> HIDE DEF e, g
  <2>4. /\ SubSeq(wire, 1, Len(d)) = d /\ SubSeq(wire, Len(d) + 1, Len(wire)) \in Seq(Unit)
        /\ SubSeq(wire, Len(d) + 1, Len(wire)) \o g = e
    BY <2>1, <2>2, <2>3, SplitOff
  <2> QED BY <2>4, Zenon DEF e, g
<1>13. wire[1] = w
  <2>1. SubSeq(wire, 1, 1)[1] = wire[1]
    BY <1>1, <1>2
  <2> QED BY <1>9, <1>12, <2>1
<1>14. wire' \o Going = a \o b
  <2>1. wire' = SubSeq(wire, 2, Len(wire))
    BY <1>1, <1>2, TailIsSubSeq
  <2>2. Len(d) + 1 = 2
    BY <1>9
  <2> QED BY <1>12, <2>1, <2>2, Zenon
<1>15. readSize' = Len(a) /\ reading' = "package" /\ ~misread'
  <2>1. wire[1][1] = "word" /\ wire[1][2] = Len(a)
    BY <1>13 DEF w
  <2>2. /\ readSize' = Len(a) /\ misread' = misread
        /\ reading' = IF readSize' > 0 THEN "package" ELSE "size"
    BY <2>1 DEF P!ReadPackageSize, P!PackageSize
  <2> QED BY <1>1, <1>8, <2>2
<1> QED BY <1>1, <1>3, <1>5, <1>14, <1>15, Zenon DEF a, b, h, t

\* What is left between two packages is no list of sizes: the next package is
\* misread.
LEMMA LeftoverIsNoList ==
  ASSUME P!PackageAssumption, P!TypeOK, inBuf # <<>>, inBuf \in Seq(Leftover), Len(wire) >= readSize
  PROVE  P!ListLength(P!Committed) = None
<1> DEFINE w == P!Committed
           x == SubSeq(wire, 1, readSize)
<1>1. w \in Seq(Unit) /\ x \in Seq(Unit) /\ inBuf \in Seq(Unit) /\ w = inBuf \o x
  BY CommittedType, Zenon DEF P!TypeOK, Unit, P!Committed
<1> HIDE DEF w, x
<1>2. w # <<>> /\ w[1] = inBuf[1]
  <2>1. Len(inBuf) > 0 /\ Len(w) = Len(inBuf) + Len(x) /\ Len(x) \in Nat
    BY <1>1
  <2>2. 1 \in 1 .. Len(inBuf)
    BY <1>1, <2>1
  <2>3. w[1] = inBuf[1]
    BY <1>1, <2>2, ConcatProperties
  <2> QED BY <1>1, <2>1, <2>3
<1>3. inBuf[1] \in Leftover
  OBVIOUS
<1>4. w[1][1] # "len"
  BY <1>2, <1>3 DEF Leftover, P!PackageAssumption
<1>5. P!ListLength(w) = None
  BY <1>1, <1>2, <1>4, NoList, Zenon
<1> QED BY <1>5 DEF w

\* A package read at its start: the packets of c are handled, in order, but for
\* those nobody reads, or the reader finds out that it lost its place.
LEMMA PackageIsRead ==
  ASSUME P!PackageAssumption, P!TypeOK, NEW c \in Seq(Packet), NEW missed \in BOOLEAN,
         \A i \in 1 .. Len(c) : c[i] \in Unread => missed
  PROVE  /\ P!ListLength(PayOf(c)) = Len(c) /\ Len(c) \in Nat
         /\ InLoop(EndOf(PayOf(c), Len(c)), <<>>, handled \o P!Reads(c), missed)
<1> DEFINE n == Len(c)
           w == PayOf(c)
           b == BodyOf(c)
           s == StartOf(w, n)
           l == <<>>
<1>1. /\ w \in Seq(Unit) /\ n < Len(w) /\ n \in Nat
      /\ \A i \in 1 .. n : w[i] = <<"len", Len(P!Units(c[i]))>>
      /\ SubSeq(w, n + 2, Len(w)) = b /\ b \in Seq(P!Field)
  <2>1. n \in Nat /\ Len(b) \in Nat /\ Len(w) = n + 1 + Len(b)
    BY PayIs
  <2>2. n < Len(w)
    BY <2>1
  <2> QED BY <2>1, <2>2, PayIs, Zenon
<1>2. handled \in Seq(Packet)
  BY DEF P!TypeOK
<1>3. s \in Spot /\ s.buf = b /\ s.handled = handled /\ s.broken = FALSE
  <2>1. s = [buf |-> b, handled |-> handled, broken |-> FALSE]
    BY <1>1, Zenon DEF StartOf
  <2> HIDE DEF w, n, b
  <2>2. s \in Spot
    BY <1>1, EndType
  <2> QED BY <2>1, <2>2
<1>4. l \in Seq(Leftover) /\ l \o b = b
  <2>1. l \in Seq(Leftover)
    OBVIOUS
  <2>2. <<>> \o b = b
    <3> HIDE DEF b
    <3> QED BY <1>1, ConcatEmptySeq
  <2> QED BY <2>1, <2>2
<1> HIDE DEF w, b, s
<1>5. InLoop(s, c, handled \o P!Reads(c), missed)
  <2>1. \E x \in Seq(Leftover) : s.buf = x \o BodyOf(c) /\ (x # <<>> => missed)
    BY <1>3, <1>4, Zenon DEF b
  <2> QED BY <1>3, <2>1, Zenon DEF InLoop
<1>6. [i \in 1 .. n |-> w[i][2]] = SizesOf(c)
  BY <1>1 DEF SizesOf
<1>7. InLoop(P!TakePackets(s, SizesOf(c)), <<>>, handled \o P!Reads(c), missed)
  <2> DEFINE e == handled \o P!Reads(c)
  <2>1. InLoop(s, c, e, missed)
    BY <1>5
  <2> HIDE DEF e
  <2>2. InLoop(P!TakePackets(s, SizesOf(c)), <<>>, e, missed)
    BY <2>1, Loop
  <2> QED BY <2>2 DEF e
<1>8. EndOf(w, n) = P!TakePackets(s, SizesOf(c))
  BY <1>6 DEF EndOf, s
<1>9. P!ListLength(w) = n
  BY ListLengthOfPay DEF w
<1> QED BY <1>1, <1>7, <1>8, <1>9 DEF w

LEMMA ReadPackageReader ==
  ASSUME P!PackageAssumption, P!TypeOK, ReaderInv, LeftInv, P!ReadPackage, Quiet
  PROVE  /\ reading' = "size" /\ UNCHANGED <<sent, content>>
         /\ \E rest \in Seq(Seq(Packet)), r \in Seq(Packet) :
              /\ FromSent(rest) /\ wire' \o Going = FramesOf(rest) /\ handled' \o r = P!Expected
              /\ ~misread' => r = ReadsOf(rest)
         /\ ~misread' => inBuf' \in Seq(Leftover)
         /\ inBuf' # <<>> \/ misread' => Missed
<1>1. /\ reading = "package" /\ reading' = "size" /\ ~misread /\ Len(wire) >= readSize
      /\ wire' = SubSeq(wire, readSize + 1, Len(wire))
      /\ UNCHANGED <<sent, content>>
  BY ReadPackageTypes DEF P!writer
<1>2. wire \in Seq(Unit) /\ Going \in Seq(Unit) /\ handled \in Seq(Packet) /\ readSize \in Nat
  BY GoingType DEF P!TypeOK, Unit
<1>3. PICK rest \in Seq(Seq(Packet)) :
        FromSent(rest) /\ Ahead(rest) /\ handled \o ReadsOf(rest) = P!Expected
  BY <1>1, Zenon DEF ReaderInv
<1>4. /\ rest # <<>> /\ readSize = Len(PayOf(Head(rest)))
      /\ wire \o Going = PayOf(Head(rest)) \o FramesOf(Tail(rest))
  BY <1>1, <1>3, Zenon DEF Ahead
<1> PICK h : h = Head(rest)
  OBVIOUS
<1> PICK t : t = Tail(rest)
  BY Zenon
<1>5. h \in Seq(Packet) /\ t \in Seq(Seq(Packet)) /\ rest = <<h>> \o t /\ h = rest[1]
      /\ Len(t) = Len(rest) - 1 /\ \A i \in 1 .. Len(t) : t[i] = rest[i + 1]
  BY <1>3, <1>4, HeadTailProperties, HeadAndTail, HeadAt
<1> DEFINE a == PayOf(h)
           b == FramesOf(t)
<1>6. a \in Seq(Unit) /\ b \in Seq(Unit) /\ readSize = Len(a) /\ wire \o Going = a \o b
  <2>1. a \in Seq(Unit)
    BY <1>5, PayIs
  <2>2. b \in Seq(Unit)
    BY <1>5, PackagesOf, Zenon
  <2> QED BY <1>4, <2>1, <2>2
<1> HIDE DEF a, b
<1>7. SubSeq(wire, 1, readSize) = a /\ wire' \o Going = b
  <2> DEFINE g == Going
  <2>1. TwoWays(wire, g, a, b) /\ Len(a) <= Len(wire)
    <3>1. Len(a) \in Nat /\ Len(wire) \in Nat /\ Len(wire) >= Len(a)
      BY <1>1, <1>2, <1>6
    <3> QED BY <1>6, <3>1 DEF TwoWays
  <2>2. wire \in Seq(Unit) /\ g \in Seq(Unit) /\ a \in Seq(Unit) /\ b \in Seq(Unit)
    BY <1>2, <1>6
  <2> HIDE DEF g
  <2>3. /\ SubSeq(wire, 1, Len(a)) = a /\ SubSeq(wire, Len(a) + 1, Len(wire)) \in Seq(Unit)
        /\ SubSeq(wire, Len(a) + 1, Len(wire)) \o g = b
    BY <2>1, <2>2, SplitOff
  <2> QED BY <1>1, <1>6, <2>3, Zenon DEF g
<1>8. FromSent(t) /\ \E k \in P!ToSet(sent) : h = content[k]
  <2>1. Len(rest) \in Nat /\ Len(rest) >= 1
    BY <1>3, <1>4
  <2>2. 1 \in 1 .. Len(rest) /\ \A i \in 1 .. Len(t) : i + 1 \in 1 .. Len(rest)
    BY <1>5, <2>1
  <2> QED BY <1>3, <1>5, <2>2, Zenon DEF FromSent
<1>9. \A i \in 1 .. Len(h) : h[i] \in Unread => Missed
  <2> SUFFICES ASSUME NEW i \in 1 .. Len(h), h[i] \in Unread PROVE Missed
    OBVIOUS
  <2>1. i \in DOMAIN h
    BY <1>5
  <2>2. h[i] \in P!ToSet(h)
    BY <2>1 DEF P!ToSet
  <2> QED BY <1>8, <2>2 DEF Missed
<1>10. P!Reads(h) \in Seq(Packet) /\ ReadsOf(t) \in Seq(Packet) /\ ReadsOf(rest) = P!Reads(h) \o ReadsOf(t)
       /\ ReadsOf(rest) \in Seq(Packet)
  <2>1. ReadsOf(<<h>> \o t) = P!Reads(h) \o ReadsOf(t) /\ P!Reads(h) \in Seq(Packet)
        /\ ReadsOf(t) \in Seq(Packet)
    BY <1>5, PackagesOf, Zenon
  <2> QED BY <1>5, <2>1, ConcatProperties, Zenon
<1>11. /\ P!ListLength(P!Committed) = None => misread' /\ UNCHANGED <<inBuf, handled>>
       /\ P!ListLength(P!Committed) # None =>
            LET end == EndOf(P!Committed, P!ListLength(P!Committed))
            IN  end \in Spot /\ inBuf' = end.buf /\ handled' = end.handled /\ misread' = end.broken
  BY ReadPackageTypes
<1>12. inBuf \in Seq(Leftover) /\ (inBuf # <<>> => Missed)
  BY <1>1 DEF LeftInv
<1>13. wire' \o Going = FramesOf(t)
  BY <1>7 DEF b
<1>14. CASE inBuf # <<>>
  <2>1. misread' /\ UNCHANGED <<inBuf, handled>>
    BY <1>1, <1>11, <1>12, <1>14, LeftoverIsNoList
  <2>2. PICK r \in Seq(Packet) : handled' \o r = P!Expected
    BY <1>3, <1>10, <2>1, Zenon
  <2>3. \E x \in Seq(Seq(Packet)), y \in Seq(Packet) :
          /\ FromSent(x) /\ wire' \o Going = FramesOf(x) /\ handled' \o y = P!Expected
          /\ ~misread' => y = ReadsOf(x)
    BY <1>5, <1>8, <1>13, <2>1, <2>2, Zenon
  <2> QED BY <1>1, <1>12, <1>14, <2>1, <2>3, Zenon
<1>15. CASE inBuf = <<>>
  <2> PICK e : e = handled \o P!Reads(h)
    BY Zenon
  <2> PICK missed \in BOOLEAN : missed <=> Missed
    BY Zenon
  <2> PICK end : end = EndOf(a, Len(h))
    OBVIOUS
  <2>1. P!Committed = a
    BY <1>6, <1>7, <1>15, ConcatEmptySeq DEF P!Committed
  <2>2. P!ListLength(a) = Len(h) /\ Len(h) \in Nat /\ InLoop(end, <<>>, e, missed)
    BY <1>5, <1>9, PackageIsRead, Zenon DEF a
  <2>3. P!ListLength(a) # None
    BY <2>2 DEF P!PackageAssumption
  <2>4. inBuf' = end.buf /\ handled' = end.handled /\ misread' = end.broken
    BY <1>11, <2>1, <2>2, <2>3
  <2>5. e \o ReadsOf(t) = P!Expected
    <3>1. (handled \o P!Reads(h)) \o ReadsOf(t) = handled \o (P!Reads(h) \o ReadsOf(t))
      <4> DEFINE x == P!Reads(h)
                 y == ReadsOf(t)
      <4>1. handled \in Seq(Packet) /\ x \in Seq(Packet) /\ y \in Seq(Packet)
        BY <1>2, <1>10
      <4> HIDE DEF x, y
      <4>2. (handled \o x) \o y = handled \o (x \o y)
        BY <4>1, JoinPackets, Zenon
      <4> QED BY <4>2, Zenon DEF x, y
    <3> QED BY <1>3, <1>10, <3>1, Zenon
  <2>6. CASE end.broken
    <3>1. PICK q \in Seq(Packet) : missed /\ end.handled \o q = e
      BY <2>2, <2>6, Zenon DEF InLoop
    <3>2. handled' \o (q \o ReadsOf(t)) = P!Expected /\ q \o ReadsOf(t) \in Seq(Packet)
      <4> DEFINE x == end.handled
                 y == ReadsOf(t)
      <4>1. x \in Seq(Packet) /\ q \in Seq(Packet) /\ y \in Seq(Packet)
        BY <1>10, <2>2 DEF InLoop, Spot
      <4> HIDE DEF x, y
      <4>2. (x \o q) \o y = x \o (q \o y)
        BY <4>1, JoinPackets, Zenon
      <4>3. q \o y \in Seq(Packet)
        BY <4>1, ConcatProperties
      <4> QED BY <2>4, <2>5, <3>1, <4>2, <4>3 DEF x, y
    <3>3. misread' /\ Missed
      BY <2>4, <2>6, <3>1
    <3> QED BY <1>1, <1>8, <1>5, <1>13, <3>2, <3>3, Zenon
  <2>7. CASE ~end.broken
    <3>1. /\ end \in Spot /\ end.handled \o P!Reads(<<>>) = e
          /\ \E l \in Seq(Leftover) : end.buf = l \o BodyOf(<<>>) /\ (l # <<>> => missed)
      BY <2>2, <2>7, Zenon DEF InLoop
    <3>2. end.handled = e
      <4>1. P!Reads(<<>>) = <<>>
        <5>1. [i \in DOMAIN <<>> |-> IF <<>>[i] \in Unread THEN <<>> ELSE <<<<>>[i]>>] = <<>>
          OBVIOUS
        <5> QED BY <5>1, FlattenEmpty, SameOperators DEF P!Reads
      <4>2. end.handled \in Seq(Packet)
        BY <3>1 DEF Spot
      <4> QED BY <3>1, <4>1, <4>2, ConcatEmptySeq, Zenon
    <3>3. end.buf \in Seq(Leftover) /\ (end.buf # <<>> => missed)
      <4>1. PICK l \in Seq(Leftover) : end.buf = l \o BodyOf(<<>>) /\ (l # <<>> => missed)
        BY <3>1, Zenon
      <4>2. BodyOf(<<>>) = <<>>
        BY SpreadEmpty DEF BodyOf
      <4>3. l \o <<>> = l
        BY <4>1, ConcatEmptySeq
      <4> QED BY <4>1, <4>2, <4>3, Zenon
    <3>4. handled' \o ReadsOf(t) = P!Expected /\ ~misread' /\ inBuf' = end.buf
      BY <2>4, <2>5, <2>7, <3>2, Zenon
    <3> QED BY <1>1, <1>5, <1>8, <1>10, <1>13, <3>3, <3>4, Zenon
  <2> QED BY <2>6, <2>7, Zenon
<1> QED BY <1>14, <1>15, Zenon

PackageInv == P!TypeOK /\ WriterInv /\ ReaderInv /\ LeftInv

LEMMA InitPackageInv == ASSUME P!PackageAssumption, P!Init PROVE PackageInv
<1>1. /\ sizes = [k \in Pkg |-> <<>>] /\ body = [k \in Pkg |-> <<>>] /\ content = [k \in Pkg |-> <<>>]
      /\ lastSize = [k \in Pkg |-> 0] /\ packageSize = [k \in Pkg |-> 0]
      /\ sent = <<>> /\ ops = <<>> /\ wire = <<>> /\ reading = "size" /\ readSize = 0
      /\ inBuf = <<>> /\ handled = <<>> /\ misread = FALSE /\ overlap = FALSE /\ failed = FALSE
  BY DEF P!Init
<1>2. P!TypeOK
  <2>1. <<>> \in Seq(P!Number) /\ <<>> \in Seq(P!Field) /\ <<>> \in Seq(Packet) /\ <<>> \in Seq(Pkg)
    OBVIOUS
  <2>2. /\ sizes \in [Pkg -> Seq(P!Number)] /\ body \in [Pkg -> Seq(P!Field)]
        /\ content \in [Pkg -> Seq(Packet)] /\ lastSize \in [Pkg -> Nat] /\ packageSize \in [Pkg -> Nat]
    <3> DEFINE z == <<>>
    <3>1. z \in Seq(P!Number) /\ z \in Seq(P!Field) /\ z \in Seq(Packet)
      BY <2>1
    <3>2. sizes = [k \in Pkg |-> z] /\ body = [k \in Pkg |-> z] /\ content = [k \in Pkg |-> z]
      BY <1>1
    <3> HIDE DEF z
    <3>3. sizes \in [Pkg -> Seq(P!Number)]
      BY <3>1, <3>2
    <3>4. body \in [Pkg -> Seq(P!Field)]
      BY <3>1, <3>2
    <3>5. content \in [Pkg -> Seq(Packet)]
      BY <3>1, <3>2
    <3>6. lastSize \in [Pkg -> Nat] /\ packageSize \in [Pkg -> Nat]
      BY <1>1
    <3> QED BY <3>3, <3>4, <3>5, <3>6
  <2>3. ops \in Seq([pkg : Pkg, left : Seq({"word", "sizes", "body"})])
    BY <1>1
  <2>4. wire \in Seq(P!Number \cup P!Field) /\ inBuf \in Seq(P!Number \cup P!Field)
    BY <1>1
  <2> QED BY <1>1, <2>1, <2>2, <2>3, <2>4, Zenon DEF P!TypeOK
<1>3. P!ToSet(sent) = {}
  BY <1>1 DEF P!ToSet
<1>4. WriterInv
  <2>1. ASSUME NEW k \in Pkg
        PROVE  /\ sizes[k] = EntriesOf(content[k]) /\ body[k] = BodyOf(content[k])
               /\ lastSize[k] = Len(body[k])
    <3>1. sizes[k] = <<>> /\ body[k] = <<>> /\ content[k] = <<>> /\ lastSize[k] = 0
      BY <1>1
    <3>2. EntriesOf(<<>>) = <<>>
      BY DEF EntriesOf
    <3>3. BodyOf(<<>>) = <<>>
      BY SpreadEmpty DEF BodyOf
    <3> QED BY <3>1, <3>2, <3>3
  <2>2. Len(ops) = 0
    BY <1>1
  <2> QED BY <2>1, <2>2 DEF WriterInv
<1>5. ReaderInv
  <2> PICK e : e = <<>>
    OBVIOUS
  <2>1. e \in Seq(Seq(Packet)) /\ e \in Seq(Packet) /\ Len(e) = 0
    OBVIOUS
  <2>2. FromSent(e)
    BY <2>1 DEF FromSent
  <2>3. FramesOf(e) = <<>> /\ ReadsOf(e) = <<>>
    BY SpreadEmpty DEF FramesOf, ReadsOf
  <2>4. Ahead(e)
    <3>1. wire \o Going = <<>>
      BY <1>1 DEF Going
    <3> QED BY <1>1, <2>3, <3>1 DEF Ahead
  <2>5. P!Expected = <<>>
    <3>1. [i \in DOMAIN sent |-> P!Reads(content[sent[i]])] = <<>>
      BY <1>1
    <3> QED BY <3>1, FlattenEmpty, SameOperators DEF P!Expected
  <2>6. handled \o e = P!Expected
    BY <1>1, <2>5
  <2> QED BY <1>1, <2>1, <2>2, <2>3, <2>4, <2>6, Zenon DEF ReaderInv
<1>6. LeftInv
  BY <1>1 DEF LeftInv
<1> QED BY <1>2, <1>4, <1>5, <1>6 DEF PackageInv

LEMMA ReaderStep ==
  ASSUME P!PackageAssumption, PackageInv, P!ReadPackageSize \/ P!ReadPackage \/ P!ReadError
  PROVE  PackageInv'
<1> USE DEF PackageInv
<1>1. P!TypeOK' /\ UNCHANGED P!writer
  BY ReadPackageSizeTypes, ReadPackageTypes, ReadErrorTypes
<1>2. WriterInv' /\ Quiet' = Quiet /\ Going' = Going
  BY <1>1, WriterStays
<1>3. UNCHANGED <<sent, content>>
  BY <1>1 DEF P!writer
<1>4. P!Expected' = P!Expected /\ Missed' = Missed /\ \A q : FromSent(q)' = FromSent(q)
  BY <1>3 DEF P!Expected, Missed, FromSent, P!ToSet
<1>5. CASE ~Quiet
  BY <1>1, <1>2, <1>5 DEF ReaderInv, LeftInv
<1>6. CASE Quiet /\ P!ReadPackageSize
  <2>1. /\ reading' = "package" /\ ~misread' /\ UNCHANGED <<inBuf, handled>>
        /\ \E rest \in Seq(Seq(Packet)) :
             /\ FromSent(rest) /\ P!Expected = handled \o ReadsOf(rest)
             /\ rest # <<>> /\ readSize' = Len(PayOf(Head(rest)))
             /\ wire' \o Going = PayOf(Head(rest)) \o FramesOf(Tail(rest))
    BY <1>6, ReadPackageSizeReader, Zenon
  <2>2. PICK q \in Seq(Seq(Packet)) :
          /\ FromSent(q) /\ P!Expected = handled \o ReadsOf(q)
          /\ q # <<>> /\ readSize' = Len(PayOf(Head(q)))
          /\ wire' \o Going = PayOf(Head(q)) \o FramesOf(Tail(q))
    BY <2>1, Zenon
  <2>3. Ahead(q)' /\ FromSent(q)' /\ handled' \o ReadsOf(q) = P!Expected'
    <3>1. wire' \o Going' = PayOf(Head(q)) \o FramesOf(Tail(q))
      BY <1>2, <2>2
    <3> QED BY <1>4, <2>1, <2>2, <3>1 DEF Ahead
  <2>4. ReadsOf(q) \in Seq(Packet)
    <3>1. \A c \in Seq(Packet) : ReadsOf(q) \in Seq(Packet)
      BY <2>2, PackagesOf, Zenon
    <3>2. <<>> \in Seq(Packet)
      OBVIOUS
    <3> QED BY <3>1, <3>2
  <2>5. ReaderInv'
    BY <2>1, <2>2, <2>3, <2>4, Zenon DEF ReaderInv
  <2>6. ~misread
    BY <1>6 DEF P!ReadPackageSize
  <2>7. LeftInv'
    BY <1>2, <1>4, <1>6, <2>1, <2>6 DEF LeftInv
  <2> QED BY <1>1, <1>2, <2>5, <2>7
<1>7. CASE Quiet /\ P!ReadPackage
  <2>1. /\ reading' = "size" /\ UNCHANGED <<sent, content>>
        /\ \E rest \in Seq(Seq(Packet)), r \in Seq(Packet) :
             /\ FromSent(rest) /\ wire' \o Going = FramesOf(rest) /\ handled' \o r = P!Expected
             /\ ~misread' => r = ReadsOf(rest)
        /\ ~misread' => inBuf' \in Seq(Leftover)
        /\ inBuf' # <<>> \/ misread' => Missed
    BY <1>7, ReadPackageReader, Zenon
  <2>2. PICK q \in Seq(Seq(Packet)), r \in Seq(Packet) :
          /\ FromSent(q) /\ wire' \o Going = FramesOf(q) /\ handled' \o r = P!Expected
          /\ ~misread' => r = ReadsOf(q)
    BY <2>1, Zenon
  <2>3. Ahead(q)' /\ FromSent(q)' /\ handled' \o r = P!Expected'
    <3>1. wire' \o Going' = FramesOf(q)
      BY <1>2, <2>2
    <3> QED BY <1>4, <2>1, <2>2, <3>1 DEF Ahead
  <2>4. ReaderInv'
    BY <2>1, <2>2, <2>3, Zenon DEF ReaderInv
  <2>5. LeftInv'
    BY <1>4, <2>1 DEF LeftInv
  <2> QED BY <1>1, <1>2, <2>4, <2>5
<1>8. CASE Quiet /\ P!ReadError
  <2>1. reading' = "stopped" /\ UNCHANGED <<wire, readSize, inBuf, handled, misread>>
    BY <1>8, ReadErrorTypes
  <2>2. PICK q \in Seq(Seq(Packet)), r \in Seq(Packet) :
          /\ FromSent(q) /\ handled \o r = P!Expected
          /\ ~misread => r = ReadsOf(q)
    BY <1>8, Zenon DEF ReaderInv
  <2>3. Ahead(q)' /\ FromSent(q)' /\ handled' \o r = P!Expected'
    BY <1>4, <2>1, <2>2 DEF Ahead
  <2>4. ReaderInv'
    BY <2>1, <2>2, <2>3, Zenon DEF ReaderInv
  <2>5. LeftInv'
    BY <1>2, <1>4, <2>1 DEF LeftInv
  <2> QED BY <1>1, <1>2, <2>4, <2>5
<1> QED BY <1>5, <1>6, <1>7, <1>8

LEMMA StepKeepsPackageInv ==
  ASSUME P!PackageAssumption, PackageInv, P!Next
  PROVE  PackageInv'
<1> USE DEF PackageInv
<1>1. ASSUME NEW k \in Pkg, NEW p \in Packet, P!WritePacket(k, p) PROVE PackageInv'
  <2>1. P!TypeOK' /\ WriterInv'
    BY <1>1, WritePacketTypes
  <2>2. /\ k \notin P!ToSet(sent) /\ content' = [content EXCEPT ![k] = Append(content[k], p)]
        /\ UNCHANGED <<sent, ops, wire, overlap, failed, reading, readSize, inBuf, handled, misread>>
    BY <1>1 DEF P!WritePacket, P!reader, P!ipackage
  <2>3. \A j \in P!ToSet(sent) : content'[j] = content[j]
    <3>1. \A j \in P!ToSet(sent) : j # k /\ j \in Pkg
      BY <2>2 DEF P!ToSet, P!TypeOK
    <3> QED BY <2>2, <3>1 DEF P!TypeOK
  <2>4. Going' = Going
    <3>1. CASE ops = <<>>
      BY <2>2, <3>1 DEF Going
    <3>2. CASE ops # <<>>
      <4>1. 1 \in 1 .. Len(ops)
        BY <3>2 DEF P!TypeOK
      <4>2. content'[ops[1].pkg] = content[ops[1].pkg]
        BY <2>3, <4>1 DEF WriterInv
      <4> QED BY <2>2, <4>2 DEF Going
    <3> QED BY <3>1, <3>2
  <2>5. Quiet' => Quiet /\ wire' \o Going' = wire \o Going
    BY <2>2, <2>4 DEF Quiet
  <2> QED BY <2>1, <2>2, <2>3, <2>5, WriterStep
<1>2. ASSUME NEW k \in Pkg, P!Send(k) PROVE PackageInv'
  BY <1>2, SendTypes, SendReader
<1>3. ASSUME NEW i \in DOMAIN ops, P!Transmit(i) \/ P!HandleSend(i) PROVE PackageInv'
  <2>1. i \in 1 .. Len(ops)
    <3>1. ops \in Seq(Op)
      BY DEF P!TypeOK, Op
    <3>2. DOMAIN ops = 1 .. Len(ops)
      BY <3>1
    <3> QED BY <1>3, <3>2
  <2>2. CASE P!Transmit(i)
    <3>1. /\ P!TypeOK' /\ WriterInv'
          /\ Quiet' => Quiet /\ wire' \o Going' = wire \o Going
          /\ UNCHANGED <<sent, content, reading, readSize, inBuf, handled, misread>>
      BY <2>1, <2>2, TransmitTypes, Zenon
    <3> QED BY <3>1, WriterStep
  <2>3. CASE P!HandleSend(i)
    <3>1. /\ P!TypeOK' /\ WriterInv'
          /\ Quiet' => Quiet /\ Going = <<>> /\ Going' = <<>>
          /\ UNCHANGED <<sent, content, wire, reading, readSize, inBuf, handled, misread>>
      BY <2>1, <2>3, HandleSendTypes
    <3>2. Quiet' => Quiet /\ wire' \o Going' = wire \o Going
      BY <3>1
    <3> QED BY <3>1, <3>2, WriterStep
  <2> QED BY <1>3, <2>2, <2>3
<1> QED BY <1>1, <1>2, <1>3, ReaderStep DEF P!Next, P!Write

LEMMA PackageInvInStep ==
  ASSUME P!PackageAssumption, PackageInv
  PROVE  P!InStep
<1> USE DEF PackageInv
<1>1. P!PacketsInOrder
  <2> SUFFICES ASSUME Quiet PROVE P!IsPrefix(handled, P!Expected)
    BY DEF P!PacketsInOrder, Quiet
  <2>1. PICK r \in Seq(Packet) : handled \o r = P!Expected
    BY Zenon DEF ReaderInv
  <2>2. handled \in Seq(Packet)
    BY DEF P!TypeOK
  <2>3. IsPrefix(handled, handled \o r)
    BY <2>2, PrefixOfConcat
  <2> QED BY <2>1, <2>3, SameOperators
<1>2. P!MisreadOnlyAfter
  BY DEF P!MisreadOnlyAfter, LeftInv, Quiet, Missed
<1>3. P!PackagesFramed
  <2> SUFFICES ASSUME Quiet, reading = "size", wire # <<>> PROVE wire[1][1] = "word"
    BY DEF P!PackagesFramed, Quiet
  <2>1. PICK rest \in Seq(Seq(Packet)) : wire \o Going = FramesOf(rest)
    BY Zenon DEF ReaderInv, Ahead
  <2>2. wire \in Seq(Unit) /\ Going \in Seq(Unit) /\ Len(wire) > 0
    BY GoingType DEF P!TypeOK, Unit
  <2>3. (wire \o Going)[1] = wire[1] /\ Len(wire \o Going) > 0
    <3>1. 1 \in 1 .. Len(wire) /\ Len(Going) \in Nat /\ Len(wire \o Going) = Len(wire) + Len(Going)
      BY <2>2
    <3> QED BY <2>2, <3>1, ConcatProperties
  <2>4. rest # <<>>
    <3>1. FramesOf(<<>>) = <<>>
      BY SpreadEmpty DEF FramesOf
    <3> QED BY <2>1, <2>3, <3>1
  <2> PICK h : h = Head(rest)
    OBVIOUS
  <2> PICK t : t = Tail(rest)
    BY Zenon
  <2>5. h \in Seq(Packet) /\ t \in Seq(Seq(Packet)) /\ rest = <<h>> \o t
    BY <2>4, HeadTailProperties, HeadAndTail
  <2>6. FramesOf(rest) = FrameOf(h) \o FramesOf(t) /\ FrameOf(h) \in Seq(Unit) /\ FramesOf(t) \in Seq(Unit)
    <3>1. /\ FramesOf(<<h>> \o t) = FrameOf(h) \o FramesOf(t)
          /\ FrameOf(h) \in Seq(Unit) /\ FramesOf(t) \in Seq(Unit)
      BY <2>5, PackagesOf, Zenon
    <3> QED BY <2>5, <3>1, Zenon
  <2>7. FrameOf(h)[1] = <<"word", Len(PayOf(h))>> /\ Len(FrameOf(h)) > 0
    <3> DEFINE a == PayOf(h)
               w == <<"word", Len(a)>>
    <3>1. a \in Seq(Unit) /\ Len(a) \in Nat /\ w \in Unit
      <4>1. a \in Seq(Unit) /\ Len(a) \in Nat
        BY <2>5, PayIs, Zenon
      <4> HIDE DEF a
      <4> QED BY <4>1 DEF Unit, P!Number
    <3>2. FrameOf(h) = <<w>> \o a
      BY DEF FrameOf
    <3> HIDE DEF a, w
    <3>3. FrameOf(h)[1] = w /\ Len(FrameOf(h)) = 1 + Len(a)
      BY <3>1, <3>2
    <3> QED BY <3>1, <3>3 DEF a, w
  <2>8. (FrameOf(h) \o FramesOf(t))[1] = FrameOf(h)[1]
    <3> DEFINE x == FrameOf(h)
               y == FramesOf(t)
    <3>1. x \in Seq(Unit) /\ y \in Seq(Unit) /\ Len(x) > 0
      BY <2>6, <2>7
    <3> HIDE DEF x, y
    <3>2. 1 \in 1 .. Len(x)
      BY <3>1
    <3>3. (x \o y)[1] = x[1]
      BY <3>1, <3>2, ConcatProperties
    <3> QED BY <3>3, Zenon DEF x, y
  <2>9. wire[1] = <<"word", Len(PayOf(h))>>
    BY <2>1, <2>3, <2>6, <2>7, <2>8, Zenon
  <2> QED BY <2>9
<1>4. P!NothingLeft
  <2> SUFFICES ASSUME Quiet, ~misread, NEW i \in DOMAIN inBuf PROVE inBuf[i][1] \in Unread
    BY DEF P!NothingLeft, Quiet
  <2>1. inBuf \in Seq(Leftover)
    BY DEF LeftInv
  <2>2. inBuf[i] \in Leftover
    BY <2>1
  <2> QED BY <2>2 DEF Leftover
<1> QED BY <1>1, <1>2, <1>3, <1>4 DEF P!InStep

------------------------------------------------------------------------------
(* The archives: numbers in groups and bytes.                              *)

LEMMA Sizes ==
  ASSUME A!ArchiveAssumption
  PROVE  /\ Base \in Nat /\ Base >= 2 /\ A!Byte = 2 * Base /\ A!Byte \in Nat /\ A!Byte >= 4
         /\ WordBytes \in Nat /\ WordBytes >= 1 /\ MaxValues \in Nat
BY DEF A!ArchiveAssumption, A!Byte

LEMMA LengthFits ==
  ASSUME A!ArchiveAssumption, A!Mod \in Nat
  PROVE  MaxLength \in Nat /\ MaxLength \in 0 .. A!Mod - 1
<1>1. MaxLength \in 0 .. A!Mod - 1
  BY DEF A!ArchiveAssumption
<1> QED BY <1>1

LEMMA PowerIs ==
  ASSUME NEW b \in Nat
  PROVE  /\ A!Power(b) \in [Nat -> Nat] /\ A!Power(b)[0] = 1
         /\ \A n \in Nat : A!Power(b)[n + 1] = b * A!Power(b)[n]
<1> DEFINE step == [m \in Nat |-> b * m]
           y == CHOOSE y : y = [n \in Nat |-> IF n = 0 THEN 1 ELSE b * y[n - 1]]
<1>1. step \in [Nat -> Nat]
  OBVIOUS
<1>2. PICK w \in [Nat -> Nat] : w[0] = 1 /\ \A n \in Nat : w[n + 1] = step[w[n]]
  <2> DEFINE T == Nat
             c == 1
  <2>1. c \in T /\ step \in [T -> T]
    BY <1>1
  <2> HIDE DEF step, T, c
  <2>2. \E w \in [Nat -> T] : w[0] = c /\ \A n \in Nat : w[n + 1] = step[w[n]]
    BY <2>1, IterateAlways
  <2> QED BY <2>2 DEF T, c
<1>3. \A n \in Nat : w[n + 1] = b * w[n]
  BY <1>2, Zenon
<1> HIDE DEF step
<1>4. w = [n \in Nat |-> IF n = 0 THEN 1 ELSE b * w[n - 1]]
  <2>1. \A n \in Nat : w[n] = IF n = 0 THEN 1 ELSE b * w[n - 1]
    <3> SUFFICES ASSUME NEW n \in Nat PROVE w[n] = IF n = 0 THEN 1 ELSE b * w[n - 1]
      OBVIOUS
    <3>1. n = 0 \/ (n - 1 \in Nat /\ (n - 1) + 1 = n /\ n # 0)
      OBVIOUS
    <3> QED BY <1>2, <1>3, <3>1
  <2>2. w = [n \in Nat |-> w[n]]
    BY <1>2
  <2> QED BY <2>1, <2>2
<1>5. A!Power(b) = y
  BY DEF A!Power
<1>6. y = [n \in Nat |-> IF n = 0 THEN 1 ELSE b * y[n - 1]]
  BY <1>4
<1> HIDE DEF y
<1>7. y[0] = 1 /\ \A n \in Nat : y[n + 1] = b * y[n]
  <2>1. y[0] = 1
    BY <1>6
  <2>2. ASSUME NEW n \in Nat PROVE y[n + 1] = b * y[n]
    <3>1. n + 1 \in Nat /\ n + 1 # 0 /\ (n + 1) - 1 = n
      OBVIOUS
    <3>2. y[n + 1] = IF n + 1 = 0 THEN 1 ELSE b * y[(n + 1) - 1]
      BY <1>6, <3>1
    <3> QED BY <3>1, <3>2
  <2> QED BY <2>1, <2>2
<1> DEFINE T == {n \in Nat : y[n] \in Nat}
<1>8. 0 \in T /\ \A n \in Nat : n \in T => n + 1 \in T
  BY <1>7
<1>9. Nat \subseteq T
  <2> HIDE DEF T
  <2> QED BY <1>8, SetInduction
<1>10. y = [n \in Nat |-> y[n]] /\ \A n \in Nat : y[n] \in Nat
  <2>1. DOMAIN y = Nat
    BY <1>6
  <2>2. y = [n \in Nat |-> y[n]]
    <3> DEFINE z == [n \in Nat |-> IF n = 0 THEN 1 ELSE b * y[n - 1]]
    <3>1. z = [n \in DOMAIN z |-> z[n]] /\ DOMAIN z = Nat
      OBVIOUS
    <3> QED BY <1>6, <2>1, <3>1
  <2> QED BY <2>2, <1>9
<1> QED BY <1>5, <1>7, <1>10, Zenon

LEMMA PowerAtLeast ==
  ASSUME NEW b \in Nat, b >= 1
  PROVE  \A n \in Nat : A!Power(b)[n] \in Nat /\ A!Power(b)[n] >= 1
<1> DEFINE p == A!Power(b)
<1>1. p \in [Nat -> Nat] /\ p[0] = 1 /\ \A n \in Nat : p[n + 1] = b * p[n]
  BY PowerIs
<1> HIDE DEF p
<1> DEFINE T == {n \in Nat : p[n] >= 1}
<1>2. 0 \in T
  BY <1>1
<1>3. ASSUME NEW n \in Nat, n \in T PROVE n + 1 \in T
  <2>1. p[n] \in Nat /\ p[n] >= 1 /\ p[n + 1] = b * p[n]
    BY <1>1, <1>3
  <2> DEFINE m == p[n]
  <2> HIDE DEF m
  <2>2. m \in Nat /\ m >= 1 /\ p[n + 1] = b * m
    BY <2>1 DEF m
  <2>3. b * m >= m
    BY <2>2
  <2> QED BY <2>2, <2>3
<1>4. Nat \subseteq T
  <2> HIDE DEF T
  <2> QED BY <1>2, <1>3, SetInduction
<1> QED BY <1>1, <1>4 DEF p

LEMMA ModIs ==
  ASSUME A!ArchiveAssumption
  PROVE  A!Mod \in Nat /\ A!Mod >= A!Byte
<1>1. WordBytes - 1 \in Nat /\ (WordBytes - 1) + 1 = WordBytes /\ A!Byte \in Nat /\ A!Byte >= 1
  BY Sizes
<1> DEFINE p == A!Power(A!Byte)[WordBytes - 1]
<1>2. A!Mod = A!Byte * p
  BY <1>1, PowerIs, Zenon DEF A!Mod
<1>3. p \in Nat /\ p >= 1
  BY <1>1, PowerAtLeast
<1> HIDE DEF p
<1>4. A!Byte * p \in Nat /\ A!Byte * p >= A!Byte
  BY <1>1, <1>3
<1> QED BY <1>2, <1>4

LEMMA DivMod ==
  ASSUME NEW b \in Nat, b >= 2, NEW n \in Nat
  PROVE  /\ n \div b \in Nat /\ n % b \in 0 .. b - 1 /\ n = b * (n \div b) + (n % b)
         /\ n < b => n \div b = 0 /\ n % b = n
         /\ n >= b => n \div b >= 1 /\ n \div b < n
<1> DEFINE d == n \div b
           m == n % b
<1>1. d \in Nat /\ m \in 0 .. b - 1 /\ n = b * d + m
  OBVIOUS
<1> HIDE DEF d, m
<1>2. ASSUME n < b PROVE d = 0
  <2>1. d >= 1 => b * d >= b
    BY <1>1
  <2> QED BY <1>1, <1>2, <2>1
<1>3. n < b => m = n
  BY <1>1, <1>2
<1>4. n >= b => d >= 1
  <2>1. d = 0 => b * d = 0
    BY <1>1
  <2> QED BY <1>1, <2>1
<1>5. d >= 1 => d < n
  <2>1. d >= 1 => b * d >= 2 * d
    BY <1>1
  <2> QED BY <1>1, <2>1
<1> QED BY <1>1, <1>2, <1>3, <1>4, <1>5 DEF d, m

\* What is left of n when groups of b values are taken off it, l times.
Left(b, n, l, r) == r \in [0 .. l -> Nat] /\ r[0] = n /\ \A i \in 1 .. l : r[i] = r[i - 1] \div b

\* The groups put together.
Gathers(b, l, r, acc) ==
  acc[0] = 0 /\ \A i \in 1 .. l : acc[i] = acc[i - 1] + (r[i - 1] % b) * A!Power(b)[i - 1]

LEMMA PutBack ==
  ASSUME NEW x \in Nat, NEW b \in Nat, NEW d \in Nat, NEW m \in Nat, NEW p \in Nat, NEW a \in Nat,
         x = b * d + m
  PROVE  (a + m * p) + d * (b * p) = a + x * p
<1>1. d * (b * p) = (b * d) * p
  OBVIOUS
<1>2. (b * d + m) * p = (b * d) * p + m * p
  OBVIOUS
<1>3. (b * d) * p \in Nat /\ m * p \in Nat
  OBVIOUS
<1> QED BY <1>1, <1>2, <1>3

LEMMA GatheredIs ==
  ASSUME NEW b \in Nat, b >= 2, NEW n \in Nat, NEW l \in Nat, NEW r, Left(b, n, l, r), NEW acc,
         Gathers(b, l, r, acc)
  PROVE  \A i \in 0 .. l : acc[i] \in Nat /\ acc[i] + r[i] * A!Power(b)[i] = n
<1> DEFINE p == A!Power(b)
           T == {i \in Nat : i <= l => acc[i] \in Nat /\ acc[i] + r[i] * p[i] = n}
<1>1. p \in [Nat -> Nat] /\ p[0] = 1 /\ \A i \in Nat : p[i + 1] = b * p[i]
  BY PowerIs, Zenon
<1>2. /\ r \in [0 .. l -> Nat] /\ r[0] = n /\ \A i \in 1 .. l : r[i] = r[i - 1] \div b
      /\ acc[0] = 0 /\ \A i \in 1 .. l : acc[i] = acc[i - 1] + (r[i - 1] % b) * p[i - 1]
  BY DEF Left, Gathers
<1> HIDE DEF p
<1>3. 0 \in T
  <2>1. r[0] * p[0] = n /\ acc[0] + n = n /\ acc[0] \in Nat
    BY <1>1, <1>2
  <2> QED BY <1>2, <2>1
<1>4. ASSUME NEW i \in Nat, i \in T PROVE i + 1 \in T
  <2> SUFFICES ASSUME i + 1 <= l PROVE acc[i + 1] \in Nat /\ acc[i + 1] + r[i + 1] * p[i + 1] = n
    OBVIOUS
  <2>1. i + 1 \in 1 .. l /\ (i + 1) - 1 = i /\ i \in 0 .. l /\ i <= l
    OBVIOUS
  <2> DEFINE x == r[i]
             a == acc[i]
             m == p[i]
  <2>2. x \in Nat /\ m \in Nat /\ a \in Nat /\ a + x * m = n
    BY <1>1, <1>2, <1>4, <2>1
  <2>3. r[i + 1] = x \div b /\ acc[i + 1] = a + (x % b) * m /\ p[i + 1] = b * m
    BY <1>1, <1>2, <2>1, Zenon
  <2> HIDE DEF x, a, m
  <2> DEFINE q == x \div b
             e == x % b
  <2>4. q \in Nat /\ e \in Nat /\ x = b * q + e
    <3>1. x \div b \in Nat /\ x % b \in 0 .. b - 1 /\ x = b * (x \div b) + (x % b)
      BY <2>2, DivMod, Zenon
    <3> HIDE DEF q, e
    <3>2. q \in Nat /\ e \in 0 .. b - 1 /\ x = b * q + e
      BY <3>1 DEF q, e
    <3> QED BY ONLY <3>2, b \in Nat
  <2>5. r[i + 1] = q /\ acc[i + 1] = a + e * m /\ p[i + 1] = b * m
    BY <2>3
  <2> HIDE DEF q, e
  <2>6. (a + e * m) + q * (b * m) = a + x * m
    BY <2>2, <2>4, PutBack
  <2>7. a + e * m \in Nat
    BY <2>2, <2>4
  <2> QED BY <2>2, <2>5, <2>6, <2>7
<1>5. Nat \subseteq T
  <2> HIDE DEF T
  <2> QED BY <1>3, <1>4, SetInduction
<1> QED BY <1>5 DEF p

LEMMA LeftExists ==
  ASSUME NEW b \in Nat, b >= 2, NEW n \in Nat, NEW l \in Nat
  PROVE  \E r : Left(b, n, l, r)
<1> DEFINE f == [i \in 1 .. l |-> [m \in Nat |-> m \div b]]
<1>1. \A m \in Nat : m \div b \in Nat
  BY DivMod
<1>2. f \in [1 .. l -> [Nat -> Nat]] /\ \A i \in 1 .. l : \A m \in Nat : f[i][m] = m \div b
  BY <1>1
<1> HIDE DEF f
<1>3. PICK r : Computes(r, Nat, n, l, f)
  BY <1>2, Iterate, Zenon
<1>4. r \in [0 .. l -> Nat] /\ r[0] = n /\ \A i \in 1 .. l : r[i] = f[i][r[i - 1]]
  BY <1>3 DEF Computes
<1>5. ASSUME NEW i \in 1 .. l PROVE r[i] = r[i - 1] \div b
  <2>1. i - 1 \in 0 .. l
    OBVIOUS
  <2> QED BY <1>2, <1>4, <2>1, Zenon
<1> QED BY <1>4, <1>5, Zenon DEF Left

\* What has been put together is what is not left.
LEMMA Sums ==
  ASSUME NEW b \in Nat, b >= 2, NEW n \in Nat, NEW l \in Nat, NEW r, Left(b, n, l, r)
  PROVE  Gathers(b, l, r, [i \in 0 .. l |-> n - r[i] * A!Power(b)[i]])
<1> DEFINE p == A!Power(b)
           w == [i \in 0 .. l |-> n - r[i] * p[i]]
<1>1. p \in [Nat -> Nat] /\ p[0] = 1 /\ \A i \in Nat : p[i + 1] = b * p[i]
  BY PowerIs, Zenon
<1>2. r \in [0 .. l -> Nat] /\ r[0] = n /\ \A i \in 1 .. l : r[i] = r[i - 1] \div b
  BY DEF Left
<1> HIDE DEF p
<1>3. \A i \in 0 .. l : w[i] = n - r[i] * p[i]
  OBVIOUS
<1> HIDE DEF w
<1>4. w[0] = 0
  <2>1. w[0] = n - n * 1
    BY <1>1, <1>2, <1>3
  <2> QED BY <2>1
<1>5. ASSUME NEW i \in 1 .. l PROVE w[i] = w[i - 1] + (r[i - 1] % b) * p[i - 1]
  <2> DEFINE x == r[i - 1]
             m == p[i - 1]
  <2>1. i - 1 \in Nat /\ i - 1 \in 0 .. l /\ i \in 0 .. l /\ (i - 1) + 1 = i
    OBVIOUS
  <2>2. x \in Nat /\ m \in Nat /\ r[i] = x \div b
    BY <1>1, <1>2, <2>1, Zenon
  <2>3. p[i] = b * m
    BY <1>1, <2>1
  <2>4. w[i] = n - r[i] * p[i] /\ w[i - 1] = n - x * m
    BY <1>3, <2>1
  <2> HIDE DEF x, m
  <2> DEFINE q == x \div b
             e == x % b
  <2>5. x \div b \in Nat /\ x % b \in 0 .. b - 1 /\ x = b * (x \div b) + (x % b)
    BY <2>2, DivMod, Zenon
  <2> HIDE DEF q, e
  <2>6. q \in Nat /\ e \in Nat /\ x = b * q + e
    <3>1. q \in Nat /\ e \in 0 .. b - 1 /\ x = b * q + e
      BY <2>5 DEF q, e
    <3> QED BY ONLY <3>1, b \in Nat
  <2>7. (0 + e * m) + q * (b * m) = 0 + x * m
    BY <2>2, <2>6, PutBack
  <2>8. w[i] = n - q * (b * m)
    BY <2>2, <2>3, <2>4 DEF q
  <2>9. e * m \in Nat /\ q * (b * m) \in Nat /\ x * m \in Nat
    BY <2>2, <2>6
  <2>10. w[i] = (n - x * m) + e * m
    BY ONLY <2>7, <2>8, <2>9, n \in Nat
  <2> QED BY <2>4, <2>10 DEF e, m, x
<1> QED BY <1>4, <1>5 DEF Gathers, p, w

LEMMA VarIs ==
  ASSUME A!ArchiveAssumption
  PROVE  \A n \in 0 .. A!Mod - 1 :
           /\ A!Var[n] \in Seq(0 .. A!Byte - 1)
           /\ A!Var[n] = IF n < Base THEN <<n>> ELSE <<(n % Base) + Base>> \o A!Var[n \div Base]
<1> DEFINE d == A!Mod - 1
           N == 0 .. d
           U == Seq(0 .. A!Byte - 1)
           By(f, n) == IF n < Base THEN <<n>> ELSE <<(n % Base) + Base>> \o f[n \div Base]
           depth == [n \in N |-> d - n]
           step == [f \in [N -> U] |-> [n \in N |-> By(f, n)]]
           y == CHOOSE y : y = [n \in N |-> By(y, n)]
<1>1. Base \in Nat /\ Base >= 2 /\ A!Byte = 2 * Base /\ d \in Nat
  BY Sizes, ModIs
<1> HIDE DEF d
<1>2. ASSUME NEW n \in N
      PROVE  /\ n < Base => n \in 0 .. A!Byte - 1
             /\ (n % Base) + Base \in 0 .. A!Byte - 1
             /\ n >= Base => n \div Base \in N /\ n \div Base < n
  <2>1. n \in Nat /\ n <= d
    BY <1>1
  <2>2. /\ n \div Base \in Nat /\ n % Base \in 0 .. Base - 1
        /\ n >= Base => n \div Base < n
    BY <1>1, <2>1, DivMod
  <2>3. n >= Base => n \div Base \in N
    BY <1>1, <2>1, <2>2
  <2> DEFINE e == n % Base
  <2> HIDE DEF e
  <2>4. e \in 0 .. Base - 1
    BY <2>2 DEF e
  <2>5. e + Base \in 0 .. A!Byte - 1
    BY ONLY <1>1, <2>4
  <2> QED BY <1>1, <2>1, <2>2, <2>3, <2>5 DEF e
<1> HIDE DEF N, depth, step, y
<1>3. depth \in [N -> 0 .. d] /\ \A n \in N : n \in Nat /\ depth[n] = d - n
  BY <1>1 DEF depth, N
<1>4. ASSUME NEW f \in [N -> U], NEW n \in N PROVE By(f, n) \in U
  <2>1. CASE n < Base
    BY <1>2, <2>1
  <2>2. CASE ~(n < Base)
    <3>1. n >= Base
      BY <1>1, <1>3, <2>2
    <3>2. f[n \div Base] \in U /\ <<(n % Base) + Base>> \in U
      BY <1>2, <3>1
    <3>3. <<(n % Base) + Base>> \o f[n \div Base] \in U
      BY <3>2, ConcatProperties
    <3> QED BY <2>2, <3>3
  <2> QED BY <2>1, <2>2
<1>5. ASSUME NEW f \in [N -> U], NEW g \in [N -> U], NEW n \in N,
             \A q \in N : depth[q] > depth[n] => f[q] = g[q]
      PROVE  By(f, n) = By(g, n)
  <2>1. CASE n < Base
    BY <2>1
  <2>2. CASE ~(n < Base)
    <3>1. n >= Base
      BY <1>1, <1>3, <2>2
    <3>2. n \div Base \in N /\ n \div Base < n
      BY <1>2, <3>1
    <3> DEFINE q == n \div Base
    <3> HIDE DEF q
    <3>3. q \in N /\ q < n
      BY <3>2 DEF q
    <3>4. depth[q] > depth[n]
      BY <1>1, <1>3, <3>3
    <3>5. f[q] = g[q]
      BY <1>5, <3>3, <3>4
    <3> QED BY <3>5 DEF q
  <2> QED BY <2>1, <2>2
<1> HIDE DEF By
<1>6. step \in [[N -> U] -> [N -> U]] /\ \A f \in [N -> U] : step[f] = [n \in N |-> By(f, n)]
  BY <1>4 DEF step
<1>7. ASSUME NEW f \in [N -> U], NEW g \in [N -> U], NEW n \in N,
             \A q \in N : depth[q] > depth[n] => f[q] = g[q]
      PROVE  step[f][n] = step[g][n]
  <2>1. By(f, n) = By(g, n)
    BY <1>5, <1>7, Zenon
  <2>2. step[f] = [k \in N |-> By(f, k)] /\ step[g] = [k \in N |-> By(g, k)]
    BY <1>6, Zenon
  <2>3. step[f][n] = By(f, n)
    BY <2>2
  <2>4. step[g][n] = By(g, n)
    BY <2>2
  <2> QED BY <2>1, <2>3, <2>4
<1>8. Deepens(N, U, d, depth, step)
  BY <1>3, <1>6, <1>7, Zenon DEF Deepens
<1>9. U # {}
  <2>1. <<>> \in U
    OBVIOUS
  <2> QED BY <2>1, Zenon
<1> HIDE DEF U
<1>10. PICK f \in [N -> U] : f = step[f]
  BY <1>1, <1>8, <1>9, ComputedFromDeeper
<1>11. f = [n \in N |-> By(f, n)]
  BY <1>6, <1>10, Zenon
<1>12. A!Var = y
  BY DEF A!Var, y, By, N, d
<1>13. y = [n \in N |-> By(y, n)]
  BY <1>11 DEF y
<1> DEFINE T == {k \in Nat : \A n \in N : n <= k => y[n] \in U}
<1>14. ASSUME NEW n \in N, \A q \in N : q < n => y[q] \in U PROVE y[n] \in U
  <2>1. y[n] = IF n < Base THEN <<n>> ELSE <<(n % Base) + Base>> \o y[n \div Base]
    BY <1>13, Zenon DEF By
  <2>2. CASE n < Base
    BY <1>2, <2>1, <2>2 DEF U
  <2>3. CASE ~(n < Base)
    <3>1. n >= Base
      BY <1>1, <1>3, <2>3
    <3>2. y[n \div Base] \in U
      BY <1>2, <1>14, <3>1
    <3>3. <<(n % Base) + Base>> \in U
      BY <1>2 DEF U
    <3>4. <<(n % Base) + Base>> \o y[n \div Base] \in U
      BY <3>2, <3>3, ConcatProperties DEF U
    <3> QED BY <2>1, <2>3, <3>4
  <2> QED BY <2>2, <2>3
<1>15. 0 \in T
  <2> SUFFICES ASSUME NEW n \in N, n <= 0 PROVE y[n] \in U
    OBVIOUS
  <2>1. \A q \in N : q < n => y[q] \in U
    BY <1>3
  <2> QED BY <1>14, <2>1
<1>16. ASSUME NEW k \in Nat, k \in T PROVE k + 1 \in T
  <2> SUFFICES ASSUME NEW n \in N, n <= k + 1 PROVE y[n] \in U
    OBVIOUS
  <2>1. ASSUME NEW q \in N, q < n PROVE y[q] \in U
    <3>1. q <= k
      BY <1>3, <2>1
    <3> QED BY <1>16, <3>1
  <2> QED BY <1>14, <2>1
<1>17. Nat \subseteq T
  <2> HIDE DEF T
  <2> QED BY <1>15, <1>16, SetInduction
<1>18. \A n \in N : y[n] \in U
  BY <1>1, <1>17 DEF N
<1> QED BY <1>12, <1>13, <1>18, Zenon DEF By, N, U, d

\* s has the groups of n, from the low one up, and the high bit in each but the
\* last.
Groups(n, s) ==
  /\ s \in Seq(0 .. A!Byte - 1) /\ Len(s) >= 1
  /\ \E r : /\ Left(Base, n, Len(s), r) /\ r[Len(s)] = 0
            /\ \A i \in 1 .. Len(s) : s[i] = (r[i - 1] % Base) + IF i = Len(s) THEN 0 ELSE Base
            /\ \A i \in 1 .. Len(s) - 1 : r[i] >= 1

LEMMA OneGroup ==
  ASSUME A!ArchiveAssumption, NEW n \in Nat, n < Base
  PROVE  Groups(n, <<n>>)
<1> DEFINE s == <<n>>
           r == [i \in 0 .. 1 |-> IF i = 0 THEN n ELSE 0]
<1>1. Base \in Nat /\ Base >= 2 /\ A!Byte = 2 * Base
  BY Sizes
<1>2. s \in Seq(0 .. A!Byte - 1) /\ Len(s) = 1 /\ s[1] = n
  BY <1>1
<1>3. r \in [0 .. 1 -> Nat] /\ r[0] = n /\ r[1] = 0
  OBVIOUS
<1> HIDE DEF s, r
<1>4. n \div Base = 0 /\ n % Base = n
  BY <1>1, DivMod
<1>5. Left(Base, n, 1, r)
  <2>1. \A i \in 1 .. 1 : r[i] = r[i - 1] \div Base
    BY <1>3, <1>4
  <2> QED BY <1>3, <2>1 DEF Left
<1>6. \A i \in 1 .. 1 : s[i] = (r[i - 1] % Base) + IF i = 1 THEN 0 ELSE Base
  BY <1>2, <1>3, <1>4
<1>7. \A i \in 1 .. 1 - 1 : r[i] >= 1
  OBVIOUS
<1>8. Groups(n, s)
  BY <1>2, <1>3, <1>5, <1>6, <1>7 DEF Groups
<1> QED BY <1>8 DEF s

LEMMA MoreGroups ==
  ASSUME A!ArchiveAssumption, NEW n \in Nat, n >= Base, NEW t, Groups(n \div Base, t)
  PROVE  Groups(n, <<(n % Base) + Base>> \o t)
<1> DEFINE q == n \div Base
           e == (n % Base) + Base
           s == <<e>> \o t
           l == Len(t)
<1>1. Base \in Nat /\ Base >= 2 /\ A!Byte = 2 * Base
  BY Sizes
<1>2. q \in Nat /\ q >= 1
  BY <1>1, DivMod
<1>3. e \in 0 .. A!Byte - 1
  <2> DEFINE m == n % Base
  <2>1. m \in 0 .. Base - 1
    BY <1>1, DivMod
  <2> HIDE DEF m
  <2>2. m + Base \in 0 .. A!Byte - 1
    BY <1>1, <2>1
  <2> QED BY <2>2 DEF m
<1> HIDE DEF q, e
<1>4. PICK r : /\ Left(Base, q, l, r) /\ r[l] = 0
               /\ \A i \in 1 .. l : t[i] = (r[i - 1] % Base) + IF i = l THEN 0 ELSE Base
               /\ \A i \in 1 .. l - 1 : r[i] >= 1
  BY DEF Groups, q
<1>5. t \in Seq(0 .. A!Byte - 1) /\ l \in Nat /\ l >= 1
  BY DEF Groups
<1>6. /\ s \in Seq(0 .. A!Byte - 1) /\ Len(s) = l + 1 /\ s[1] = e
      /\ \A i \in 1 .. l : s[i + 1] = t[i]
  BY <1>3, <1>5
<1> HIDE DEF s, l
<1> DEFINE u == [i \in 0 .. l + 1 |-> IF i = 0 THEN n ELSE r[i - 1]]
<1>7. r \in [0 .. l -> Nat] /\ r[0] = q /\ \A i \in 1 .. l : r[i] = r[i - 1] \div Base
  BY <1>4 DEF Left
<1>8. /\ u[0] = n /\ \A i \in 1 .. l + 1 : i - 1 \in 0 .. l /\ u[i] = r[i - 1]
      /\ u \in [0 .. l + 1 -> Nat]
  <2>1. \A i \in 1 .. l + 1 : i - 1 \in 0 .. l /\ u[i] = r[i - 1]
    BY <1>5
  <2>2. \A i \in 0 .. l + 1 : u[i] \in Nat
    BY <1>5, <1>7
  <2>3. 0 \in 0 .. l + 1
    BY <1>5
  <2> QED BY <2>1, <2>2, <2>3, Zenon
<1> HIDE DEF u
<1>9. Left(Base, n, l + 1, u)
  <2>1. ASSUME NEW i \in 1 .. l + 1 PROVE u[i] = u[i - 1] \div Base
    <3>1. CASE i = 1
      BY <1>7, <1>8, <3>1 DEF q
    <3>2. CASE i # 1
      <4>1. i - 1 \in 1 .. l /\ i - 1 \in 1 .. l + 1
        BY <1>5, <3>2
      <4> QED BY <1>7, <1>8, <4>1
    <3> QED BY <3>1, <3>2
  <2> QED BY <1>8, <2>1 DEF Left
<1>10. u[l + 1] = 0
  <2>1. l + 1 \in 1 .. l + 1 /\ (l + 1) - 1 = l
    BY <1>5
  <2> QED BY <1>4, <1>8, <2>1
<1>11. ASSUME NEW i \in 1 .. l + 1
       PROVE  s[i] = (u[i - 1] % Base) + IF i = l + 1 THEN 0 ELSE Base
  <2>1. CASE i = 1
    <3>1. u[i - 1] = n /\ ~(i = l + 1) /\ s[i] = e
      BY <1>5, <1>6, <1>8, <2>1
    <3> QED BY <3>1 DEF e
  <2>2. CASE i # 1
    <3>1. /\ i - 1 \in 1 .. l /\ i - 1 \in 1 .. l + 1 /\ (i - 1) + 1 = i
          /\ (i - 1 = l) <=> (i = l + 1)
      BY <1>5, <2>2
    <3>2. s[i] = t[i - 1] /\ u[i - 1] = r[(i - 1) - 1]
      BY <1>6, <1>8, <3>1
    <3> QED BY <1>4, <3>1, <3>2
  <2> QED BY <2>1, <2>2
<1>12. ASSUME NEW i \in 1 .. (l + 1) - 1 PROVE u[i] >= 1
  <2>1. i \in 1 .. l + 1 /\ i \in 1 .. l
    BY <1>5
  <2>2. CASE i = 1
    BY <1>2, <1>7, <1>8, <2>1, <2>2
  <2>3. CASE i # 1
    <3>1. i - 1 \in 1 .. l - 1
      BY <1>5, <2>1, <2>3
    <3> QED BY <1>4, <1>8, <2>1, <3>1
  <2> QED BY <2>2, <2>3
<1>13. Groups(n, s)
  <2>1. Len(s) >= 1
    BY <1>5, <1>6
  <2> QED BY <1>6, <1>9, <1>10, <1>11, <1>12, <2>1 DEF Groups
<1> QED BY <1>13 DEF s, e

LEMMA VarGroups ==
  ASSUME A!ArchiveAssumption
  PROVE  \A n \in 0 .. A!Mod - 1 : Groups(n, A!Var[n])
<1> DEFINE d == A!Mod - 1
           N == 0 .. d
           T == {k \in Nat : \A n \in N : n <= k => Groups(n, A!Var[n])}
<1>1. Base \in Nat /\ Base >= 2 /\ d \in Nat
  BY Sizes, ModIs
<1>2. \A n \in N : A!Var[n] = IF n < Base THEN <<n>> ELSE <<(n % Base) + Base>> \o A!Var[n \div Base]
  BY VarIs, Zenon
<1> HIDE DEF d
<1>3. ASSUME NEW n \in N, \A q \in N : q < n => Groups(q, A!Var[q]) PROVE Groups(n, A!Var[n])
  <2>1. n \in Nat
    BY <1>1
  <2>2. CASE n < Base
    BY <1>2, <2>1, <2>2, OneGroup, Zenon
  <2>3. CASE ~(n < Base)
    <3>1. n >= Base
      BY <1>1, <2>1, <2>3
    <3>2. n \div Base \in N /\ n \div Base < n
      <4>1. n \div Base \in Nat /\ n \div Base < n
        BY <1>1, <2>1, <3>1, DivMod
      <4> QED BY <1>1, <2>1, <4>1
    <3>3. Groups(n \div Base, A!Var[n \div Base])
      BY <1>3, <3>2
    <3>4. Groups(n, <<(n % Base) + Base>> \o A!Var[n \div Base])
      BY <2>1, <3>1, <3>3, MoreGroups
    <3> QED BY <1>2, <2>3, <3>4, Zenon
  <2> QED BY <2>2, <2>3
<1> HIDE DEF N
<1>4. \A n \in N : n \in Nat /\ n <= d
  BY <1>1 DEF N
<1>5. 0 \in T
  <2> SUFFICES ASSUME NEW n \in N, n <= 0 PROVE Groups(n, A!Var[n])
    OBVIOUS
  <2>1. \A q \in N : ~(q < n)
    BY <1>4
  <2> QED BY <1>3, <2>1
<1>6. ASSUME NEW k \in Nat, k \in T PROVE k + 1 \in T
  <2> SUFFICES ASSUME NEW n \in N, n <= k + 1 PROVE Groups(n, A!Var[n])
    OBVIOUS
  <2>1. ASSUME NEW q \in N, q < n PROVE Groups(q, A!Var[q])
    <3>1. q <= k
      BY <1>4, <2>1
    <3> QED BY <1>6, <3>1
  <2> QED BY <1>3, <2>1
<1>7. Nat \subseteq T
  <2> HIDE DEF T
  <2> QED BY <1>5, <1>6, SetInduction
<1>8. \A n \in N : Groups(n, A!Var[n])
  BY <1>1, <1>4, <1>7
<1> QED BY <1>8 DEF N, d

------------------------------------------------------------------------------
(* Reading a number in groups.                                             *)

\* The bytes of s are there from byte p on.
There(s, p) == \A i \in 1 .. Len(s) : stream[p - 1 + i] = s[i]

Arrived == /\ stream \in Seq(0 .. A!Byte - 1) /\ arrived \in 0 .. Len(stream)

LEMMA GetIs ==
  ASSUME Arrived, NEW p \in Nat, p >= 1
  PROVE  /\ A!Get(p) \in Int
         /\ p <= arrived => A!Get(p) = stream[p]
         /\ p > arrived => A!Get(p) = -1
<1>1. Len(stream) \in Nat /\ arrived \in Nat /\ arrived <= Len(stream)
      /\ \A i \in 1 .. Len(stream) : stream[i] \in 0 .. A!Byte - 1
  <2> DEFINE U == 0 .. A!Byte - 1
  <2>1. stream \in Seq(U) /\ arrived \in 0 .. Len(stream)
    BY DEF Arrived
  <2> HIDE DEF U
  <2>2. Len(stream) \in Nat /\ \A i \in 1 .. Len(stream) : stream[i] \in U
    BY <2>1
  <2> QED BY <2>1, <2>2 DEF U
<1>2. p <= arrived => stream[p] \in Int
  <2> SUFFICES ASSUME p <= arrived PROVE stream[p] \in Int
    OBVIOUS
  <2>1. p \in 1 .. Len(stream)
    BY <1>1
  <2>2. \A x \in 0 .. A!Byte - 1 : x \in Int
    OBVIOUS
  <2> QED BY <1>1, <2>1, <2>2
<1>3. p <= arrived \/ p > arrived
  BY <1>1
<1> QED BY <1>1, <1>2, <1>3 DEF A!Get

LEMMA LastGroupIs ==
  ASSUME A!ArchiveAssumption, Arrived, NEW p \in Nat, p >= 1, NEW k \in p .. arrived + 1,
         A!Get(k) < Base, \A j \in p .. k - 1 : A!Get(j) >= Base
  PROVE  A!LastGroup(p) = k
<1> DEFINE Ends(i) == A!Get(i) < Base /\ \A j \in p .. i - 1 : A!Get(j) >= Base
           i == CHOOSE i \in p .. arrived + 1 : Ends(i)
<1>1. \A j \in p .. arrived + 1 : A!Get(j) \in Int
  BY GetIs DEF Arrived
<1>2. Base \in Nat
  BY Sizes
<1>3. Ends(k)
  OBVIOUS
<1>4. i \in p .. arrived + 1 /\ Ends(i)
  BY <1>3
<1> HIDE DEF i
<1>5. ~(i < k)
  <2> SUFFICES ASSUME i < k PROVE FALSE
    OBVIOUS
  <2>1. i \in p .. k - 1
    BY <1>4
  <2> QED BY <1>1, <1>2, <1>4, <2>1
<1>6. ~(k < i)
  <2> SUFFICES ASSUME k < i PROVE FALSE
    OBVIOUS
  <2>1. k \in p .. i - 1
    BY <1>4
  <2> QED BY <1>1, <1>2, <1>4, <2>1
<1>7. i = k
  BY <1>4, <1>5, <1>6
<1> QED BY <1>7 DEF A!LastGroup, i

LEMMA LeastOfTwo ==
  ASSUME NEW a \in Int, NEW b \in Int
  PROVE  A!Min({a, b}) = IF a <= b THEN a ELSE b
BY DEF A!Min

\* The high bit does not count.
LEMMA LowBits ==
  ASSUME NEW b \in Nat, b >= 2, NEW e \in 0 .. b - 1
  PROVE  e % b = e /\ (e + b) % b = e
<1> DEFINE x == e + b
           q == x \div b
           m == x % b
<1>1. e % b = e
  BY DivMod
<1>2. x \in Nat /\ x >= b
  OBVIOUS
<1>3. q \in Nat /\ m \in 0 .. b - 1 /\ x = b * q + m /\ q >= 1
  BY <1>2, DivMod, Zenon
<1> HIDE DEF q, m
<1>4. ~(q >= 2)
  <2> SUFFICES ASSUME q >= 2 PROVE FALSE
    OBVIOUS
  <2>1. b * q >= b * 2
    BY <1>3
  <2> QED BY <1>3, <2>1
<1>5. q = 1
  BY <1>3, <1>4
<1>6. b * q = b
  BY <1>5
<1>7. m = e
  BY <1>3, <1>6
<1> QED BY <1>1, <1>7 DEF m

\* What is read in groups, and nothing is amiss.
Read(v, p) == [value |-> v, next |-> p, eof |-> FALSE, shifted |-> FALSE]

LEMMA SumOfGroups ==
  ASSUME A!ArchiveAssumption, NEW n \in Nat, NEW s, Groups(n, s), Arrived, NEW p \in Nat, p >= 1,
         There(s, p), p - 1 + Len(s) <= arrived
  PROVE  LET q == p - 1 + Len(s)
             v[i \in p - 1 .. q] ==
               IF i = p - 1 THEN 0 ELSE v[i - 1] + (A!Get(i) % Base) * A!Power(Base)[i - p]
         IN  /\ v[q] = n /\ A!Power(Base)[q - p] <= IF n = 0 THEN 1 ELSE n
             /\ A!LastGroup(p) = q
<1> DEFINE l == Len(s)
           o == p - 1
           q == o + l
           P0 == A!Power(Base)
           By(v, i) == IF i = o THEN 0 ELSE v[i - 1] + (A!Get(i) % Base) * P0[i - p]
           y == CHOOSE v : v = [i \in o .. q |-> By(v, i)]
<1>1. Base \in Nat /\ Base >= 2
  BY Sizes
<1>2. PICK r : /\ Left(Base, n, l, r) /\ r[l] = 0
               /\ \A i \in 1 .. l : s[i] = (r[i - 1] % Base) + IF i = l THEN 0 ELSE Base
               /\ \A i \in 1 .. l - 1 : r[i] >= 1
  BY DEF Groups
<1>3. l \in Nat /\ l >= 1 /\ o \in Nat /\ arrived \in Nat
  BY DEF Groups, Arrived
<1>4. \A i \in 1 .. l : o + i \in Nat /\ o + i >= 1 /\ o + i <= arrived /\ A!Get(o + i) = s[i]
  <2> SUFFICES ASSUME NEW i \in 1 .. l
               PROVE  o + i \in Nat /\ o + i >= 1 /\ o + i <= arrived /\ A!Get(o + i) = s[i]
    OBVIOUS
  <2>1. o + i \in Nat /\ o + i >= 1 /\ o + i <= arrived
    BY <1>3
  <2>2. A!Get(o + i) = stream[o + i]
    BY <2>1, GetIs, Zenon
  <2> QED BY <2>1, <2>2 DEF There
<1>5. r \in [0 .. l -> Nat]
  BY <1>2 DEF Left
<1>6. ASSUME NEW i \in 1 .. l
      PROVE  /\ A!Get(o + i) % Base = r[i - 1] % Base /\ A!Get(o + i) \in Nat
             /\ i = l => A!Get(o + i) < Base
             /\ i < l => A!Get(o + i) >= Base
  <2>1. i - 1 \in 0 .. l
    BY <1>3
  <2> DEFINE e == r[i - 1] % Base
  <2>2. e \in 0 .. Base - 1
    BY <1>1, <1>5, <2>1, DivMod, Zenon
  <2>3. A!Get(o + i) = e + IF i = l THEN 0 ELSE Base
    BY <1>2, <1>4
  <2> HIDE DEF e
  <2>4. e % Base = e /\ (e + Base) % Base = e
    BY <1>1, <2>2, LowBits, Zenon
  <2>5. CASE i = l
    <3>1. A!Get(o + i) = e
      BY <1>1, <2>2, <2>3, <2>5
    <3>2. A!Get(o + i) % Base = e
      BY <2>4, <3>1
    <3>3. e \in Nat /\ e < Base
      BY <1>1, <2>2
    <3> QED BY <2>5, <3>1, <3>2, <3>3 DEF e
  <2>6. CASE i # l
    <3>1. A!Get(o + i) = e + Base
      BY <2>3, <2>6
    <3>2. e + Base \in Nat /\ e + Base >= Base
      BY <1>1, <2>2
    <3>3. A!Get(o + i) % Base = e
      BY <2>4, <3>1
    <3> QED BY <2>6, <3>1, <3>2, <3>3 DEF e
  <2> QED BY <2>5, <2>6
<1>7. A!LastGroup(p) = q
  <2>1. q \in p .. arrived + 1 /\ q \in Nat
    BY <1>3
  <2>2. A!Get(q) < Base
    BY <1>3, <1>6
  <2>3. ASSUME NEW j \in p .. q - 1 PROVE A!Get(j) >= Base
    <3> DEFINE i == j - o
    <3>1. i \in 1 .. l /\ i < l /\ o + i = j
      BY <1>3
    <3> HIDE DEF i
    <3> QED BY <1>6, <3>1
  <2> HIDE DEF q
  <2> QED BY <2>1, <2>2, <2>3, LastGroupIs
<1> DEFINE acc == [i \in 0 .. l |-> n - r[i] * P0[i]]
<1>8. Gathers(Base, l, r, acc)
  BY <1>1, <1>2, <1>3, Sums
<1>9. acc[0] = 0 /\ \A i \in 1 .. l : acc[i] = acc[i - 1] + (r[i - 1] % Base) * P0[i - 1]
  <2> HIDE DEF acc, P0
  <2> QED BY <1>8 DEF Gathers, P0
<1> HIDE DEF acc, P0
<1>10. \E v : v = [i \in o .. q |-> By(v, i)]
  <2> DEFINE v == [i \in o .. q |-> acc[i - o]]
  <2>1. \A i \in o .. q : v[i] = acc[i - o]
    OBVIOUS
  <2>2. ASSUME NEW i \in o .. q PROVE v[i] = By(v, i)
    <3>1. CASE i = o
      <4>1. v[i] = acc[0]
        <5>1. i - o = 0
          BY <1>3, <3>1
        <5> QED BY <2>1, <5>1
      <4> QED BY <1>9, <3>1, <4>1
    <3>2. CASE i # o
      <4> DEFINE j == i - o
      <4>1. j \in 1 .. l /\ i - 1 \in o .. q /\ (i - 1) - o = j - 1 /\ i - p = j - 1 /\ o + j = i
        BY <1>3, <3>2
      <4>2. v[i] = acc[j] /\ v[i - 1] = acc[j - 1]
        BY <2>1, <4>1
      <4> HIDE DEF j, v
      <4>3. A!Get(i) % Base = r[j - 1] % Base
        BY <1>6, <4>1, Zenon
      <4>4. acc[j] = acc[j - 1] + (A!Get(i) % Base) * P0[i - p]
        BY <1>9, <4>1, <4>3, Zenon
      <4> QED BY <3>2, <4>2, <4>4
    <3> QED BY <3>1, <3>2
  <2>3. v = [i \in o .. q |-> By(v, i)]
    <3>1. v = [i \in o .. q |-> v[i]]
      OBVIOUS
    <3> HIDE DEF v, By
    <3> QED BY <2>2, <3>1
  <2> HIDE DEF v
  <2> QED BY <2>3, Zenon
<1>11. y = [i \in o .. q |-> By(y, i)]
  <2> HIDE DEF By
  <2> QED BY <1>10, Zenon
<1>12. \A i \in o .. q : y[i] = By(y, i)
  <2> HIDE DEF By
  <2> DEFINE z == [i \in o .. q |-> By(y, i)]
  <2>1. \A i \in o .. q : z[i] = By(y, i)
    OBVIOUS
  <2>2. y = z
    BY <1>11
  <2> HIDE DEF y, z
  <2> QED BY <2>1, <2>2
<1> HIDE DEF y
<1> DEFINE sum == [i \in 0 .. l |-> y[o + i]]
<1>13. Gathers(Base, l, r, sum)
  <2>1. \A i \in 0 .. l : sum[i] = y[o + i]
    OBVIOUS
  <2> HIDE DEF sum
  <2>2. sum[0] = 0
    <3>1. o + 0 = o /\ o \in o .. q /\ 0 \in 0 .. l
      BY <1>3
    <3> QED BY <1>12, <2>1, <3>1
  <2>3. ASSUME NEW i \in 1 .. l PROVE sum[i] = sum[i - 1] + (r[i - 1] % Base) * P0[i - 1]
    <3> DEFINE j == o + i
    <3>1. /\ j \in o .. q /\ j # o /\ j - 1 = o + (i - 1) /\ j - p = i - 1
          /\ i \in 0 .. l /\ i - 1 \in 0 .. l
      BY <1>3
    <3>2. sum[i] = y[j] /\ sum[i - 1] = y[o + (i - 1)]
      BY <2>1, <3>1, Zenon
    <3>3. A!Get(j) % Base = r[i - 1] % Base
      BY <1>6
    <3> HIDE DEF j, q
    <3>4. y[j] = y[j - 1] + (A!Get(j) % Base) * P0[j - p]
      BY <1>12, <3>1
    <3> QED BY <3>1, <3>2, <3>3, <3>4
  <2> QED BY <2>2, <2>3 DEF Gathers, P0
<1>14. \A i \in 0 .. l : sum[i] \in Nat /\ sum[i] + r[i] * P0[i] = n
  <2> HIDE DEF sum
  <2> QED BY <1>1, <1>2, <1>3, <1>13, GatheredIs DEF P0
<1>15. y[q] = n
  <2>1. l \in 0 .. l /\ sum[l] = y[q]
    BY <1>3
  <2> HIDE DEF sum
  <2>2. sum[l] \in Nat /\ sum[l] + r[l] * P0[l] = n
    BY <1>14, <2>1
  <2>3. r[l] * P0[l] = 0
    <3>1. P0[l] \in Nat
      BY <1>1, <1>3, PowerIs, Zenon DEF P0
    <3> QED BY <1>2, <3>1
  <2> QED BY <2>1, <2>2, <2>3
<1>16. P0[q - p] <= IF n = 0 THEN 1 ELSE n
  <2>1. q - p = l - 1 /\ l - 1 \in Nat /\ l - 1 \in 0 .. l
    BY <1>3
  <2>2. CASE l = 1
    <3>1. P0[0] = 1
      BY <1>1, PowerIs DEF P0
    <3> QED BY <2>1, <2>2, <3>1
  <2>3. CASE l # 1
    <3> DEFINE a == sum[l - 1]
               x == r[l - 1]
               m == P0[l - 1]
    <3>1. l - 1 \in 1 .. l - 1
      <4> HIDE DEF l
      <4> QED BY <1>3, <2>3
    <3>2. x >= 1 /\ x \in Nat
      BY <1>2, <1>5, <2>1, <3>1, Zenon
    <3>3. a \in Nat /\ a + x * m = n
      BY <1>14, <2>1
    <3>4. m \in Nat /\ m >= 1
      BY <1>1, <2>1, PowerAtLeast DEF P0
    <3> HIDE DEF a, x, m
    <3>5. x * m >= m /\ x * m \in Nat
      BY <3>2, <3>4
    <3>6. m <= n /\ n # 0
      BY <3>3, <3>4, <3>5
    <3> QED BY <2>1, <3>6 DEF m
  <2> QED BY <2>2, <2>3
<1>17. y = CHOOSE v : v = [i \in p - 1 .. p - 1 + Len(s) |->
                             IF i = p - 1 THEN 0 ELSE v[i - 1] + (A!Get(i) % Base) * A!Power(Base)[i - p]]
  BY DEF y, By, P0, o, q, l
<1> QED BY <1>7, <1>15, <1>16, <1>17 DEF P0, q, o, l

LEMMA ReadNumber ==
  ASSUME A!ArchiveAssumption, NEW n \in 0 .. A!Mod - 1, Arrived, NEW p \in Nat, p >= 1,
         There(A!Var[n], p), p - 1 + Len(A!Var[n]) <= arrived, NEW m \in Nat, n < m
  PROVE  A!ReadVar(p, m) = Read(n, p + Len(A!Var[n]))
<1> DEFINE s == A!Var[n]
           q == p - 1 + Len(s)
           P0 == A!Power(Base)
           y == CHOOSE v : v = [i \in p - 1 .. q |->
                                 IF i = p - 1 THEN 0 ELSE v[i - 1] + (A!Get(i) % Base) * P0[i - p]]
<1>1. A!Mod \in Nat /\ A!Mod >= 4 /\ n \in Nat /\ n < A!Mod /\ Base \in Nat
  BY ModIs, Sizes
<1>2. Groups(n, s)
  BY VarGroups
<1>3. Len(s) \in Nat /\ Len(s) >= 1 /\ arrived \in Nat
  BY <1>2 DEF Groups, Arrived
<1> HIDE DEF s
<1>4. y[q] = n /\ P0[q - p] <= (IF n = 0 THEN 1 ELSE n) /\ A!LastGroup(p) = q
  <2>1. There(s, p) /\ p - 1 + Len(s) <= arrived
    BY DEF s
  <2> QED BY <1>1, <1>2, <2>1, SumOfGroups DEF y, q, P0
<1>5. A!ReadVar(p, m) = [value |-> y[q] % m, next |-> A!Min({q, arrived}) + 1,
                      eof |-> q > arrived, shifted |-> P0[q - p] >= A!Mod]
  BY <1>4 DEF A!ReadVar, y, P0
<1>6. P0[q - p] \in Nat
  <2>1. q - p \in Nat
    BY <1>3
  <2> QED BY <1>1, <2>1, PowerIs
<1> HIDE DEF y, P0
<1>7. n % m = n
  <2>1. n = 0 => n % m = n
    BY <1>1
  <2>2. n # 0 => m >= 2
    BY <1>1
  <2>3. m >= 2 => n % m = n
    BY <1>1, DivMod, Zenon
  <2> QED BY <2>1, <2>2, <2>3
<1>8. q \in Nat /\ q <= arrived /\ q + 1 = p + Len(s)
  BY <1>3 DEF s
<1> HIDE DEF q
<1>9. A!Min({q, arrived}) = q
  BY <1>3, <1>8, LeastOfTwo
<1>10. (q > arrived) = FALSE
  BY <1>3, <1>8
<1>11. (P0[q - p] >= A!Mod) = FALSE
  BY <1>1, <1>4, <1>6
<1> QED BY <1>4, <1>5, <1>7, <1>8, <1>9, <1>10, <1>11, Zenon DEF Read, s

\* A number that has not arrived whole.
LEMMA ReadNumberEarly ==
  ASSUME A!ArchiveAssumption, Arrived, NEW p \in 1 .. arrived + 1, \A j \in p .. arrived : A!Get(j) >= Base,
         NEW m
  PROVE  A!ReadVar(p, m).eof = TRUE
<1> DEFINE q == A!LastGroup(p)
<1>1. arrived \in Nat /\ p \in Nat /\ p >= 1 /\ Base \in Nat /\ Base >= 2
  BY Sizes DEF Arrived
<1>2. A!Get(arrived + 1) = -1
  BY <1>1, GetIs
<1>3. q = arrived + 1
  <2> DEFINE k == arrived + 1
  <2>1. k \in p .. arrived + 1 /\ A!Get(k) < Base /\ \A j \in p .. k - 1 : A!Get(j) >= Base
    BY <1>1, <1>2
  <2> HIDE DEF k
  <2>2. A!LastGroup(p) = k
    BY <1>1, <2>1, LastGroupIs
  <2> QED BY <2>2 DEF k
<1>4. A!ReadVar(p, m).eof = (q > arrived)
  BY DEF A!ReadVar
<1> HIDE DEF q
<1>5. (q > arrived) = TRUE
  BY <1>1, <1>3
<1> QED BY <1>4, <1>5, Zenon

------------------------------------------------------------------------------
(* Reading the bytes of a number.                                          *)

LEMMA FixedIs ==
  ASSUME A!ArchiveAssumption, NEW n \in Nat, NEW w \in Nat
  PROVE  \E r : /\ Left(A!Byte, n, w, r)
                /\ A!Fixed(n, w) = [i \in 1 .. w |-> r[i - 1] % A!Byte]
                /\ A!Fixed(n, w) \in Seq(0 .. A!Byte - 1) /\ Len(A!Fixed(n, w)) = w
<1> DEFINE b == A!Byte
           By(r, i) == IF i = 0 THEN n ELSE r[i - 1] \div b
           y == CHOOSE r : r = [i \in 0 .. w |-> By(r, i)]
<1>1. b \in Nat /\ b >= 2
  BY Sizes
<1>2. A!Fixed(n, w) = [i \in 1 .. w |-> y[i - 1] % b]
  BY DEF A!Fixed
<1> HIDE DEF b
<1>3. PICK r : Left(b, n, w, r)
  BY <1>1, LeftExists
<1>4. r \in [0 .. w -> Nat] /\ r[0] = n /\ \A i \in 1 .. w : r[i] = r[i - 1] \div b
  BY <1>3 DEF Left
<1>5. r = [i \in 0 .. w |-> By(r, i)]
  <2>1. ASSUME NEW i \in 0 .. w PROVE r[i] = By(r, i)
    <3>1. i = 0 \/ (i # 0 /\ i \in 1 .. w)
      OBVIOUS
    <3> QED BY <1>4, <3>1
  <2>2. r = [i \in 0 .. w |-> r[i]]
    BY <1>4
  <2> HIDE DEF By
  <2> QED BY <2>1, <2>2
<1>6. y = [i \in 0 .. w |-> By(y, i)]
  <2> HIDE DEF By
  <2> QED BY <1>5
<1>7. \A i \in 0 .. w : y[i] = By(y, i)
  <2> HIDE DEF By
  <2> DEFINE z == [i \in 0 .. w |-> By(y, i)]
  <2>1. \A i \in 0 .. w : z[i] = By(y, i)
    OBVIOUS
  <2>2. y = z
    BY <1>6
  <2> HIDE DEF y, z
  <2> QED BY <2>1, <2>2
<1> HIDE DEF y
<1>8. \A i \in 0 .. w : y[i] = r[i]
  <2>1. y[0] = r[0]
    BY <1>4, <1>7
  <2>2. ASSUME NEW i \in 1 .. w, y[i - 1] = r[i - 1] PROVE y[i] = r[i]
    <3>1. i \in 0 .. w /\ i # 0
      OBVIOUS
    <3> QED BY <1>4, <1>7, <2>2, <3>1
  <2>3. SameSteps(w, y, r)
    BY <2>1, <2>2 DEF SameSteps
  <2> QED BY <2>3, IterateOnce
<1>9. A!Fixed(n, w) = [i \in 1 .. w |-> r[i - 1] % b]
  <2>1. ASSUME NEW i \in 1 .. w PROVE y[i - 1] % b = r[i - 1] % b
    <3>1. i - 1 \in 0 .. w
      OBVIOUS
    <3> QED BY <1>8, <3>1
  <2> QED BY <1>2, <2>1
<1>10. [i \in 1 .. w |-> r[i - 1] % b] \in Seq(0 .. b - 1)
  <2>1. ASSUME NEW i \in 1 .. w PROVE r[i - 1] % b \in 0 .. b - 1
    <3>1. i - 1 \in 0 .. w
      OBVIOUS
    <3>2. r[i - 1] \in Nat
      BY <1>4, <3>1
    <3> QED BY <1>1, <3>2, DivMod
  <2> DEFINE U == 0 .. b - 1
             m == [i \in 1 .. w |-> r[i - 1] % b]
  <2>2. \A i \in 1 .. w : m[i] \in U
    BY <2>1
  <2>3. m \in [1 .. w -> U]
    <3> HIDE DEF U
    <3> QED BY <2>2
  <2> HIDE DEF m, U
  <2>4. m \in Seq(U)
    BY <2>3
  <2> QED BY <2>4 DEF m, U
<1>11. Len([i \in 1 .. w |-> r[i - 1] % b]) = w
  OBVIOUS
<1> QED BY <1>3, <1>9, <1>10, <1>11 DEF b

LEMMA NumberOfFixed ==
  ASSUME A!ArchiveAssumption, NEW w \in Nat, NEW n \in Nat, n < A!Power(A!Byte)[w]
  PROVE  A!Number(A!Fixed(n, w)) = n
<1> DEFINE b == A!Byte
           s == A!Fixed(n, w)
           P0 == A!Power(b)
           By(v, i) == IF i = 0 THEN 0 ELSE v[i - 1] + s[i] * P0[i - 1]
           y == CHOOSE v : v = [i \in 0 .. w |-> By(v, i)]
<1>1. b \in Nat /\ b >= 2
  BY Sizes
<1>2. PICK r : Left(b, n, w, r) /\ s = [i \in 1 .. w |-> r[i - 1] % b] /\ Len(s) = w
  BY FixedIs
<1> HIDE DEF s
<1>3. A!Number(s) = y[w]
  BY <1>2 DEF A!Number
<1>4. n < P0[w]
  OBVIOUS
<1> HIDE DEF b
<1>5. \A i \in 1 .. w : s[i] = r[i - 1] % b
  BY <1>2
<1> DEFINE acc == [i \in 0 .. w |-> n - r[i] * P0[i]]
<1>6. Gathers(b, w, r, acc)
  BY <1>1, <1>2, Sums
<1> HIDE DEF acc, P0
<1>7. acc[0] = 0 /\ \A i \in 1 .. w : acc[i] = acc[i - 1] + (r[i - 1] % b) * P0[i - 1]
  BY <1>6 DEF Gathers, P0
<1>8. \E v : v = [i \in 0 .. w |-> By(v, i)]
  <2>1. ASSUME NEW i \in 0 .. w PROVE acc[i] = By(acc, i)
    <3>1. i = 0 \/ (i # 0 /\ i \in 1 .. w)
      OBVIOUS
    <3> QED BY <1>5, <1>7, <3>1
  <2>2. acc = [i \in 0 .. w |-> acc[i]]
    BY DEF acc
  <2> HIDE DEF By
  <2>3. acc = [i \in 0 .. w |-> By(acc, i)]
    BY <2>1, <2>2
  <2> QED BY <2>3
<1>9. y = [i \in 0 .. w |-> By(y, i)]
  <2> HIDE DEF By
  <2> QED BY <1>8
<1>10. \A i \in 0 .. w : y[i] = By(y, i)
  <2> HIDE DEF By
  <2> DEFINE z == [i \in 0 .. w |-> By(y, i)]
  <2>1. \A i \in 0 .. w : z[i] = By(y, i)
    OBVIOUS
  <2>2. y = z
    BY <1>9
  <2> HIDE DEF y, z
  <2> QED BY <2>1, <2>2
<1> HIDE DEF y
<1>11. Gathers(b, w, r, y)
  <2>1. y[0] = 0
    BY <1>10
  <2>2. ASSUME NEW i \in 1 .. w PROVE y[i] = y[i - 1] + (r[i - 1] % b) * P0[i - 1]
    <3>1. i \in 0 .. w /\ i # 0
      OBVIOUS
    <3> QED BY <1>5, <1>10, <3>1
  <2> QED BY <2>1, <2>2 DEF Gathers, P0
<1>12. y[w] \in Nat /\ y[w] + r[w] * P0[w] = n
  <2>1. w \in 0 .. w
    OBVIOUS
  <2> QED BY <1>1, <1>2, <1>11, <2>1, GatheredIs DEF P0
<1>13. r[w] \in Nat /\ P0[w] \in Nat
  <2>1. w \in 0 .. w
    OBVIOUS
  <2>2. r[w] \in Nat
    BY <1>2, <2>1 DEF Left
  <2> QED BY <1>1, <2>2, PowerIs DEF P0
<1>14. y[w] = n
  <2> DEFINE a == y[w]
             x == r[w]
             m == P0[w]
  <2>1. a \in Nat /\ x \in Nat /\ m \in Nat /\ a + x * m = n /\ n < m
    BY <1>4, <1>12, <1>13
  <2> HIDE DEF a, x, m
  <2>2. x >= 1 => x * m >= m
    BY <2>1
  <2>3. x = 0 => x * m = 0
    BY <2>1
  <2>4. x * m \in Nat
    BY <2>1
  <2>5. a = n
    BY <2>1, <2>2, <2>3, <2>4
  <2> QED BY <2>5 DEF a
<1> QED BY <1>3, <1>14 DEF s

LEMMA Piece ==
  ASSUME Arrived, NEW p \in Nat, p >= 1, NEW t \in Seq(0 .. A!Byte - 1), There(t, p),
         p - 1 + Len(t) <= arrived
  PROVE  SubSeq(stream, p, p - 1 + Len(t)) = t
<1> DEFINE U == 0 .. A!Byte - 1
           q == p - 1 + Len(t)
           s == SubSeq(stream, p, q)
<1>1. stream \in Seq(U) /\ arrived \in 0 .. Len(stream) /\ t \in Seq(U)
  BY DEF Arrived
<1> HIDE DEF U
<1>2. Len(t) \in Nat /\ Len(stream) \in Nat /\ q \in p - 1 .. Len(stream)
  BY <1>1
<1>3. q - p + 1 = Len(t)
  BY <1>2
<1>4. s \in Seq(U) /\ Len(s) = Len(t) /\ \A i \in 1 .. Len(t) : s[i] = stream[p - 1 + i]
  <2>1. CASE Len(t) = 0
    <3>1. s = <<>>
      BY <1>2, <2>1
    <3> QED BY <2>1, <3>1
  <2>2. CASE Len(t) # 0
    <3>1. p \in 1 .. Len(stream) /\ q \in 1 .. Len(stream) /\ q >= p
      BY <1>2, <2>2
    <3>2. s = [i \in 1 .. q - p + 1 |-> stream[i + p - 1]]
      BY <1>1, <3>1
    <3>3. \A i \in 1 .. q - p + 1 : i + p - 1 \in 1 .. Len(stream) /\ i + p - 1 = p - 1 + i
      BY <1>2, <3>1
    <3>4. \A i \in 1 .. q - p + 1 : stream[i + p - 1] \in U
      BY <1>1, <3>3
    <3> HIDE DEF s, q
    <3>5. \A i \in 1 .. Len(t) : s[i] = stream[p - 1 + i] /\ s[i] \in U
      BY <1>3, <3>2, <3>3, <3>4
    <3>6. s = [i \in 1 .. Len(t) |-> s[i]]
      BY <1>3, <3>2
    <3>7. s \in Seq(U) /\ Len(s) = Len(t)
      BY <1>2, <3>5, <3>6
    <3> QED BY <3>5, <3>7
  <2> QED BY <2>1, <2>2
<1> HIDE DEF s
<1>5. \A i \in 1 .. Len(t) : s[i] = t[i]
  BY <1>4 DEF There
<1>6. s = t
  BY <1>1, <1>4, <1>5, SeqEqual, Zenon
<1> QED BY <1>6 DEF s, q

LEMMA ReadBytes ==
  ASSUME Arrived, NEW p \in Nat, p >= 1, NEW t \in Seq(0 .. A!Byte - 1), There(t, p),
         p - 1 + Len(t) <= arrived
  PROVE  A!ReadFixed(p, Len(t)) = Read(A!Number(t), p + Len(t))
<1> DEFINE q == p - 1 + Len(t)
           m == A!Min({p + Len(t) - 1, arrived})
           b == SubSeq(stream, p, m)
<1>1. Len(t) \in Nat /\ arrived \in Nat
  BY DEF Arrived
<1>2. m = q
  <2>1. p + Len(t) - 1 = q /\ q \in Int /\ arrived \in Int /\ q <= arrived
    BY <1>1
  <2> HIDE DEF q
  <2>2. A!Min({q, arrived}) = q
    BY <2>1, LeastOfTwo
  <2> QED BY <2>1, <2>2
<1>3. b = t
  BY <1>2, Piece, Zenon
<1>4. A!ReadFixed(p, Len(t)) =
        [value |-> A!Number(b), next |-> p + Len(b), eof |-> Len(b) < Len(t), shifted |-> FALSE]
  BY DEF A!ReadFixed
<1> HIDE DEF b
<1>5. (Len(b) < Len(t)) = FALSE
  BY <1>1, <1>3
<1> QED BY <1>3, <1>4, <1>5, Zenon DEF Read

\* As many bytes as there are.
LEMMA ReadBytesLength ==
  ASSUME Arrived, NEW p \in 1 .. arrived + 1, NEW w \in Nat
  PROVE  LET b == SubSeq(stream, p, A!Min({p + w - 1, arrived}))
         IN  Len(b) = IF p + w - 1 <= arrived THEN w ELSE arrived - p + 1
<1> DEFINE U == 0 .. A!Byte - 1
           k == p + w - 1
           m == A!Min({k, arrived})
<1>1. stream \in Seq(U) /\ arrived \in 0 .. Len(stream)
  BY DEF Arrived
<1> HIDE DEF U
<1>2. Len(stream) \in Nat /\ arrived \in Nat /\ arrived <= Len(stream) /\ k \in Int /\ k >= p - 1
  BY <1>1
<1>3. m = IF k <= arrived THEN k ELSE arrived
  <2> HIDE DEF k
  <2> QED BY <1>2, LeastOfTwo
<1>4. m \in p - 1 .. Len(stream) /\ p \in 1 .. Len(stream) + 1
  <2> HIDE DEF m
  <2> QED BY <1>2, <1>3
<1>5. Len(SubSeq(stream, p, m)) = m - p + 1
  <2> HIDE DEF m
  <2> QED BY <1>1, <1>4, SubSeqProperties
<1>6. m - p + 1 = IF k <= arrived THEN w ELSE arrived - p + 1
  <2> HIDE DEF m
  <2> QED BY <1>2, <1>3
<1> QED BY <1>5, <1>6

LEMMA ReadBytesEarly ==
  ASSUME Arrived, NEW p \in 1 .. arrived + 1, NEW w \in Nat, p - 1 + w > arrived
  PROVE  A!ReadFixed(p, w).eof = TRUE
<1> DEFINE b == SubSeq(stream, p, A!Min({p + w - 1, arrived}))
<1>1. arrived \in Nat
  BY DEF Arrived
<1>2. Len(b) = IF p + w - 1 <= arrived THEN w ELSE arrived - p + 1
  BY ReadBytesLength
<1>3. A!ReadFixed(p, w).eof = (Len(b) < w)
  BY Zenon DEF A!ReadFixed
<1> HIDE DEF b
<1>4. (Len(b) < w) = TRUE
  BY <1>1, <1>2
<1> QED BY <1>3, <1>4, Zenon

LEMMA ReadFixedNumber ==
  ASSUME A!ArchiveAssumption, NEW n \in 0 .. A!Mod - 1, Arrived, NEW p \in Nat, p >= 1,
         There(A!Fixed(n, WordBytes), p), p - 1 + Len(A!Fixed(n, WordBytes)) <= arrived
  PROVE  A!ReadFixed(p, WordBytes) = Read(n, p + Len(A!Fixed(n, WordBytes)))
<1> DEFINE t == A!Fixed(n, WordBytes)
<1>1. WordBytes \in Nat /\ A!Mod \in Nat /\ n \in Nat /\ n < A!Mod
  BY Sizes, ModIs
<1>2. t \in Seq(0 .. A!Byte - 1) /\ Len(t) = WordBytes
  BY <1>1, FixedIs
<1>3. A!Number(t) = n
  BY <1>1, NumberOfFixed DEF A!Mod
<1>4. There(t, p) /\ p - 1 + Len(t) <= arrived
  OBVIOUS
<1> HIDE DEF t
<1>5. A!ReadFixed(p, Len(t)) = Read(A!Number(t), p + Len(t))
  BY <1>2, <1>4, ReadBytes
<1> QED BY <1>2, <1>3, <1>5 DEF t

------------------------------------------------------------------------------
(* Strings, and numbers with a sign.                                       *)

LEMMA OneByte ==
  ASSUME A!ArchiveAssumption, NEW x \in 0 .. A!Byte - 1
  PROVE  A!Fixed(x, 1) = <<x>> /\ A!Number(<<x>>) = x
<1> DEFINE b == A!Byte
<1>1. b \in Nat /\ b >= 2 /\ x \in Nat /\ x < b
  BY Sizes
<1> DEFINE s == A!Fixed(x, 1)
<1>2. PICK r : Left(b, x, 1, r) /\ s = [i \in 1 .. 1 |-> r[i - 1] % b] /\ Len(s) = 1
  <2> DEFINE w == 1
  <2>1. w \in Nat
    OBVIOUS
  <2> HIDE DEF w
  <2>2. \E r : Left(b, x, w, r) /\ A!Fixed(x, w) = [i \in 1 .. w |-> r[i - 1] % b] /\ Len(A!Fixed(x, w)) = w
    BY <1>1, <2>1, FixedIs, Zenon
  <2> QED BY <2>2 DEF w
<1> HIDE DEF s
<1>3. s = <<x>>
  <2>1. r[0] = x
    BY <1>2 DEF Left
  <2>2. x % b = x
    <3> HIDE DEF b
    <3> QED BY <1>1, DivMod, Zenon
  <2> HIDE DEF b
  <2>3. s[1] = x
    BY <1>2, <2>1, <2>2
  <2>4. s = [i \in 1 .. 1 |-> s[i]]
    BY <1>2
  <2> QED BY <2>3, <2>4
<1>4. A!Number(s) = x
  <2>1. x < A!Power(b)[1]
    <3> HIDE DEF b
    <3>1. A!Power(b)[0] = 1 /\ A!Power(b)[0 + 1] = b * A!Power(b)[0]
      BY <1>1, PowerIs, Zenon
    <3> QED BY <1>1, <3>1
  <2> DEFINE w == 1
  <2>2. w \in Nat /\ x < A!Power(b)[w]
    BY <2>1
  <2> HIDE DEF w
  <2>3. A!Number(A!Fixed(x, w)) = x
    BY <1>1, <2>2, NumberOfFixed
  <2> QED BY <2>3 DEF w, s
<1> QED BY <1>3, <1>4 DEF s

LEMMA FlattenOnes ==
  ASSUME NEW U, NEW s \in Seq(U)
  PROVE  FlattenSeq([i \in 1 .. Len(s) |-> <<s[i]>>]) = s
<1> DEFINE One(k) == [i \in 1 .. k |-> <<s[i]>>]
           T == {k \in Nat : k <= Len(s) => FlattenSeq(One(k)) = SubSeq(s, 1, k)}
<1>1. 0 \in T
  <2>1. One(0) = <<>> /\ SubSeq(s, 1, 0) = <<>>
    OBVIOUS
  <2> QED BY <2>1, FlattenEmpty, Zenon
<1> HIDE DEF One
<1>2. ASSUME NEW k \in Nat, k \in T PROVE k + 1 \in T
  <2> SUFFICES ASSUME k + 1 <= Len(s) PROVE FlattenSeq(One(k + 1)) = SubSeq(s, 1, k + 1)
    OBVIOUS
  <2>1. \A i \in 1 .. k + 1 : s[i] \in U /\ <<s[i]>> \in Seq(U)
    BY <1>2
  <2>2. One(k) \in Seq(Seq(U)) /\ Len(One(k)) = k
    BY <2>1 DEF One
  <2>3. One(k + 1) = Append(One(k), <<s[k + 1]>>)
    <3> DEFINE a == One(k + 1)
               c == Append(One(k), <<s[k + 1]>>)
    <3>1. a \in Seq(Seq(U)) /\ Len(a) = k + 1 /\ \A i \in 1 .. k + 1 : a[i] = <<s[i]>>
      BY <2>1 DEF One
    <3>2. c \in Seq(Seq(U)) /\ Len(c) = k + 1 /\ \A i \in 1 .. k + 1 : c[i] = <<s[i]>>
      BY <2>1, <2>2 DEF One
    <3> HIDE DEF a, c
    <3>3. a = c
      BY <3>1, <3>2, SeqEqual, Zenon
    <3> QED BY <3>3 DEF a, c
  <2>4. FlattenSeq(One(k + 1)) = FlattenSeq(One(k)) \o <<s[k + 1]>>
    <3>1. k + 1 \in 1 .. k + 1
      OBVIOUS
    <3>2. <<s[k + 1]>> \in Seq(U)
      BY <2>1, <3>1
    <3> QED BY <2>2, <2>3, <3>2, FlattenAppend, Zenon
  <2>5. FlattenSeq(One(k)) = SubSeq(s, 1, k)
    BY <1>2
  <2>6. SubSeq(s, 1, k) \o <<s[k + 1]>> = SubSeq(s, 1, k + 1)
    <3> DEFINE a == SubSeq(s, 1, k) \o <<s[k + 1]>>
               c == SubSeq(s, 1, k + 1)
    <3>1. SubSeq(s, 1, k) \in Seq(U) /\ Len(SubSeq(s, 1, k)) = k /\ \A i \in 1 .. k : SubSeq(s, 1, k)[i] = s[i]
      BY <2>1
    <3>2. a \in Seq(U) /\ Len(a) = k + 1 /\ \A i \in 1 .. k + 1 : a[i] = s[i]
      BY <2>1, <3>1
    <3>3. c \in Seq(U) /\ Len(c) = k + 1 /\ \A i \in 1 .. k + 1 : c[i] = s[i]
      BY <2>1
    <3> HIDE DEF a, c
    <3>4. a = c
      BY <3>2, <3>3, SeqEqual
    <3> QED BY <3>4 DEF a, c
  <2> QED BY <2>4, <2>5, <2>6
<1>3. Nat \subseteq T
  <2> HIDE DEF T
  <2> QED BY <1>1, <1>2, SetInduction
<1>4. Len(s) \in T
  <2> HIDE DEF T
  <2>1. Len(s) \in Nat
    OBVIOUS
  <2> QED BY <1>3, <2>1
<1>5. SubSeq(s, 1, Len(s)) = s
  BY SubSeqFull
<1> QED BY <1>4, <1>5 DEF One

\* The bytes of a string follow its length.
LEMMA StringIs ==
  ASSUME A!ArchiveAssumption, NEW s \in Seq(0 .. A!Byte - 1)
  PROVE  A!SaveString(s, 1) = A!Var[Len(s)] \o s
<1> DEFINE U == 0 .. A!Byte - 1
           f == [i \in DOMAIN s |-> A!Fixed(s[i], 1)]
<1>1. \A x \in U : A!Fixed(x, 1) = <<x>>
  BY OneByte, Zenon
<1> HIDE DEF U
<1>2. s \in Seq(U)
  BY DEF U
<1>3. f = [i \in 1 .. Len(s) |-> <<s[i]>>]
  <2>1. DOMAIN s = 1 .. Len(s) /\ \A i \in 1 .. Len(s) : s[i] \in U
    BY <1>2
  <2> QED BY <1>1, <2>1
<1> HIDE DEF f
<1>4. FlattenSeq(f) = s
  BY <1>2, <1>3, FlattenOnes
<1>5. A!FlattenSeq(f) = FlattenSeq(f)
  BY DEF A!FlattenSeq, FlattenSeq
<1>6. SubSeq(s, 1, Len(s)) = s
  BY <1>2, SubSeqFull
<1>7. A!SaveString(s, 1) = A!Var[Len(s)] \o SubSeq(A!FlattenSeq(f), 1, Len(s))
  BY DEF A!SaveString, f
<1> QED BY <1>4, <1>5, <1>6, <1>7, Zenon

LEMMA EmptyStringIs ==
  ASSUME A!ArchiveAssumption
  PROVE  A!SaveString(<<>>, A!WideBytes) = A!Var[0]
<1> DEFINE w == A!WideBytes
           U == 0 .. A!Byte - 1
           f == [i \in DOMAIN <<>> |-> A!Fixed(<<>>[i], w)]
<1>1. f = <<>>
  OBVIOUS
<1> HIDE DEF f, w
<1>2. A!FlattenSeq(f) = <<>>
  BY <1>1, FlattenEmpty DEF A!FlattenSeq, FlattenSeq
<1>3. A!SaveString(<<>>, w) = A!Var[0] \o SubSeq(A!FlattenSeq(f), 1, 0)
  BY DEF A!SaveString, f
<1>4. A!Var[0] \in Seq(U)
  <2>1. 0 \in 0 .. A!Mod - 1
    BY ModIs, Sizes
  <2> QED BY <2>1, VarIs, Zenon
<1> HIDE DEF U
<1>5. A!Var[0] \o <<>> = A!Var[0]
  BY <1>4
<1>6. SubSeq(<<>>, 1, 0) = <<>>
  OBVIOUS
<1> QED BY <1>2, <1>3, <1>5, <1>6, Zenon DEF w

LEMMA SignKept ==
  ASSUME A!ArchiveAssumption, NEW v \in -(A!Mod \div 2) .. A!Mod \div 2 - 1
  PROVE  A!ZigZag(v) \in 0 .. A!Mod - 1 /\ A!UnZigZag(A!ZigZag(v)) = v
<1> DEFINE m == A!Mod
           h == m \div 2
<1>1. m \in Nat /\ v \in -h .. h - 1
  BY ModIs
<1> HIDE DEF m
<1>2. h \in Nat /\ 2 * h <= m
  BY <1>1
<1> HIDE DEF h
<1>3. v \in Int /\ -h <= v /\ v <= h - 1
  BY <1>1, <1>2
<1>4. A!ZigZag(v) = IF v >= 0 THEN 2 * v ELSE -2 * v - 1
  BY DEF A!ZigZag
<1>5. CASE v >= 0
  <2>1. A!ZigZag(v) = 2 * v /\ 2 * v \in 0 .. m - 1
    BY <1>1, <1>2, <1>3, <1>4, <1>5
  <2>2. (2 * v) % 2 = 0 /\ (2 * v) \div 2 = v
    BY <1>3, <1>5
  <2> QED BY <2>1, <2>2 DEF A!UnZigZag, m
<1>6. CASE v < 0
  <2>1. A!ZigZag(v) = -2 * v - 1 /\ -2 * v - 1 \in 0 .. m - 1
    BY <1>1, <1>2, <1>3, <1>4, <1>6
  <2>2. (-2 * v - 1) % 2 = 1 /\ ((-2 * v - 1) + 1) \div 2 = -v
    BY <1>3, <1>6
  <2>3. -(-v) = v
    BY <1>3
  <2> QED BY <2>1, <2>2, <2>3 DEF A!UnZigZag, m
<1> QED BY <1>3, <1>5, <1>6

------------------------------------------------------------------------------
(* Decoding a value.                                                       *)

LEMMA HighBits ==
  ASSUME A!ArchiveAssumption, NEW n \in 0 .. A!Mod - 1
  PROVE  /\ A!Var[n] \in Seq(0 .. A!Byte - 1) /\ Len(A!Var[n]) >= 1
         /\ \A i \in 1 .. Len(A!Var[n]) - 1 : A!Var[n][i] >= Base
<1> DEFINE s == A!Var[n]
<1>1. Groups(n, s)
  BY VarGroups
<1> HIDE DEF s
<1>2. s \in Seq(0 .. A!Byte - 1) /\ Len(s) >= 1
  BY <1>1 DEF Groups
<1>3. PICK r : /\ Left(Base, n, Len(s), r)
               /\ \A i \in 1 .. Len(s) : s[i] = (r[i - 1] % Base) + IF i = Len(s) THEN 0 ELSE Base
  BY <1>1 DEF Groups
<1>4. ASSUME NEW i \in 1 .. Len(s) - 1 PROVE s[i] >= Base
  <2>1. Len(s) \in Nat /\ Base \in Nat /\ Base >= 2
    BY <1>2, Sizes
  <2>2. i \in 1 .. Len(s) /\ i # Len(s) /\ i - 1 \in 0 .. Len(s)
    BY <2>1
  <2>3. r[i - 1] \in Nat
    BY <1>3, <2>2, Zenon DEF Left
  <2> DEFINE e == r[i - 1] % Base
  <2>4. e \in 0 .. Base - 1
    BY <2>1, <2>3, DivMod, Zenon
  <2>5. s[i] = e + Base
    BY <1>3, <2>2
  <2> HIDE DEF e
  <2> QED BY <2>1, <2>4, <2>5
<1> QED BY <1>2, <1>4 DEF s

LEMMA ReadNumberCut ==
  ASSUME A!ArchiveAssumption, Arrived, NEW p \in 1 .. arrived + 1, NEW n \in 0 .. A!Mod - 1,
         There(A!Var[n], p), p - 1 + Len(A!Var[n]) > arrived, NEW m
  PROVE  A!ReadVar(p, m).eof = TRUE
<1> DEFINE s == A!Var[n]
<1>1. s \in Seq(0 .. A!Byte - 1) /\ \A i \in 1 .. Len(s) - 1 : s[i] >= Base
  BY HighBits
<1>2. There(s, p) /\ p - 1 + Len(s) > arrived /\ Len(s) \in Nat /\ arrived \in Nat
  BY <1>1 DEF Arrived
<1> HIDE DEF s
<1>3. ASSUME NEW j \in p .. arrived PROVE A!Get(j) >= Base
  <2> DEFINE i == j - p + 1
  <2>1. i \in 1 .. Len(s) - 1 /\ i \in 1 .. Len(s) /\ p - 1 + i = j /\ j \in Nat /\ j >= 1 /\ j <= arrived
    BY <1>2
  <2> HIDE DEF i
  <2>2. A!Get(j) = stream[j]
    BY <2>1, GetIs
  <2>3. stream[p - 1 + i] = s[i]
    BY <1>2, <2>1 DEF There
  <2> QED BY <1>1, <2>1, <2>2, <2>3, Zenon
<1> QED BY <1>3, ReadNumberEarly, Zenon

LEMMA ThereBoth ==
  ASSUME NEW U, NEW s \in Seq(U), NEW t \in Seq(U), NEW p \in Nat, There(s \o t, p)
  PROVE  There(s, p) /\ There(t, p + Len(s))
<1> DEFINE u == s \o t
<1>1. /\ Len(s) \in Nat /\ Len(t) \in Nat /\ Len(u) = Len(s) + Len(t)
      /\ \A i \in 1 .. Len(s) : u[i] = s[i]
      /\ \A i \in 1 .. Len(t) : u[Len(s) + i] = t[i]
  OBVIOUS
<1>2. \A i \in 1 .. Len(u) : stream[p - 1 + i] = u[i]
  BY DEF There
<1> HIDE DEF u
<1>3. ASSUME NEW i \in 1 .. Len(s) PROVE stream[p - 1 + i] = s[i]
  <2>1. i \in 1 .. Len(u)
    BY <1>1
  <2> QED BY <1>1, <1>2, <2>1
<1>4. ASSUME NEW i \in 1 .. Len(t) PROVE stream[(p + Len(s)) - 1 + i] = t[i]
  <2>1. Len(s) + i \in 1 .. Len(u) /\ p - 1 + (Len(s) + i) = (p + Len(s)) - 1 + i
    BY <1>1
  <2> QED BY <1>1, <1>2, <2>1
<1> QED BY <1>3, <1>4, Zenon DEF There

LEMMA IsRead ==
  \A p, m : A!ReadVar(p, m) = [value |-> A!ReadVar(p, m).value, next |-> A!ReadVar(p, m).next,
                               eof |-> A!ReadVar(p, m).eof, shifted |-> A!ReadVar(p, m).shifted]
<1> TAKE p, m
<1> DEFINE R(a, b, c, d) == [value |-> a, next |-> b, eof |-> c, shifted |-> d]
<1>1. PICK a, b, c, d : A!ReadVar(p, m) = R(a, b, c, d)
  BY Zenon DEF A!ReadVar
<1> QED BY <1>1

\* What a number in groups is, and where its reader stands, whatever is there.
LEMMA ReadVarIn ==
  ASSUME A!ArchiveAssumption, Arrived, NEW p \in 1 .. arrived + 1, NEW m \in Nat, m >= 1
  PROVE  /\ A!ReadVar(p, m).value \in Nat
         /\ A!ReadVar(p, m).next \in 1 .. arrived + 1
         /\ A!ReadVar(p, m).eof \in BOOLEAN /\ A!ReadVar(p, m).shifted \in BOOLEAN
<1> DEFINE q == A!LastGroup(p)
           P0 == A!Power(Base)
           G(i) == (A!Get(i) % Base) * P0[i - p]
           By(v, i) == IF i = p - 1 THEN 0 ELSE v[i - 1] + G(i)
           y == CHOOSE v : v = [i \in p - 1 .. q |-> By(v, i)]
<1>1. arrived \in Nat /\ p \in Nat /\ p >= 1 /\ Base \in Nat /\ Base >= 2
  BY Sizes DEF Arrived
<1>2. q \in p .. arrived + 1
  <2> DEFINE T == {i \in p .. arrived + 1 : A!Get(i) < Base}
  <2>1. A!Get(arrived + 1) = -1
    BY <1>1, GetIs
  <2>2. arrived + 1 \in T /\ T \in SUBSET Nat
    BY <1>1, <2>1
  <2>3. PICK k \in T : \A j \in T : k <= j
    <3> HIDE DEF T
    <3> QED BY <2>2, LeastNumber
  <2>4. ASSUME NEW j \in p .. k - 1 PROVE A!Get(j) >= Base
    <3>1. j \in Nat /\ j >= 1 /\ j \in p .. arrived + 1 /\ ~(k <= j)
      BY <1>1, <2>3
    <3>2. A!Get(j) \in Int
      BY <3>1, GetIs
    <3>3. j \notin T
      BY <2>3, <3>1
    <3> QED BY <1>1, <3>1, <3>2, <3>3
  <2>5. A!LastGroup(p) = k
    BY <1>1, <2>3, <2>4, LastGroupIs
  <2> QED BY <2>3, <2>5
<1> HIDE DEF q
<1>3. ASSUME NEW i \in p .. q PROVE G(i) \in Nat
  <2>1. i \in Nat /\ i >= 1 /\ i - p \in Nat
    BY <1>1, <1>2
  <2>2. A!Get(i) \in Int
    BY <2>1, GetIs
  <2>3. P0[i - p] \in Nat
    BY <1>1, <2>1, PowerIs
  <2> DEFINE g == A!Get(i)
             z == P0[i - p]
  <2>4. g \in Int /\ z \in Nat
    BY <2>2, <2>3
  <2> HIDE DEF g, z
  <2>5. g % Base \in Nat
    BY <1>1, <2>4
  <2> DEFINE d == g % Base
  <2> HIDE DEF d
  <2>6. d * z \in Nat
    BY <2>4, <2>5 DEF d
  <2> QED BY <2>6 DEF d, g, z
<1> HIDE DEF G
<1>4. \E v \in [p - 1 .. q -> Nat] : v = [i \in p - 1 .. q |-> By(v, i)]
  <2> DEFINE n == q - p + 1
             g == [i \in 1 .. n |-> [x \in Nat |-> x + G(i + p - 1)]]
  <2>1. n \in Nat /\ \A i \in 1 .. n : i + p - 1 \in p .. q
    BY <1>1, <1>2
  <2>2. g \in [1 .. n -> [Nat -> Nat]] /\ \A i \in 1 .. n : \A x \in Nat : g[i][x] = x + G(i + p - 1)
    BY <1>3, <2>1
  <2> HIDE DEF g, n
  <2>3. PICK h : Computes(h, Nat, 0, n, g)
    BY <2>1, <2>2, Iterate
  <2>4. h \in [0 .. n -> Nat] /\ h[0] = 0 /\ \A i \in 1 .. n : h[i] = g[i][h[i - 1]]
    BY <2>3 DEF Computes
  <2> DEFINE v == [i \in p - 1 .. q |-> h[i - (p - 1)]]
  <2>5. \A i \in p - 1 .. q : i - (p - 1) \in 0 .. n
    BY <1>1, <1>2 DEF n
  <2>6. v \in [p - 1 .. q -> Nat] /\ \A i \in p - 1 .. q : v[i] = h[i - (p - 1)]
    BY <2>4, <2>5
  <2>7. ASSUME NEW i \in p - 1 .. q PROVE v[i] = By(v, i)
    <3>1. CASE i = p - 1
      <4>1. i - (p - 1) = 0
        BY <1>1, <3>1
      <4> QED BY <2>4, <2>6, <3>1, <4>1
    <3>2. CASE i # p - 1
      <4> DEFINE j == i - (p - 1)
      <4>1. j \in 1 .. n /\ j - 1 \in 0 .. n /\ j + p - 1 = i /\ i - 1 \in p - 1 .. q
            /\ (i - 1) - (p - 1) = j - 1
        BY <1>1, <1>2, <2>5, <3>2 DEF n
      <4>2. v[i] = h[j] /\ v[i - 1] = h[j - 1]
        <5> HIDE DEF v
        <5>1. v[i] = h[j]
          BY <2>6
        <5>2. v[i - 1] = h[(i - 1) - (p - 1)]
          BY <2>6, <4>1
        <5> QED BY <4>1, <5>1, <5>2
      <4> HIDE DEF j, v
      <4>3. h[j - 1] \in Nat
        BY <2>4, <4>1
      <4>4. h[j] = h[j - 1] + G(i)
        BY <2>2, <2>4, <4>1, <4>3
      <4> QED BY <3>2, <4>2, <4>4
    <3> QED BY <3>1, <3>2
  <2>8. v = [i \in p - 1 .. q |-> By(v, i)]
    <3>1. v = [i \in p - 1 .. q |-> v[i]]
      OBVIOUS
    <3> HIDE DEF v, By
    <3> QED BY <2>7, <3>1
  <2> HIDE DEF v, By
  <2> QED BY <2>6, <2>8
<1>5. PICK u \in [p - 1 .. q -> Nat] : u = [i \in p - 1 .. q |-> By(u, i)]
  BY <1>4
<1>6. y = [i \in p - 1 .. q |-> By(y, i)]
  <2> HIDE DEF By
  <2> QED BY <1>5, Zenon
<1> HIDE DEF y
<1>7. y[q] \in Nat
  <2> DEFINE T == {i \in Nat : p - 1 + i <= q => y[p - 1 + i] \in Nat}
  <2>1. \A i \in p - 1 .. q : y[i] = By(y, i)
    <3> DEFINE z == [i \in p - 1 .. q |-> By(y, i)]
    <3>1. \A i \in p - 1 .. q : z[i] = By(y, i)
      OBVIOUS
    <3> HIDE DEF z, By
    <3> QED BY <1>6, <3>1 DEF z
  <2>2. 0 \in T
    <3>1. p - 1 + 0 = p - 1 /\ p - 1 \in p - 1 .. q
      BY <1>1, <1>2
    <3> QED BY <2>1, <3>1
  <2>3. ASSUME NEW i \in Nat, i \in T PROVE i + 1 \in T
    <3> SUFFICES ASSUME p - 1 + (i + 1) <= q PROVE y[p - 1 + (i + 1)] \in Nat
      OBVIOUS
    <3> DEFINE j == p - 1 + (i + 1)
    <3>1. j \in p .. q /\ j \in p - 1 .. q /\ j # p - 1 /\ j - 1 = p - 1 + i /\ p - 1 + i <= q
      BY <1>1, <1>2
    <3>2. y[j - 1] \in Nat
      BY <2>3, <3>1
    <3>3. G(j) \in Nat
      BY <1>3, <3>1
    <3> HIDE DEF j
    <3>4. y[j] = y[j - 1] + G(j)
      BY <2>1, <3>1
    <3>5. y[j] \in Nat
      BY <3>2, <3>3, <3>4
    <3> QED BY <3>5 DEF j
  <2>4. Nat \subseteq T
    <3> HIDE DEF T
    <3> QED BY <2>2, <2>3, SetInduction
  <2>5. q - (p - 1) \in Nat /\ p - 1 + (q - (p - 1)) = q
    BY <1>1, <1>2
  <2>6. q - (p - 1) \in T
    <3> HIDE DEF T
    <3> QED BY <2>4, <2>5
  <2> QED BY <2>5, <2>6
<1>8. A!ReadVar(p, m) = [value |-> y[q] % m, next |-> A!Min({q, arrived}) + 1,
                         eof |-> q > arrived, shifted |-> P0[q - p] >= A!Mod]
  BY DEF A!ReadVar, y, By, G, P0, q
<1>9. y[q] % m \in Nat
  <2> DEFINE x == y[q]
  <2>1. x \in Nat
    BY <1>7
  <2> HIDE DEF x
  <2>2. x % m \in Nat
    BY <2>1
  <2> QED BY <2>2 DEF x
<1>10. A!Min({q, arrived}) + 1 \in 1 .. arrived + 1
  <2>1. A!Min({q, arrived}) = IF q <= arrived THEN q ELSE arrived
    BY <1>1, <1>2, LeastOfTwo
  <2> QED BY <1>1, <1>2, <2>1
<1> DEFINE a == y[q] % m
           b == A!Min({q, arrived}) + 1
           c == q > arrived
           d == P0[q - p] >= A!Mod
<1>11. c \in BOOLEAN /\ d \in BOOLEAN
  OBVIOUS
<1>12. a \in Nat /\ b \in 1 .. arrived + 1
  BY <1>9, <1>10
<1> HIDE DEF a, b, c, d
<1>13. A!ReadVar(p, m) = [value |-> a, next |-> b, eof |-> c, shifted |-> d]
  BY <1>8 DEF a, b, c, d
<1> QED BY <1>11, <1>12, <1>13

LEMMA ElementIn ==
  ASSUME A!ArchiveAssumption, Arrived, NEW k \in A!Strings, NEW p \in 1 .. arrived + 1
  PROVE  /\ A!Element(k, p).next \in 1 .. arrived + 1
         /\ A!Element(k, p).eof \in BOOLEAN /\ A!Element(k, p).shifted \in BOOLEAN
<1>1. arrived \in Nat /\ A!Byte \in Nat /\ A!Byte >= 1
  BY Sizes DEF Arrived
<1>2. ASSUME NEW w \in Nat
      PROVE  /\ A!ReadFixed(p, w).next \in 1 .. arrived + 1
             /\ A!ReadFixed(p, w).eof \in BOOLEAN /\ A!ReadFixed(p, w).shifted \in BOOLEAN
  <2> DEFINE b == SubSeq(stream, p, A!Min({p + w - 1, arrived}))
  <2>1. Len(b) = IF p + w - 1 <= arrived THEN w ELSE arrived - p + 1
    BY ReadBytesLength
  <2> DEFINE a == A!Number(b)
             n == p + Len(b)
             c == Len(b) < w
  <2>2. A!ReadFixed(p, w) = [value |-> a, next |-> n, eof |-> c, shifted |-> FALSE]
    BY DEF A!ReadFixed
  <2> HIDE DEF b
  <2>3. n \in 1 .. arrived + 1 /\ c \in BOOLEAN
    BY <1>1, <2>1
  <2> HIDE DEF a, n, c
  <2> QED BY <2>2, <2>3
<1>3. CASE k = "string"
  <2>1. A!Element(k, p) = A!ReadFixed(p, 1) /\ 1 \in Nat
    BY <1>3 DEF A!Element
  <2> QED BY <1>2, <2>1, Zenon
<1>4. CASE k = "bytes"
  <2>1. A!Element(k, p) = A!ReadVar(p, A!Byte)
    BY <1>4 DEF A!Element
  <2> QED BY <1>1, <2>1, ReadVarIn, Zenon
<1>5. CASE k = "wstring"
  <2>1. A!Element(k, p) = A!ReadFixed(p, A!WideBytes) /\ A!WideBytes \in Nat
    BY <1>5 DEF A!Element, A!WideBytes
  <2> QED BY <1>2, <2>1, Zenon
<1> QED BY <1>3, <1>4, <1>5 DEF A!Strings

\* The loop over the elements of a vector.
After(k, r) == [value |-> Append(r.value, A!Element(k, r.next).value),
                next |-> A!Element(k, r.next).next,
                eof |-> r.eof \/ A!Element(k, r.next).eof,
                shifted |-> r.shifted \/ A!Element(k, r.next).shifted]

Loops(k, size, n, h) == /\ h[0] = [size EXCEPT !.value = <<>>]
                        /\ \A i \in 1 .. n : h[i] = After(k, h[i - 1])

LEMMA LoopExists ==
  ASSUME A!ArchiveAssumption, Arrived, NEW k \in A!Strings, NEW n \in Nat, NEW size,
         size = [value |-> n, next |-> size.next, eof |-> size.eof, shifted |-> size.shifted],
         size.next \in 1 .. arrived + 1, size.eof \in BOOLEAN, size.shifted \in BOOLEAN
  PROVE  \E h : DOMAIN h = 0 .. n /\ Loops(k, size, n, h) /\ h = [i \in 0 .. n |-> h[i]]
<1> DEFINE N == 1 .. arrived + 1
           V == {A!Element(k, p).value : p \in N}
           T == [value : Seq(V), next : N, eof : BOOLEAN, shifted : BOOLEAN]
           step == [r \in T |-> After(k, r)]
           f == [i \in 1 .. n |-> step]
           c == [size EXCEPT !.value = <<>>]
<1>1. ASSUME NEW r \in T PROVE After(k, r) \in T
  <2>1. r.value \in Seq(V) /\ r.next \in N /\ r.eof \in BOOLEAN /\ r.shifted \in BOOLEAN
    OBVIOUS
  <2> DEFINE e == A!Element(k, r.next)
  <2>2. e.value \in V /\ e.next \in N /\ e.eof \in BOOLEAN /\ e.shifted \in BOOLEAN
    BY <2>1, ElementIn, Zenon
  <2> DEFINE a == Append(r.value, e.value)
             b == r.eof \/ e.eof
             d == r.shifted \/ e.shifted
  <2>3. After(k, r) = [value |-> a, next |-> e.next, eof |-> b, shifted |-> d]
    BY Zenon DEF After
  <2>4. a \in Seq(V)
    <3> HIDE DEF V, e
    <3> QED BY <2>1, <2>2
  <2>5. b \in BOOLEAN /\ d \in BOOLEAN
    OBVIOUS
  <2> HIDE DEF a, b, d, e, V, N
  <2> QED BY <2>2, <2>3, <2>4, <2>5
<1>2. c \in T
  <2>1. c = [value |-> <<>>, next |-> size.next, eof |-> size.eof, shifted |-> size.shifted]
    OBVIOUS
  <2>2. <<>> \in Seq(V)
    OBVIOUS
  <2> HIDE DEF c, V
  <2> QED BY <2>1, <2>2
<1> HIDE DEF T, c
<1>3. f \in [1 .. n -> [T -> T]] /\ \A i \in 1 .. n : \A r \in T : f[i][r] = After(k, r)
  BY <1>1
<1> HIDE DEF f
<1>4. PICK h : Computes(h, T, c, n, f)
  BY <1>2, <1>3, Iterate
<1>5. h \in [0 .. n -> T] /\ h[0] = c /\ \A i \in 1 .. n : h[i] = f[i][h[i - 1]]
  BY <1>4 DEF Computes
<1>6. ASSUME NEW i \in 1 .. n PROVE h[i] = After(k, h[i - 1])
  <2>1. i - 1 \in 0 .. n
    OBVIOUS
  <2>2. h[i - 1] \in T
    BY <1>5, <2>1
  <2> QED BY <1>3, <1>5, <2>2
<1>7. DOMAIN h = 0 .. n /\ h = [i \in 0 .. n |-> h[i]]
  BY <1>5
<1> QED BY <1>5, <1>6, <1>7, Zenon DEF Loops, c

LEMMA VectorLoop ==
  ASSUME A!ArchiveAssumption, Arrived, NEW k \in A!Strings, NEW p \in 1 .. arrived + 1,
         NEW size, size = A!ReadVar(p, A!Mod)
  PROVE  /\ size.value \in Nat
         /\ size.value > MaxLength => A!ReadVector(k, p) = [size EXCEPT !.value = <<>>]
         /\ size.value <= MaxLength =>
              \E h : Loops(k, size, size.value, h) /\ A!ReadVector(k, p) = h[size.value]
<1> DEFINE n == size.value
           By(h, i) == IF i = 0 THEN [size EXCEPT !.value = <<>>]
                       ELSE LET r == h[i - 1]
                                e == A!Element(k, r.next)
                            IN  [value |-> Append(r.value, e.value), next |-> e.next,
                                 eof |-> r.eof \/ e.eof, shifted |-> r.shifted \/ e.shifted]
           y == CHOOSE h : h = [i \in 0 .. n |-> By(h, i)]
<1>1. A!Mod \in Nat /\ A!Mod >= 1
  BY ModIs, Sizes
<1>2. MaxLength \in Nat
  BY <1>1, LengthFits
<1>3. n \in Nat /\ size.next \in 1 .. arrived + 1 /\ size.eof \in BOOLEAN /\ size.shifted \in BOOLEAN
  BY <1>1, ReadVarIn
<1>4. size = [value |-> n, next |-> size.next, eof |-> size.eof, shifted |-> size.shifted]
  BY IsRead
<1>5. \A h, i : By(h, i) = IF i = 0 THEN [size EXCEPT !.value = <<>>] ELSE After(k, h[i - 1])
  BY Zenon DEF After
<1>6. A!ReadVector(k, p) = IF n > MaxLength THEN [size EXCEPT !.value = <<>>] ELSE y[n]
  BY DEF A!ReadVector
<1> HIDE DEF By
<1>7. PICK h : DOMAIN h = 0 .. n /\ Loops(k, size, n, h) /\ h = [i \in 0 .. n |-> h[i]]
  <2> HIDE DEF n
  <2> QED BY <1>3, <1>4, LoopExists
<1> HIDE DEF n
<1>8. \A i \in 0 .. n : h[i] = By(h, i)
  <2> SUFFICES ASSUME NEW i \in 0 .. n PROVE h[i] = By(h, i)
    OBVIOUS
  <2>1. i = 0 \/ i \in 1 .. n
    BY <1>3 DEF n
  <2>2. i \in 1 .. n => i # 0
    OBVIOUS
  <2> QED BY <1>5, <1>7, <2>1, <2>2, Zenon DEF Loops
<1>9. h = [i \in 0 .. n |-> By(h, i)]
  <2> DEFINE z == [i \in 0 .. n |-> By(h, i)]
  <2>1. [i \in 0 .. n |-> h[i]] = z
    BY <1>8
  <2> HIDE DEF z
  <2> QED BY <1>7, <2>1 DEF z
<1>10. y = [i \in 0 .. n |-> By(y, i)]
  BY <1>9, Zenon
<1> HIDE DEF y
<1>11. \A i \in 0 .. n : y[i] = By(y, i)
  <2> DEFINE z == [i \in 0 .. n |-> By(y, i)]
  <2>1. \A i \in 0 .. n : z[i] = By(y, i)
    OBVIOUS
  <2>2. y = z
    BY <1>10
  <2> HIDE DEF z
  <2> QED BY <2>1, <2>2
<1>12. Loops(k, size, n, y)
  <2>1. 0 \in 0 .. n
    BY <1>3 DEF n
  <2>2. \A i \in 1 .. n : i \in 0 .. n /\ i # 0
    BY <1>3 DEF n
  <2> QED BY <1>5, <1>11, <2>1, <2>2, Zenon DEF Loops
<1>13. (n <= MaxLength) => ~(n > MaxLength)
  BY <1>2, <1>3 DEF n
<1>14. n <= MaxLength => A!ReadVector(k, p) = y[n]
  BY <1>6, <1>13
<1>15. n > MaxLength => A!ReadVector(k, p) = [size EXCEPT !.value = <<>>]
  BY <1>6
<1> QED BY <1>3, <1>12, <1>14, <1>15, Zenon DEF n

\* Byte p on is read as v, which e encodes, if all of e has arrived, and otherwise
\* the read meets the end.
Decodes(k, v, e, p) ==
  /\ p - 1 + Len(e) <= arrived => A!Decode(k, p) = Read(v, p + Len(e))
  /\ p <= arrived + 1 /\ p - 1 + Len(e) > arrived => A!Decode(k, p).eof = TRUE

\* The bytes that are elements of their own, and are read as such.
VectorOf(k, v) ==
  /\ \A i \in 1 .. Len(v) : \A q \in 1 .. arrived :
       stream[q] = v[i] => A!Element(k, q) = Read(v[i], q + 1)
  /\ Len(v) > 0 => A!Element(k, arrived + 1).eof = TRUE

LEMMA LoopIs ==
  ASSUME Arrived, NEW k, NEW v \in Seq(0 .. A!Byte - 1), VectorOf(k, v), NEW o \in 1 .. arrived + 1,
         There(v, o), NEW h, Loops(k, Read(Len(v), o), Len(v), h)
  PROVE  /\ o - 1 + Len(v) <= arrived => h[Len(v)] = Read(v, o + Len(v))
         /\ o - 1 + Len(v) > arrived => h[Len(v)].eof = TRUE
<1> DEFINE n == Len(v)
           U == 0 .. A!Byte - 1
           Good(i) == /\ o - 1 + i <= arrived => h[i] = Read(SubSeq(v, 1, i), o + i)
                      /\ o - 1 + i > arrived => h[i].eof = TRUE
           T == {i \in Nat : i <= n => Good(i)}
<1>1. v \in Seq(U) /\ n \in Nat /\ arrived \in Nat
  BY DEF Arrived
<1> HIDE DEF U
<1>2. h[0] = Read(<<>>, o)
  <2>1. h[0] = [Read(n, o) EXCEPT !.value = <<>>]
    BY DEF Loops
  <2> QED BY <2>1 DEF Read
<1>3. 0 \in T
  <2>1. SubSeq(v, 1, 0) = <<>> /\ o + 0 = o /\ ~(o - 1 + 0 > arrived)
    BY <1>1
  <2> QED BY <1>2, <2>1
<1>4. ASSUME NEW i \in Nat, i \in T PROVE i + 1 \in T
  <2> SUFFICES ASSUME i + 1 <= n PROVE Good(i + 1)
    <3> HIDE DEF Good
    <3> QED OBVIOUS
  <2>1. Good(i) /\ i + 1 \in 1 .. n /\ (i + 1) - 1 = i
    BY <1>1, <1>4
  <2>2. h[i + 1] = After(k, h[i])
    BY <2>1 DEF Loops
  <2> DEFINE x == v[i + 1]
             q == o + i
  <2>3. x \in U
    BY <1>1, <2>1
  <2>4. CASE q <= arrived
    <3>1. q \in 1 .. arrived /\ o - 1 + i <= arrived /\ o - 1 + (i + 1) = q /\ o + (i + 1) = q + 1
      BY <1>1, <2>4
    <3>2. h[i] = Read(SubSeq(v, 1, i), q)
      BY <2>1, <3>1
    <3>3. stream[q] = x
      BY <2>1, <3>1 DEF There
    <3>4. A!Element(k, q) = Read(x, q + 1)
      BY <2>1, <3>1, <3>3 DEF VectorOf
    <3> DEFINE d == SubSeq(v, 1, i)
    <3>5. Append(d, x) = SubSeq(v, 1, i + 1)
      <4>1. d \in Seq(U) /\ Len(d) = i /\ \A j \in 1 .. i : d[j] = v[j]
        BY <1>1, <2>1
      <4> HIDE DEF d
      <4> DEFINE a == Append(d, x)
                 b == SubSeq(v, 1, i + 1)
      <4>2. a \in Seq(U) /\ Len(a) = i + 1 /\ \A j \in 1 .. i + 1 : a[j] = v[j]
        <5> HIDE DEF x
        <5>1. a \in Seq(U) /\ Len(a) = i + 1 /\ a[i + 1] = x /\ \A j \in 1 .. i : a[j] = d[j]
          BY <2>3, <4>1
        <5> HIDE DEF a
        <5>2. \A j \in 1 .. i + 1 : j = i + 1 \/ j \in 1 .. i
          OBVIOUS
        <5> QED BY <4>1, <5>1, <5>2 DEF x
      <4>3. b \in Seq(U) /\ Len(b) = i + 1 /\ \A j \in 1 .. i + 1 : b[j] = v[j]
        BY <1>1, <2>1
      <4> HIDE DEF a, b
      <4>4. a = b
        BY <4>2, <4>3, SeqEqual, Zenon
      <4> QED BY <4>4 DEF a, b
    <3> HIDE DEF d, q, x
    <3>6. After(k, h[i]) = Read(Append(d, x), q + 1)
      <4>1. h[i].next = q /\ h[i].value = d /\ h[i].eof = FALSE /\ h[i].shifted = FALSE
        BY <3>2 DEF Read, d
      <4>2. A!Element(k, q).value = x /\ A!Element(k, q).next = q + 1
            /\ A!Element(k, q).eof = FALSE /\ A!Element(k, q).shifted = FALSE
        BY <3>4 DEF Read
      <4> QED BY <4>1, <4>2, Zenon DEF After, Read
    <3>7. h[i + 1] = Read(SubSeq(v, 1, i + 1), o + (i + 1))
      BY <2>2, <3>1, <3>5, <3>6
    <3>8. ~(o - 1 + (i + 1) > arrived)
      BY <1>1, <2>4, <3>1
    <3> QED BY <3>7, <3>8
  <2>5. CASE ~(q <= arrived)
    <3>1. h[i + 1].eof = (h[i].eof \/ A!Element(k, h[i].next).eof)
      BY <2>2 DEF After
    <3>2. h[i + 1].eof = TRUE
      <4>1. CASE o - 1 + i > arrived
        <5>1. h[i].eof = TRUE
          BY <2>1, <4>1
        <5> QED BY <3>1, <5>1, Zenon
      <4>2. CASE ~(o - 1 + i > arrived)
        <5>1. q = arrived + 1 /\ o - 1 + i <= arrived /\ n > 0
          BY <1>1, <2>5, <4>2
        <5>2. h[i] = Read(SubSeq(v, 1, i), q)
          BY <2>1, <5>1
        <5>3. h[i].next = q
          BY <5>2 DEF Read
        <5>4. A!Element(k, q).eof = TRUE
          BY <5>1 DEF VectorOf
        <5> QED BY <3>1, <5>3, <5>4, Zenon
      <4> QED BY <4>1, <4>2
    <3>3. ~(o - 1 + (i + 1) <= arrived)
      BY <1>1, <2>5
    <3> QED BY <3>2, <3>3
  <2> QED BY <2>4, <2>5
<1>5. Nat \subseteq T
  <2> HIDE DEF T
  <2> QED BY <1>3, <1>4, SetInduction
<1>6. Good(n)
  <2> HIDE DEF Good, n
  <2> QED BY <1>1, <1>5
<1>7. SubSeq(v, 1, n) = v
  BY SubSeqFull
<1> QED BY <1>6, <1>7

\* A loop that begins behind the end stays there.
LEMMA LoopEarly ==
  ASSUME NEW k, NEW size, size.eof = TRUE,
         size = [value |-> size.value, next |-> size.next, eof |-> size.eof, shifted |-> size.shifted],
         NEW n \in Nat, NEW h, Loops(k, size, n, h)
  PROVE  h[n].eof = TRUE
<1> DEFINE Good(i) == h[i].eof = TRUE
           T == {i \in Nat : i <= n => Good(i)}
<1>1. 0 \in T
  BY DEF Loops
<1>2. ASSUME NEW i \in Nat, i \in T PROVE i + 1 \in T
  <2> SUFFICES ASSUME i + 1 <= n PROVE Good(i + 1)
    <3> HIDE DEF Good
    <3> QED OBVIOUS
  <2>1. i + 1 \in 1 .. n /\ (i + 1) - 1 = i /\ h[i].eof = TRUE
    BY <1>2
  <2>2. h[i + 1] = After(k, h[i])
    BY <2>1 DEF Loops
  <2>3. h[i + 1].eof = (h[i].eof \/ A!Element(k, h[i].next).eof)
    BY <2>2 DEF After
  <2> QED BY <2>1, <2>3, Zenon
<1>3. Nat \subseteq T
  <2> HIDE DEF T
  <2> QED BY <1>1, <1>2, SetInduction
<1>4. Good(n)
  <2> HIDE DEF Good
  <2> QED BY <1>3
<1> QED BY <1>4

\* The strings that are read as they were written.
LEMMA VectorIs ==
  ASSUME A!ArchiveAssumption, Arrived, NEW p \in Nat, p >= 1, NEW k \in A!Strings,
         NEW v \in Seq(0 .. A!Byte - 1), Len(v) <= MaxLength, VectorOf(k, v),
         There(A!Var[Len(v)] \o v, p)
  PROVE  Decodes(k, v, A!Var[Len(v)] \o v, p)
<1> DEFINE n == Len(v)
           s == A!Var[n]
           U == 0 .. A!Byte - 1
           size == A!ReadVar(p, A!Mod)
           x == A!ReadVector(k, p)
           e == s \o v
<1>1. n \in 0 .. A!Mod - 1 /\ n \in Nat /\ A!Mod \in Nat /\ n < A!Mod /\ MaxLength \in Nat
  <2>1. n \in Nat /\ A!Mod \in Nat
    BY ModIs
  <2>2. MaxLength \in Nat /\ MaxLength \in 0 .. A!Mod - 1
    BY <2>1, LengthFits
  <2> DEFINE m == A!Mod
  <2>3. m \in Nat /\ MaxLength \in 0 .. m - 1 /\ n <= MaxLength
    BY <2>1, <2>2
  <2> HIDE DEF m, n
  <2>4. n \in 0 .. m - 1 /\ n < m
    BY <2>1, <2>2, <2>3
  <2> QED BY <2>1, <2>2, <2>4 DEF m
<1>2. A!Decode(k, p) = x
  <2>1. k \notin {"unsigned", "uenum"} /\ k \notin {"signed", "enum"} /\ k # "fixed" /\ k # "float"
    BY DEF A!Strings
  <2> QED BY <2>1 DEF A!Decode
<1>3. s \in Seq(U) /\ Len(s) >= 1
  BY <1>1, HighBits
<1>4. There(s, p) /\ There(v, p + Len(s)) /\ Len(e) = Len(s) + Len(v) /\ Len(s) \in Nat
  <2>1. v \in Seq(U) /\ There(s \o v, p)
    OBVIOUS
  <2> HIDE DEF s, U
  <2>2. s \in Seq(U)
    BY <1>3
  <2>3. There(s, p) /\ There(v, p + Len(s))
    BY <2>1, <2>2, ThereBoth
  <2>4. Len(s \o v) = Len(s) + Len(v) /\ Len(s) \in Nat
    BY <2>1, <2>2
  <2> QED BY <2>3, <2>4
<1>5. arrived \in Nat
  BY DEF Arrived
<1>6. ASSUME p - 1 + Len(s) <= arrived PROVE size = Read(n, p + Len(s))
  BY <1>1, <1>4, <1>6, ReadNumber
<1>7. ASSUME p - 1 + Len(s) > arrived, p <= arrived + 1 PROVE size.eof = TRUE
  <2>1. p \in 1 .. arrived + 1
    BY <1>5, <1>7
  <2> QED BY <1>1, <1>4, <1>7, <2>1, ReadNumberCut, Zenon
<1>8. ASSUME p <= arrived + 1
      PROVE  /\ size.value \in Nat
             /\ size.value > MaxLength => x = [size EXCEPT !.value = <<>>]
             /\ size.value <= MaxLength => \E h : Loops(k, size, size.value, h) /\ x = h[size.value]
  <2>1. p \in 1 .. arrived + 1
    BY <1>5, <1>8
  <2> QED BY <2>1, VectorLoop
<1>9. size = [value |-> size.value, next |-> size.next, eof |-> size.eof, shifted |-> size.shifted]
  BY IsRead
<1> HIDE DEF s, size, x, e
<1>10. CASE p - 1 + Len(s) <= arrived
  <2> DEFINE o == p + Len(s)
  <2>1. o \in 1 .. arrived + 1 /\ p <= arrived + 1
    BY <1>3, <1>4, <1>5, <1>10
  <2>2. size = Read(n, o) /\ size.value = n
    BY <1>6, <1>10 DEF Read
  <2>3. n <= MaxLength
    OBVIOUS
  <2>4. PICK h : Loops(k, size, n, h) /\ x = h[n]
    BY <1>8, <2>1, <2>2, <2>3
  <2>5. Loops(k, Read(n, o), n, h) /\ There(v, o)
    BY <1>4, <2>2, <2>4
  <2> HIDE DEF o
  <2>6. /\ o - 1 + n <= arrived => x = Read(v, o + n)
        /\ o - 1 + n > arrived => x.eof = TRUE
    BY <2>1, <2>4, <2>5, LoopIs
  <2>7. o - 1 + n = p - 1 + Len(e) /\ o + n = p + Len(e)
    BY <1>1, <1>4 DEF o
  <2>8. Decodes(k, v, e, p)
    BY <1>2, <2>6, <2>7 DEF Decodes
  <2> QED BY <2>8 DEF e, s
<1>11. CASE ~(p - 1 + Len(s) <= arrived)
  <2>1. p - 1 + Len(s) > arrived /\ ~(p - 1 + Len(e) <= arrived)
    BY <1>1, <1>4, <1>5, <1>11
  <2>2. ASSUME p <= arrived + 1 PROVE x.eof = TRUE
    <3>1. size.eof = TRUE
      BY <1>7, <2>1, <2>2, Zenon
    <3>2. CASE size.value > MaxLength
      <4>1. [size EXCEPT !.value = <<>>].eof = size.eof
        BY ONLY <1>9
      <4> QED BY <1>8, <2>2, <3>1, <3>2, <4>1
    <3>3. CASE ~(size.value > MaxLength)
      <4>1. size.value \in Nat /\ size.value <= MaxLength
        BY <1>1, <1>8, <2>2, <3>3
      <4>2. PICK h : Loops(k, size, size.value, h) /\ x = h[size.value]
        BY <1>8, <2>2, <4>1
      <4> QED BY <1>9, <3>1, <4>1, <4>2, LoopEarly
    <3> QED BY <3>2, <3>3
  <2>3. Decodes(k, v, e, p)
    BY <1>2, <2>1, <2>2 DEF Decodes
  <2> QED BY <2>3 DEF e, s
<1> QED BY <1>10, <1>11

LEMMA UnsignedDecodes ==
  ASSUME A!ArchiveAssumption, Arrived, NEW v \in 0 .. A!Mod - 1, NEW p \in Nat, p >= 1,
         There(A!Var[v], p), NEW k \in {"unsigned", "uenum"}
  PROVE  Decodes(k, v, A!Var[v], p)
<1> DEFINE e == A!Var[v]
           r == A!ReadVar(p, A!Mod)
<1>1. A!Decode(k, p) = r
  BY DEF A!Decode, A!Strings
<1>2. p - 1 + Len(e) <= arrived => r = Read(v, p + Len(e))
  <2>1. A!Mod \in Nat /\ v < A!Mod
    BY ModIs
  <2> QED BY <2>1, ReadNumber
<1>3. p <= arrived + 1 /\ p - 1 + Len(e) > arrived => r.eof = TRUE
  <2> SUFFICES ASSUME p <= arrived + 1, p - 1 + Len(e) > arrived PROVE r.eof = TRUE
    BY Zenon
  <2>1. p \in 1 .. arrived + 1
    BY DEF Arrived
  <2> QED BY <2>1, ReadNumberCut, Zenon
<1> HIDE DEF r, e
<1>4. Decodes(k, v, e, p)
  BY <1>1, <1>2, <1>3 DEF Decodes
<1> QED BY <1>4 DEF e

LEMMA SignedDecodes ==
  ASSUME A!ArchiveAssumption, Arrived, NEW v \in -(A!Mod \div 2) .. A!Mod \div 2 - 1,
         NEW p \in Nat, p >= 1, There(A!Var[A!ZigZag(v)], p), NEW k \in {"signed", "enum"}
  PROVE  Decodes(k, v, A!Var[A!ZigZag(v)], p)
<1> DEFINE n == A!ZigZag(v)
           e == A!Var[n]
           r == A!ReadVar(p, A!Mod)
<1>1. n \in 0 .. A!Mod - 1 /\ A!UnZigZag(n) = v
  BY SignKept
<1>2. A!Decode(k, p) = [r EXCEPT !.value = A!UnZigZag(@)]
  <2>1. k \notin {"unsigned", "uenum"} /\ k \in {"signed", "enum"}
    OBVIOUS
  <2> HIDE DEF r
  <2>2. A!Decode(k, p) = [A!ReadVar(p, A!Mod) EXCEPT !.value = A!UnZigZag(@)]
    BY <2>1 DEF A!Decode, A!Strings
  <2> QED BY <2>2 DEF r
<1> HIDE DEF n
<1>3. Decodes("unsigned", n, e, p)
  <2>1. There(A!Var[n], p)
    BY DEF n
  <2> QED BY <1>1, <2>1, UnsignedDecodes
<1>4. A!Decode("unsigned", p) = r
  BY DEF A!Decode, A!Strings
<1>5. r = [value |-> r.value, next |-> r.next, eof |-> r.eof, shifted |-> r.shifted]
  BY IsRead
<1> HIDE DEF r, e
<1>6. p - 1 + Len(e) <= arrived => A!Decode(k, p) = Read(v, p + Len(e))
  <2> SUFFICES ASSUME p - 1 + Len(e) <= arrived PROVE A!Decode(k, p) = Read(v, p + Len(e))
    OBVIOUS
  <2>1. r = Read(n, p + Len(e))
    BY <1>3, <1>4 DEF Decodes
  <2> DEFINE o == p + Len(e)
  <2>2. r = Read(n, o)
    BY <2>1
  <2> HIDE DEF o
  <2>3. A!Decode(k, p) = Read(v, o)
    BY ONLY <1>1, <1>2, <2>2, Zenon DEF Read
  <2> QED BY <2>3 DEF o
<1>7. p <= arrived + 1 /\ p - 1 + Len(e) > arrived => A!Decode(k, p).eof = TRUE
  <2> SUFFICES ASSUME p <= arrived + 1, p - 1 + Len(e) > arrived PROVE A!Decode(k, p).eof = TRUE
    BY Zenon
  <2>1. r.eof = TRUE
    BY <1>3, <1>4 DEF Decodes
  <2>2. [r EXCEPT !.value = A!UnZigZag(@)].eof = r.eof
    BY ONLY <1>5
  <2> QED BY <1>2, <2>1, <2>2
<1>8. Decodes(k, v, e, p)
  BY <1>6, <1>7 DEF Decodes
<1> QED BY <1>8 DEF e, n

LEMMA FixedDecodes ==
  ASSUME A!ArchiveAssumption, Arrived, NEW v \in 0 .. A!Mod - 1, NEW p \in Nat, p >= 1,
         There(A!Fixed(v, WordBytes), p)
  PROVE  Decodes("fixed", v, A!Fixed(v, WordBytes), p)
<1> DEFINE e == A!Fixed(v, WordBytes)
           r == A!ReadFixed(p, WordBytes)
<1>1. A!Decode("fixed", p) = r
  BY DEF A!Decode, A!Strings
<1>2. p - 1 + Len(e) <= arrived => r = Read(v, p + Len(e))
  BY ReadFixedNumber
<1>3. Len(e) = WordBytes /\ WordBytes \in Nat
  <2>1. v \in Nat /\ WordBytes \in Nat
    BY Sizes, ModIs
  <2> QED BY <2>1, FixedIs
<1> HIDE DEF e
<1>4. p <= arrived + 1 /\ p - 1 + Len(e) > arrived => r.eof = TRUE
  <2> SUFFICES ASSUME p <= arrived + 1, p - 1 + Len(e) > arrived PROVE r.eof = TRUE
    BY Zenon
  <2>1. p \in 1 .. arrived + 1 /\ p - 1 + WordBytes > arrived
    BY <1>3 DEF Arrived
  <2> QED BY <1>3, <2>1, ReadBytesEarly, Zenon
<1> HIDE DEF r
<1>5. Decodes("fixed", v, e, p)
  BY <1>1, <1>2, <1>4 DEF Decodes
<1> QED BY <1>5 DEF e

\* A character that is read as a byte, and one that is read as a number and has no
\* high bit.
LEMMA StringElements ==
  ASSUME A!ArchiveAssumption, Arrived, NEW k \in {"string", "bytes"}, NEW v \in Seq(0 .. A!Byte - 1),
         ~A!Strays(k, v)
  PROVE  VectorOf(k, v)
<1>1. /\ arrived \in Nat /\ A!Byte \in Nat /\ A!Byte = 2 * Base /\ Base \in Nat /\ Base >= 2
      /\ A!Mod \in Nat /\ A!Mod >= A!Byte
  BY Sizes, ModIs DEF Arrived
<1>2. ASSUME NEW i \in 1 .. Len(v), NEW q \in 1 .. arrived, stream[q] = v[i]
      PROVE  A!Element(k, q) = Read(v[i], q + 1)
  <2> DEFINE x == v[i]
             t == <<x>>
  <2>1. x \in 0 .. A!Byte - 1
    <3> DEFINE U == 0 .. A!Byte - 1
    <3>1. v \in Seq(U)
      OBVIOUS
    <3> HIDE DEF U
    <3>2. v[i] \in U
      BY <3>1
    <3> QED BY <3>2 DEF U
  <2>2. stream[q] = x
    BY <1>2
  <2> HIDE DEF x
  <2>3. t \in Seq(0 .. A!Byte - 1) /\ Len(t) = 1
    BY <2>1
  <2>4. There(t, q)
    <3>1. \A j \in 1 .. 1 : j = 1 /\ q - 1 + j = q
      BY <1>1
    <3>2. t[1] = x
      OBVIOUS
    <3> HIDE DEF t
    <3> QED BY <2>2, <2>3, <3>1, <3>2 DEF There
  <2>5. q \in Nat /\ q >= 1 /\ q - 1 + 1 <= arrived
    BY <1>1
  <2> HIDE DEF t
  <2>6. CASE k = "string"
    <3>1. A!Number(t) = x
      BY <2>1, OneByte DEF t
    <3>2. A!ReadFixed(q, Len(t)) = Read(A!Number(t), q + Len(t))
      BY <2>3, <2>4, <2>5, ReadBytes
    <3>3. A!Element(k, q) = A!ReadFixed(q, 1)
      BY <2>6 DEF A!Element
    <3> QED BY <2>3, <3>1, <3>2, <3>3 DEF x
  <2>7. CASE k = "bytes"
    <3>1. ~(x >= Base)
      <4>1. i \in DOMAIN v
        OBVIOUS
      <4> QED BY <2>7, <4>1, Zenon DEF A!Strays, x
    <3> DEFINE b == A!Byte
               m == A!Mod
    <3>2. b \in Nat /\ m \in Nat /\ b = 2 * Base /\ m >= b /\ x \in 0 .. b - 1
      BY <1>1, <2>1
    <3> HIDE DEF b, m
    <3>3. x \in 0 .. m - 1 /\ x < b /\ x < Base
      BY <1>1, <3>1, <3>2
    <3>4. A!Var[x] = t
      BY <3>3, VarIs DEF m, t
    <3>5. A!ReadVar(q, b) = Read(x, q + 1)
      <4>1. There(A!Var[x], q) /\ q - 1 + Len(A!Var[x]) <= arrived /\ Len(A!Var[x]) = 1
        BY <2>3, <2>4, <2>5, <3>4
      <4>2. A!ReadVar(q, b) = Read(x, q + Len(A!Var[x]))
        BY <2>5, <3>2, <3>3, <4>1, ReadNumber DEF m
      <4> QED BY <4>1, <4>2
    <3>6. A!Element(k, q) = A!ReadVar(q, b)
      BY <2>7 DEF A!Element, b
    <3> QED BY <3>5, <3>6 DEF x
  <2> QED BY <2>6, <2>7
<1>3. A!Element(k, arrived + 1).eof = TRUE
  <2> DEFINE p == arrived + 1
  <2>1. p \in 1 .. arrived + 1 /\ p - 1 + 1 > arrived /\ 1 \in Nat
        /\ \A j \in p .. arrived : A!Get(j) >= Base
    BY <1>1
  <2> HIDE DEF p
  <2>2. CASE k = "string"
    <3>1. A!Element(k, p) = A!ReadFixed(p, 1)
      BY <2>2 DEF A!Element
    <3> QED BY <2>1, <3>1, ReadBytesEarly DEF p
  <2>3. CASE k = "bytes"
    <3>1. A!Element(k, p) = A!ReadVar(p, A!Byte)
      BY <2>3 DEF A!Element
    <3> QED BY <2>1, <3>1, ReadNumberEarly, Zenon DEF p
  <2> QED BY <2>2, <2>3
<1> QED BY <1>2, <1>3, Zenon DEF VectorOf

LEMMA EmptyWideDecodes ==
  ASSUME A!ArchiveAssumption, Arrived, NEW p \in Nat, p >= 1, There(A!Var[0], p)
  PROVE  Decodes("wstring", <<>>, A!Var[0], p)
<1> DEFINE v == <<>>
           k == "wstring"
           e == A!Var[Len(v)] \o v
           s == A!Var[0]
           U == 0 .. A!Byte - 1
<1>1. v \in Seq(U) /\ Len(v) = 0 /\ k \in A!Strings /\ MaxLength \in Nat
  BY ModIs, LengthFits DEF A!Strings
<1>2. e = s
  <2>1. 0 \in 0 .. A!Mod - 1
    BY ModIs, Sizes
  <2>2. s \in Seq(U)
    BY <2>1, HighBits
  <2>3. e = s \o <<>>
    OBVIOUS
  <2> HIDE DEF s, U, e
  <2>4. s \o <<>> = s
    BY <2>2
  <2> QED BY <2>3, <2>4
<1>3. VectorOf(k, v)
  BY DEF VectorOf
<1>4. There(e, p) /\ Len(v) <= MaxLength
  BY <1>1, <1>2
<1> HIDE DEF v, k
<1>5. Decodes(k, v, e, p)
  BY <1>1, <1>3, <1>4, VectorIs
<1> HIDE DEF e, s
<1> QED BY <1>2, <1>5 DEF v, k, s

------------------------------------------------------------------------------
(* The values written, where they are, and how far the reader is.          *)

LEMMA KindsAre ==
  ASSUME A!ArchiveAssumption, NEW k \in Kinds, k # "float"
  PROVE  k \in {"unsigned", "uenum"} \/ k \in {"signed", "enum"} \/ k = "fixed" \/ k \in A!Strings
<1>1. Kinds \subseteq {"unsigned", "signed", "enum", "uenum", "fixed", "float"} \cup A!Strings
  BY DEF A!ArchiveAssumption
<1> QED BY <1>1

LEMMA EncodingIs ==
  ASSUME A!ArchiveAssumption, NEW k \in Kinds, NEW v \in Values(k), ~A!Strays(k, v)
  PROVE  /\ A!Encode(k, v) \in Seq(0 .. A!Byte - 1) /\ Len(A!Encode(k, v)) >= 1
         /\ \A p \in Nat : p >= 1 /\ Arrived /\ There(A!Encode(k, v), p) =>
              Decodes(k, A!Returned(k, v), A!Encode(k, v), p)
<1> DEFINE e == A!Encode(k, v)
           x == A!Returned(k, v)
           U == 0 .. A!Byte - 1
           Right == /\ e \in Seq(U) /\ Len(e) >= 1
                    /\ \A p \in Nat : p >= 1 /\ Arrived /\ There(e, p) => Decodes(k, x, e, p)
<1>1. v \in A!Holds(k)
  BY DEF A!ArchiveAssumption
<1>2. k \in {"unsigned", "uenum"} \/ k \in {"signed", "enum"} \/ k = "fixed" \/ k \in A!Strings
  <2>1. k # "float"
    BY DEF A!Strays
  <2> QED BY <2>1, KindsAre
<1>3. k # "uenum" => x = v
  BY DEF A!Returned
<1>4. ASSUME k = "unsigned" PROVE Right
  <2>1. v \in 0 .. A!Mod - 1 /\ x = v
    BY <1>1, <1>3, <1>4 DEF A!Holds
  <2>2. e = A!Var[v]
    BY <1>4 DEF A!Encode
  <2>3. e \in Seq(U) /\ Len(e) >= 1
    BY <2>1, <2>2, HighBits
  <2> HIDE DEF e, x
  <2> QED BY <1>4, <2>1, <2>2, <2>3, UnsignedDecodes
<1>5. ASSUME k = "uenum" PROVE Right
  <2> DEFINE m == A!Mod
  <2>1. v \in 0 .. (m - 1) \div 2
    BY <1>1, <1>5 DEF A!Holds
  <2>2. m \in Nat /\ m >= 1
    BY ModIs, Sizes
  <2>3. x = 2 * v
    BY <1>5 DEF A!Returned
  <2> HIDE DEF m
  <2>4. v \in Nat /\ 2 * v \in 0 .. m - 1
    BY <2>1, <2>2
  <2>5. e = A!Var[A!ZigZag(v)]
    BY <1>5 DEF A!Encode
  <2>6. A!ZigZag(v) = x
    BY <2>3, <2>4 DEF A!ZigZag
  <2> HIDE DEF e, x
  <2>7. x \in 0 .. A!Mod - 1
    BY <2>3, <2>4 DEF m
  <2>8. e \in Seq(U) /\ Len(e) >= 1
    BY <2>5, <2>6, <2>7, HighBits
  <2> QED BY <1>5, <2>5, <2>6, <2>7, <2>8, UnsignedDecodes
<1>6. ASSUME k \in {"signed", "enum"} PROVE Right
  <2>1. v \in -(A!Mod \div 2) .. A!Mod \div 2 - 1 /\ x = v
    BY <1>1, <1>3, <1>6 DEF A!Holds
  <2>2. e = A!Var[A!ZigZag(v)]
    BY <1>6 DEF A!Encode
  <2>3. A!ZigZag(v) \in 0 .. A!Mod - 1
    BY <2>1, SignKept
  <2>4. e \in Seq(U) /\ Len(e) >= 1
    BY <2>2, <2>3, HighBits
  <2> HIDE DEF e, x
  <2> QED BY <1>6, <2>1, <2>2, <2>4, SignedDecodes
<1>7. ASSUME k = "fixed" PROVE Right
  <2>1. v \in 0 .. A!Mod - 1 /\ x = v
    BY <1>1, <1>3, <1>7 DEF A!Holds
  <2>2. e = A!Fixed(v, WordBytes)
    BY <1>7 DEF A!Encode
  <2>3. e \in Seq(U) /\ Len(e) >= 1
    <3>1. v \in Nat /\ WordBytes \in Nat /\ WordBytes >= 1
      BY <2>1, Sizes, ModIs
    <3>2. A!Fixed(v, WordBytes) \in Seq(U) /\ Len(A!Fixed(v, WordBytes)) = WordBytes
      BY <3>1, FixedIs
    <3> QED BY <2>2, <3>1, <3>2
  <2> HIDE DEF e, x
  <2> QED BY <1>7, <2>1, <2>2, <2>3, FixedDecodes
<1>8. ASSUME k \in {"string", "bytes"} PROVE Right
  <2>1. v \in Seq(U) /\ Len(v) <= MaxLength /\ x = v /\ k \in A!Strings
    BY <1>1, <1>3, <1>8 DEF A!Holds, A!Strings
  <2>2. e = A!Var[Len(v)] \o v
    <3>1. e = A!SaveString(v, 1)
      BY <1>8 DEF A!Encode
    <3> QED BY <2>1, <3>1, StringIs
  <2>3. e \in Seq(U) /\ Len(e) >= 1
    <3>1. Len(v) \in Nat /\ A!Mod \in Nat /\ MaxLength \in Nat /\ MaxLength \in 0 .. A!Mod - 1
      BY <2>1, ModIs, LengthFits
    <3> DEFINE m == A!Mod
               l == Len(v)
    <3>2. l \in Nat /\ m \in Nat /\ l <= MaxLength /\ MaxLength \in 0 .. m - 1
      BY <2>1, <3>1
    <3> HIDE DEF m, l
    <3>3. l \in 0 .. m - 1
      BY <3>2
    <3>4. A!Var[l] \in Seq(U) /\ Len(A!Var[l]) >= 1
      BY <3>3, HighBits DEF m
    <3> DEFINE s == A!Var[l]
    <3>5. s \in Seq(U) /\ Len(s) >= 1 /\ v \in Seq(U)
      BY <2>1, <3>4
    <3> HIDE DEF s, U
    <3>6. s \o v \in Seq(U) /\ Len(s \o v) >= 1
      BY <3>5
    <3> QED BY <2>2, <3>6 DEF s, l
  <2> HIDE DEF e, x
  <2>4. ASSUME NEW p \in Nat, p >= 1, Arrived, There(e, p) PROVE Decodes(k, x, e, p)
    <3>1. VectorOf(k, v)
      BY <1>8, <2>1, <2>4, StringElements
    <3> QED BY <2>1, <2>2, <2>4, <3>1, VectorIs
  <2> QED BY <2>3, <2>4
<1>9. ASSUME k = "wstring" PROVE Right
  <2>1. v = <<>> /\ x = v
    BY <1>3, <1>9 DEF A!Strays
  <2>2. e = A!Var[0]
    <3>1. e = A!SaveString(v, A!WideBytes)
      BY <1>9 DEF A!Encode
    <3> QED BY <2>1, <3>1, EmptyStringIs
  <2>3. e \in Seq(U) /\ Len(e) >= 1
    <3>1. 0 \in 0 .. A!Mod - 1
      BY ModIs, Sizes
    <3> QED BY <2>2, <3>1, HighBits
  <2> HIDE DEF e, x
  <2> QED BY <1>9, <2>1, <2>2, <2>3, EmptyWideDecodes
<1> QED BY <1>2, <1>4, <1>5, <1>6, <1>7, <1>8, <1>9 DEF A!Strings

\* Nothing is there any more.
LEMMA NothingDecodes ==
  ASSUME A!ArchiveAssumption, Arrived, NEW k \in Kinds, k # "float"
  PROVE  A!Decode(k, arrived + 1).eof = TRUE
<1> DEFINE p == arrived + 1
           r == A!ReadVar(p, A!Mod)
<1>1. arrived \in Nat /\ p \in 1 .. arrived + 1
  BY DEF Arrived
<1>2. r.eof = TRUE
  <2>1. \A j \in p .. arrived : A!Get(j) >= Base
    BY <1>1
  <2> HIDE DEF p
  <2> QED BY <1>1, <2>1, ReadNumberEarly, Zenon
<1>3. r = [value |-> r.value, next |-> r.next, eof |-> r.eof, shifted |-> r.shifted]
  BY IsRead
<1>4. k \in {"unsigned", "uenum"} \/ k \in {"signed", "enum"} \/ k = "fixed" \/ k \in A!Strings
  BY KindsAre
<1>5. ASSUME k \in {"unsigned", "uenum"} PROVE A!Decode(k, p).eof = TRUE
  <2>1. A!Decode(k, p) = r
    BY <1>5 DEF A!Decode, A!Strings
  <2> QED BY <1>2, <2>1
<1>6. ASSUME k \in {"signed", "enum"} PROVE A!Decode(k, p).eof = TRUE
  <2>1. A!Decode(k, p) = [r EXCEPT !.value = A!UnZigZag(@)]
    <3>1. k \notin {"unsigned", "uenum"}
      BY <1>6
    <3> HIDE DEF r, p
    <3>2. A!Decode(k, p) = [A!ReadVar(p, A!Mod) EXCEPT !.value = A!UnZigZag(@)]
      BY <1>6, <3>1 DEF A!Decode, A!Strings
    <3> QED BY <3>2 DEF r
  <2> HIDE DEF r
  <2>2. [r EXCEPT !.value = A!UnZigZag(@)].eof = r.eof
    BY ONLY <1>3
  <2> QED BY <1>2, <2>1, <2>2
<1>7. ASSUME k = "fixed" PROVE A!Decode(k, p).eof = TRUE
  <2>1. WordBytes \in Nat /\ p - 1 + WordBytes > arrived
    BY <1>1, Sizes
  <2>2. A!Decode(k, p) = A!ReadFixed(p, WordBytes)
    BY <1>7 DEF A!Decode, A!Strings
  <2> HIDE DEF p
  <2>3. A!ReadFixed(p, WordBytes).eof = TRUE
    BY <1>1, <2>1, ReadBytesEarly, Zenon
  <2> QED BY <2>2, <2>3
<1>8. ASSUME k \in A!Strings PROVE A!Decode(k, p).eof = TRUE
  <2> DEFINE x == A!ReadVector(k, p)
  <2>1. A!Decode(k, p) = x
    <3>1. k \notin {"unsigned", "uenum"} /\ k \notin {"signed", "enum"} /\ k # "fixed" /\ k # "float"
      BY <1>8 DEF A!Strings
    <3> QED BY <1>8, <3>1 DEF A!Decode
  <2> HIDE DEF p
  <2>2. /\ r.value \in Nat
        /\ r.value > MaxLength => x = [r EXCEPT !.value = <<>>]
        /\ r.value <= MaxLength => \E h : Loops(k, r, r.value, h) /\ x = h[r.value]
    BY <1>1, <1>8, VectorLoop
  <2> HIDE DEF r, x
  <2>3. CASE r.value > MaxLength
    <3>1. [r EXCEPT !.value = <<>>].eof = r.eof
      BY ONLY <1>3
    <3> QED BY <1>2, <2>1, <2>2, <2>3, <3>1
  <2>4. CASE ~(r.value > MaxLength)
    <3>1. r.value \in Nat /\ r.value <= MaxLength
      BY <2>2, <2>4, ModIs, LengthFits
    <3>2. PICK h : Loops(k, r, r.value, h) /\ x = h[r.value]
      BY <2>2, <3>1
    <3>3. h[r.value].eof = TRUE
      BY <1>2, <1>3, <3>1, <3>2, LoopEarly
    <3> QED BY <2>1, <3>2, <3>3
  <2> QED BY <2>3, <2>4
<1>9. A!Decode(k, p).eof = TRUE
  BY <1>4, <1>5, <1>6, <1>7, <1>8, Zenon
<1> QED BY <1>9 DEF p

Val == UNION {Values(k) : k \in Kinds}

\* The bytes of value i of w, of the types c, and where those of the first n end.
Code(c, w, i) == A!Encode(c[i], w[i])
Codes(c, w, n) == [i \in 1 .. n |-> Code(c, w, i)]
EndsAt(c, w, n) == Len(FlattenSeq(Codes(c, w, n)))

\* Values of their types, none of them read otherwise than written.
Typed(c, w) ==
  /\ c \in [1 .. MaxValues -> Kinds] /\ w \in Seq(Val) /\ Len(w) <= MaxValues
  /\ \A i \in 1 .. Len(w) : w[i] \in Values(c[i]) /\ ~A!Strays(c[i], w[i])

\* Their bytes are in s, one value behind the other.
Laid(c, w, s) ==
  /\ s \in Seq(0 .. A!Byte - 1) /\ Len(s) = EndsAt(c, w, Len(w))
  /\ \A n \in 0 .. Len(w) : EndsAt(c, w, n) \in Nat /\ EndsAt(c, w, n) <= Len(s)
  /\ \A n \in 1 .. Len(w) : \A i \in 1 .. Len(Code(c, w, n)) :
       s[EndsAt(c, w, n - 1) + i] = Code(c, w, n)[i]

\* What comes back of the first n values.
Back(c, w, n) == [i \in 1 .. n |-> A!Returned(c[i], w[i])]

\* The reader has the first values and stands behind them, or began one too early
\* and met the end.
InPlace ==
  /\ early => eof
  /\ ~early => LET n == Len(readBack)
               IN  /\ ~eof /\ ~shifted /\ n \in 0 .. Len(written)
                   /\ readBack = Back(schema, written, n)
                   /\ next = EndsAt(schema, written, n) + 1
                   /\ EndsAt(schema, written, n) <= arrived

ArchiveInv ==
  /\ schema \in [1 .. MaxValues -> Kinds]
  /\ early \in BOOLEAN /\ eof \in BOOLEAN /\ shifted \in BOOLEAN /\ stray \in BOOLEAN
  /\ ~stray => /\ Typed(schema, written) /\ Laid(schema, written, stream)
               /\ arrived \in 0 .. Len(stream) /\ InPlace

LEMMA CodeIs ==
  ASSUME A!ArchiveAssumption, NEW c, NEW w, Typed(c, w), NEW i \in 1 .. Len(w)
  PROVE  /\ c[i] \in Kinds /\ w[i] \in Values(c[i]) /\ ~A!Strays(c[i], w[i])
         /\ Code(c, w, i) \in Seq(0 .. A!Byte - 1) /\ Len(Code(c, w, i)) \in Nat
<1>1. /\ c \in [1 .. MaxValues -> Kinds] /\ w \in Seq(Val) /\ Len(w) <= MaxValues
      /\ w[i] \in Values(c[i]) /\ ~A!Strays(c[i], w[i])
  BY DEF Typed
<1>2. i \in 1 .. MaxValues
  <2>1. Len(w) \in Nat /\ MaxValues \in Nat
    BY <1>1, Sizes
  <2> QED BY <1>1, <2>1
<1>3. c[i] \in Kinds
  BY <1>1, <1>2
<1>4. A!Encode(c[i], w[i]) \in Seq(0 .. A!Byte - 1)
  BY <1>1, <1>3, EncodingIs
<1>5. Len(A!Encode(c[i], w[i])) \in Nat
  BY <1>4
<1> QED BY <1>1, <1>3, <1>4, <1>5 DEF Code

LEMMA EndNext ==
  ASSUME A!ArchiveAssumption, NEW c, NEW w, Typed(c, w), NEW n \in 1 .. Len(w)
  PROVE  EndsAt(c, w, n) = EndsAt(c, w, n - 1) + Len(Code(c, w, n))
<1> DEFINE U == 0 .. A!Byte - 1
           x == Code(c, w, n)
           q == Codes(c, w, n - 1)
           r == Codes(c, w, n)
<1>1. \A i \in 1 .. n : Code(c, w, i) \in Seq(U)
  <2>1. Len(w) \in Nat
    BY DEF Typed
  <2>2. \A i \in 1 .. n : i \in 1 .. Len(w)
    BY <2>1
  <2> QED BY <2>2, CodeIs
<1> HIDE DEF U
<1>2. n \in Nat /\ n - 1 \in Nat /\ n \in 1 .. n
  BY DEF Typed
<1>3. x \in Seq(U)
  BY <1>1, <1>2
<1>4. q \in Seq(Seq(U)) /\ Len(q) = n - 1 /\ \A i \in 1 .. n - 1 : q[i] = Code(c, w, i)
  <2>1. \A i \in 1 .. n - 1 : Code(c, w, i) \in Seq(U)
    BY <1>1, <1>2
  <2> QED BY <1>2, <2>1 DEF Codes
<1>5. r \in Seq(Seq(U)) /\ Len(r) = n /\ \A i \in 1 .. n : r[i] = Code(c, w, i)
  BY <1>1, <1>2 DEF Codes
<1> HIDE DEF q, r
<1>6. r = Append(q, x)
  <2> DEFINE a == Append(q, x)
  <2>1. a \in Seq(Seq(U)) /\ Len(a) = n /\ \A i \in 1 .. n : a[i] = Code(c, w, i)
    BY <1>2, <1>3, <1>4
  <2> HIDE DEF a, x
  <2>2. r = a
    BY <1>5, <2>1, SeqEqual
  <2> QED BY <2>2 DEF a
<1> HIDE DEF x
<1>7. FlattenSeq(r) = FlattenSeq(q) \o x
  BY <1>3, <1>4, <1>6, FlattenAppend
<1>8. FlattenSeq(q) \in Seq(U)
  BY <1>4, FlattenType
<1>9. Len(FlattenSeq(r)) = Len(FlattenSeq(q)) + Len(x)
  BY <1>3, <1>7, <1>8
<1> QED BY <1>9 DEF EndsAt, q, r, x

LEMMA EndNothing == \A c, w : EndsAt(c, w, 0) = 0
<1> TAKE c, w
<1>1. Codes(c, w, 0) = <<>>
  BY DEF Codes
<1> QED BY <1>1, FlattenEmpty DEF EndsAt

LEMMA SaveLays ==
  ASSUME A!ArchiveAssumption, NEW c, NEW w, Typed(c, w), NEW s, Laid(c, w, s), Len(w) < MaxValues,
         NEW v \in Values(c[Len(w) + 1]), ~A!Strays(c[Len(w) + 1], v)
  PROVE  /\ Typed(c, Append(w, v)) /\ Laid(c, Append(w, v), s \o A!Encode(c[Len(w) + 1], v))
         /\ \A m \in 0 .. Len(w) : EndsAt(c, Append(w, v), m) = EndsAt(c, w, m)
<1> DEFINE n == Len(w) + 1
           x == Append(w, v)
           e == A!Encode(c[n], v)
           t == s \o e
           U == 0 .. A!Byte - 1
<1>1. /\ c \in [1 .. MaxValues -> Kinds] /\ w \in Seq(Val) /\ Len(w) \in Nat /\ n \in 1 .. MaxValues
      /\ MaxValues \in Nat
  BY Sizes DEF Typed
<1>2. c[n] \in Kinds /\ v \in Val
  <2>1. c[n] \in Kinds
    BY <1>1
  <2> QED BY <2>1 DEF Val
<1>3. /\ x \in Seq(Val) /\ Len(x) = n /\ x[n] = v /\ n \in Nat /\ n - 1 = Len(w)
      /\ \A i \in 1 .. Len(w) : x[i] = w[i]
  BY <1>1, <1>2
<1>4. Typed(c, x)
  <2>1. ASSUME NEW i \in 1 .. n PROVE x[i] \in Values(c[i]) /\ ~A!Strays(c[i], x[i])
    <3>1. CASE i = n
      BY <1>3, <3>1
    <3>2. CASE i # n
      <4>1. i \in 1 .. Len(w)
        BY <1>1, <3>2
      <4> QED BY <1>3, <4>1 DEF Typed
    <3> QED BY <3>1, <3>2
  <2> QED BY <1>1, <1>3, <2>1 DEF Typed
<1>5. e \in Seq(U)
  BY <1>2, EncodingIs
<1> HIDE DEF x, U
<1>6. /\ Code(c, x, n) = e /\ \A i \in 1 .. Len(w) : Code(c, x, i) = Code(c, w, i)
  BY <1>3 DEF Code
<1>7. ASSUME NEW m \in 0 .. Len(w) PROVE EndsAt(c, x, m) = EndsAt(c, w, m)
  <2>1. \A i \in 1 .. m : Code(c, x, i) = Code(c, w, i)
    BY <1>1, <1>6
  <2>2. Codes(c, x, m) = Codes(c, w, m)
    BY <2>1 DEF Codes
  <2> QED BY <2>2 DEF EndsAt
<1> HIDE DEF e
<1>8. s \in Seq(U) /\ Len(s) = EndsAt(c, w, Len(w)) /\ Len(s) \in Nat
  BY DEF Laid, U
<1>9. /\ t \in Seq(U) /\ Len(t) = Len(s) + Len(e) /\ Len(e) \in Nat
      /\ \A i \in 1 .. Len(s) : t[i] = s[i]
      /\ \A i \in 1 .. Len(e) : t[Len(s) + i] = e[i]
  BY ONLY <1>5, <1>8
<1> HIDE DEF t
<1>10. EndsAt(c, x, Len(w)) = Len(s)
  BY <1>1, <1>7, <1>8
<1>11. EndsAt(c, x, n) = Len(t)
  <2>1. n \in 1 .. Len(x)
    BY <1>1, <1>3
  <2>2. EndsAt(c, x, n) = EndsAt(c, x, n - 1) + Len(Code(c, x, n))
    BY <1>4, <2>1, EndNext
  <2> QED BY <1>3, <1>6, <1>9, <1>10, <2>2
<1>12. ASSUME NEW m \in 0 .. n PROVE EndsAt(c, x, m) \in Nat /\ EndsAt(c, x, m) <= Len(t)
  <2>1. CASE m = n
    BY <1>8, <1>9, <1>11, <2>1
  <2>2. CASE m # n
    <3>1. m \in 0 .. Len(w)
      BY <1>1, <2>2
    <3>2. EndsAt(c, w, m) \in Nat /\ EndsAt(c, w, m) <= Len(s)
      BY <3>1 DEF Laid
    <3> QED BY <1>7, <1>8, <1>9, <3>1, <3>2
  <2> QED BY <2>1, <2>2
<1>13. ASSUME NEW m \in 1 .. n, NEW i \in 1 .. Len(Code(c, x, m))
       PROVE  t[EndsAt(c, x, m - 1) + i] = Code(c, x, m)[i]
  <2>1. CASE m = n
    <3>1. EndsAt(c, x, m - 1) = Len(s) /\ Code(c, x, m) = e
      BY <1>3, <1>6, <1>10, <2>1
    <3> QED BY <1>9, <3>1, Zenon
  <2>2. CASE m # n
    <3>1. m \in 1 .. Len(w) /\ m \in 0 .. Len(w) /\ m - 1 \in 0 .. Len(w)
      BY <1>1, <2>2
    <3>2. EndsAt(c, x, m - 1) = EndsAt(c, w, m - 1) /\ Code(c, x, m) = Code(c, w, m)
      BY <1>6, <1>7, <3>1
    <3> DEFINE a == EndsAt(c, w, m - 1)
               l == Len(Code(c, w, m))
    <3>3. a \in Nat /\ a + l <= Len(s) /\ l \in Nat
      <4>1. EndsAt(c, w, m) = a + l
        BY <3>1, EndNext
      <4> QED BY <3>1, <4>1, CodeIs DEF Laid
    <3>4. s[a + i] = Code(c, w, m)[i]
      BY <3>1, <3>2 DEF Laid
    <3>5. i \in 1 .. l
      BY <3>2
    <3> HIDE DEF a, l
    <3>6. a + i \in 1 .. Len(s)
      BY <1>8, <3>3, <3>5
    <3>7. t[a + i] = Code(c, w, m)[i]
      BY <1>9, <3>4, <3>6
    <3> QED BY <3>2, <3>7 DEF a
  <2> QED BY <2>1, <2>2
<1>14. Laid(c, x, t)
  BY <1>3, <1>9, <1>11, <1>12, <1>13, Zenon DEF Laid, U
<1> QED BY <1>4, <1>7, <1>14 DEF x, t, e

LEMMA InitArchiveInv == ASSUME A!ArchiveAssumption, A!Init PROVE ArchiveInv
<1>1. /\ schema \in [1 .. MaxValues -> Kinds] /\ written = <<>> /\ stream = <<>> /\ arrived = 0
      /\ next = 1 /\ readBack = <<>> /\ eof = FALSE /\ shifted = FALSE /\ early = FALSE /\ stray = FALSE
  BY DEF A!Init
<1>2. EndsAt(schema, written, 0) = 0
  BY EndNothing
<1>3. Typed(schema, written)
  <2>1. written \in Seq(Val) /\ Len(written) = 0 /\ MaxValues \in Nat
    BY <1>1, Sizes
  <2> QED BY <1>1, <2>1 DEF Typed
<1>4. Laid(schema, written, stream)
  <2>1. stream \in Seq(0 .. A!Byte - 1) /\ Len(stream) = 0 /\ Len(written) = 0
    BY <1>1
  <2> QED BY <1>2, <2>1 DEF Laid
<1>5. InPlace
  <2>1. Len(readBack) = 0 /\ Len(written) = 0 /\ readBack = Back(schema, written, 0)
    BY <1>1 DEF Back
  <2> QED BY <1>1, <1>2, <2>1 DEF InPlace
<1>6. arrived \in 0 .. Len(stream)
  BY <1>1
<1> QED BY <1>1, <1>3, <1>4, <1>5, <1>6, Zenon DEF ArchiveInv

LEMMA SaveKeeps == ASSUME A!ArchiveAssumption, ArchiveInv, A!Save PROVE ArchiveInv'
<1> DEFINE n == Len(written) + 1
           k == schema[n]
<1>1. PICK v \in Values(k) :
        /\ Len(written) < MaxValues
        /\ written' = Append(written, v) /\ stream' = stream \o A!Encode(k, v)
        /\ stray' = (stray \/ A!Strays(k, v))
        /\ UNCHANGED <<schema, arrived, next, readBack, eof, shifted, early>>
  BY Zenon DEF A!Save
<1>2. /\ schema' \in [1 .. MaxValues -> Kinds] /\ early' \in BOOLEAN /\ eof' \in BOOLEAN
      /\ shifted' \in BOOLEAN /\ stray' \in BOOLEAN
  BY <1>1 DEF ArchiveInv
<1>3. ASSUME ~stray'
      PROVE  /\ Typed(schema', written') /\ Laid(schema', written', stream')
             /\ arrived' \in 0 .. Len(stream') /\ InPlace'
  <2>1. ~stray /\ ~A!Strays(k, v)
    BY <1>1, <1>3, Zenon
  <2>2. /\ Typed(schema, written) /\ Laid(schema, written, stream)
        /\ arrived \in 0 .. Len(stream) /\ InPlace
    BY <2>1 DEF ArchiveInv
  <2> DEFINE x == Append(written, v)
             t == stream \o A!Encode(k, v)
  <2>3. /\ Typed(schema, x) /\ Laid(schema, x, t)
        /\ \A m \in 0 .. Len(written) : EndsAt(schema, x, m) = EndsAt(schema, written, m)
    BY <1>1, <2>1, <2>2, SaveLays
  <2>4. arrived' \in 0 .. Len(stream')
    <3> DEFINE U == 0 .. A!Byte - 1
    <3>1. stream \in Seq(U) /\ t \in Seq(U)
      BY <2>2, <2>3 DEF Laid
    <3>2. A!Encode(k, v) \in Seq(U)
      <4>1. n \in 1 .. MaxValues
        BY <1>1, <2>2, Sizes DEF Typed
      <4>2. k \in Kinds
        BY <2>2, <4>1 DEF Typed
      <4> QED BY <2>1, <4>2, EncodingIs
    <3> DEFINE e == A!Encode(k, v)
    <3>3. e \in Seq(U) /\ t = stream \o e
      BY <3>2
    <3> HIDE DEF U, e, t
    <3>4. Len(t) >= Len(stream) /\ Len(t) \in Nat /\ Len(stream) \in Nat
      BY <3>1, <3>3
    <3>5. stream' = t
      BY <1>1 DEF t
    <3> QED BY <1>1, <2>2, <3>4, <3>5
  <2>5. InPlace'
    <3> HIDE DEF x, t
    <3>1. written' = x /\ Len(written) \in Nat /\ written \in Seq(Val)
      BY <1>1, <2>2 DEF x, Typed
    <3>2. (early => eof)'
      BY <1>1, <2>2 DEF InPlace
    <3> DEFINE m == Len(readBack)
    <3>3. ASSUME ~early
          PROVE  /\ ~eof /\ ~shifted /\ m \in 0 .. Len(x) /\ readBack = Back(schema, x, m)
                 /\ next = EndsAt(schema, x, m) + 1 /\ EndsAt(schema, x, m) <= arrived
      <4>1. /\ ~eof /\ ~shifted /\ m \in 0 .. Len(written) /\ readBack = Back(schema, written, m)
            /\ next = EndsAt(schema, written, m) + 1 /\ EndsAt(schema, written, m) <= arrived
        BY <2>2, <3>3 DEF InPlace
      <4>2. x \in Seq(Val) /\ Len(x) = Len(written) + 1 /\ \A i \in 1 .. Len(written) : x[i] = written[i]
        <5>1. x \in Seq(Val)
          BY <2>3 DEF Typed
        <5>2. v \in Val
          <6>1. n \in 1 .. MaxValues
            BY <1>1, <3>1, Sizes
          <6>2. k \in Kinds
            BY <2>2, <6>1 DEF Typed
          <6> QED BY <6>2 DEF Val
        <5> QED BY <3>1, <5>1, <5>2 DEF x
      <4> HIDE DEF m
      <4>3. Back(schema, x, m) = Back(schema, written, m)
        <5>1. \A i \in 1 .. m : i \in 1 .. Len(written)
          BY <3>1, <4>1
        <5> QED BY <4>2, <5>1, Zenon DEF Back
      <4>4. m \in 0 .. Len(x)
        BY <3>1, <4>1, <4>2
      <4> QED BY <2>3, <4>1, <4>3, <4>4
    <3>4. /\ eof' = eof /\ shifted' = shifted /\ early' = early /\ next' = next /\ arrived' = arrived
          /\ readBack' = readBack /\ schema' = schema /\ written' = x
      BY <1>1, <3>1
    <3> QED BY <3>2, <3>3, <3>4 DEF InPlace
  <2>6. schema' = schema /\ written' = x /\ stream' = t
    BY <1>1
  <2> HIDE DEF x, t
  <2> QED BY <2>3, <2>4, <2>5, <2>6
<1> QED BY <1>2, <1>3 DEF ArchiveInv

LEMMA ArriveKeeps == ASSUME A!ArchiveAssumption, ArchiveInv, A!Arrive PROVE ArchiveInv'
<1>1. /\ arrived' \in arrived + 1 .. Len(stream)
      /\ UNCHANGED <<schema, written, stream, next, readBack, eof, shifted, early, stray>>
  BY DEF A!Arrive
<1>2. ASSUME ~stray PROVE arrived' \in 0 .. Len(stream) /\ InPlace'
  <2>1. Laid(schema, written, stream) /\ arrived \in 0 .. Len(stream) /\ InPlace
    BY <1>2 DEF ArchiveInv
  <2>2. arrived' \in 0 .. Len(stream) /\ arrived' >= arrived
    BY <1>1, <2>1 DEF Laid
  <2> DEFINE m == Len(readBack)
  <2>3. ASSUME ~early PROVE EndsAt(schema, written, m) <= arrived'
    <3>1. EndsAt(schema, written, m) \in Nat /\ EndsAt(schema, written, m) <= arrived
      BY <2>1, <2>3 DEF InPlace, Laid
    <3> QED BY <2>1, <2>2, <3>1
  <2> QED BY <1>1, <2>1, <2>2, <2>3 DEF InPlace
<1> QED BY <1>1, <1>2 DEF ArchiveInv

LEMMA LoadKeeps == ASSUME A!ArchiveAssumption, ArchiveInv, A!Load PROVE ArchiveInv'
<1> DEFINE n == Len(readBack) + 1
           k == schema[n]
           r == A!Decode(k, next)
<1>1. /\ n <= MaxValues /\ readBack' = Append(readBack, r.value) /\ next' = r.next
      /\ UNCHANGED <<schema, written, stream, arrived>>
      /\ stray' = (stray \/ k = "float")
  BY DEF A!Load
<1>2. /\ eof' = (eof \/ r.eof) /\ shifted' = (shifted \/ r.shifted)
      /\ early' = (early \/ n > Len(written) \/ (n <= Len(written) /\ arrived < A!End(n)))
  BY DEF A!Load
<1>3. A!End(n) = EndsAt(schema, written, n)
  BY DEF A!End, EndsAt, Codes, Code, A!FlattenSeq, FlattenSeq
<1> HIDE DEF r
<1>4. /\ schema' \in [1 .. MaxValues -> Kinds] /\ early' \in BOOLEAN /\ eof' \in BOOLEAN
      /\ shifted' \in BOOLEAN /\ stray' \in BOOLEAN
  BY <1>1, <1>2 DEF ArchiveInv
<1>5. ASSUME ~stray' PROVE InPlace'
  <2>1. ~stray /\ k # "float"
    BY <1>1, <1>5, Zenon
  <2>2. /\ Typed(schema, written) /\ Laid(schema, written, stream)
        /\ arrived \in 0 .. Len(stream) /\ InPlace /\ Arrived
    <3>1. /\ Typed(schema, written) /\ Laid(schema, written, stream)
          /\ arrived \in 0 .. Len(stream) /\ InPlace
      BY <2>1 DEF ArchiveInv
    <3> QED BY <3>1 DEF Laid, Arrived
  <2>3. CASE early
    BY <1>2, <2>2, <2>3, Zenon DEF InPlace
  <2>4. CASE ~early
    <3> DEFINE m == Len(readBack)
    <3>1. /\ eof = FALSE /\ shifted = FALSE /\ early = FALSE /\ m \in 0 .. Len(written)
          /\ readBack = Back(schema, written, m)
          /\ next = EndsAt(schema, written, m) + 1 /\ EndsAt(schema, written, m) <= arrived
      BY <2>2, <2>4 DEF InPlace, ArchiveInv
    <3>2. EndsAt(schema, written, m) \in Nat /\ arrived \in Nat /\ Len(written) \in Nat
          /\ Len(stream) \in Nat /\ arrived <= Len(stream) /\ Len(stream) = EndsAt(schema, written, Len(written))
          /\ written \in Seq(Val)
      BY <2>2, <3>1 DEF Laid, Typed
    <3>3. n = m + 1 /\ n \in 1 .. MaxValues
      BY <1>1, <3>1, Sizes
    <3>4. k \in Kinds
      BY <2>2, <3>3 DEF Typed
    <3> HIDE DEF n, m
    <3>5. CASE n > Len(written)
      <4>1. m = Len(written)
        BY <3>1, <3>2, <3>3, <3>5
      <4>2. next = arrived + 1
        BY <3>1, <3>2, <4>1
      <4>3. r.eof = TRUE
        BY <2>1, <2>2, <3>4, <4>2, NothingDecodes, Zenon DEF r
      <4> QED BY <1>2, <3>5, <4>3, Zenon DEF InPlace
    <3>6. CASE n <= Len(written)
      <4> DEFINE e == Code(schema, written, n)
                 v == written[n]
      <4>1. n \in 1 .. Len(written) /\ n - 1 = m
        <5>1. m \in Nat
          BY <3>1, <3>2
        <5> QED BY ONLY <5>1, <3>2, <3>3, <3>6
      <4>2. k \in Kinds /\ v \in Values(k) /\ ~A!Strays(k, v) /\ e = A!Encode(k, v) /\ Len(e) \in Nat
        BY <2>2, <4>1, CodeIs DEF Code, k
      <4>3. EndsAt(schema, written, n) = EndsAt(schema, written, m) + Len(e)
        BY <2>2, <4>1, EndNext
      <4>4. next \in Nat /\ next >= 1 /\ next <= arrived + 1 /\ next - 1 + Len(e) = EndsAt(schema, written, n)
            /\ next + Len(e) = EndsAt(schema, written, n) + 1
        <5> DEFINE a == EndsAt(schema, written, m)
                   b == EndsAt(schema, written, n)
                   l == Len(e)
        <5>1. a \in Nat /\ l \in Nat /\ arrived \in Nat /\ next = a + 1 /\ a <= arrived /\ b = a + l
          BY <3>1, <3>2, <4>2, <4>3
        <5> HIDE DEF a, b, l
        <5>2. next \in Nat /\ next >= 1 /\ next <= arrived + 1 /\ next - 1 + l = b /\ next + l = b + 1
          BY ONLY <5>1
        <5> QED BY <5>2 DEF b, l
      <4>5. There(e, next)
        <5>1. ASSUME NEW i \in 1 .. Len(e) PROVE stream[next - 1 + i] = e[i]
          <6>1. next - 1 + i = EndsAt(schema, written, n - 1) + i
            BY <3>1, <3>2, <4>1
          <6> QED BY <2>2, <4>1, <6>1 DEF Laid
        <5> QED BY <5>1 DEF There
      <4>6. Decodes(k, A!Returned(k, v), e, next)
        BY <2>2, <4>2, <4>4, <4>5, EncodingIs
      <4> HIDE DEF e
      <4>7. CASE EndsAt(schema, written, n) <= arrived
        <5>1. r = Read(A!Returned(k, v), next + Len(e))
          BY <4>4, <4>6, <4>7 DEF Decodes, r
        <5>2. r.value = A!Returned(k, v) /\ r.next = next + Len(e) /\ r.eof = FALSE /\ r.shifted = FALSE
          BY <5>1 DEF Read
        <5>3. eof' = FALSE /\ shifted' = FALSE
          BY <1>2, <3>1, <5>2, Zenon
        <5>4. early' = FALSE
          <6> DEFINE a == EndsAt(schema, written, m)
                     b == EndsAt(schema, written, n)
                     l == Len(e)
          <6>2. a \in Nat /\ l \in Nat /\ b = a + l /\ b <= arrived /\ arrived \in Nat
            BY <3>2, <4>2, <4>3, <4>7
          <6>3. n \in Nat /\ Len(written) \in Nat /\ n <= Len(written)
            BY <3>2, <3>6, <4>1
          <6> HIDE DEF a, b, l
          <6>4. ~(arrived < b) /\ ~(n > Len(written))
            BY ONLY <6>2, <6>3
          <6>1. ~(arrived < EndsAt(schema, written, n)) /\ ~(n > Len(written))
            BY <6>4 DEF b
          <6> QED BY <1>2, <1>3, <3>1, <6>1, Zenon
        <5>5. readBack' = Back(schema, written, n) /\ Len(readBack') = n
          <6> DEFINE z == A!Returned(k, v)
                     d == Back(schema, written, m)
                     W == {A!Returned(schema[i], written[i]) : i \in 1 .. n}
                     a == Append(d, z)
                     b == Back(schema, written, n)
          <6>1. z = A!Returned(schema[n], written[n]) /\ n \in Nat /\ m \in Nat /\ n = m + 1
            BY <3>2, <3>3, <4>1 DEF k
          <6>2. d \in Seq(W) /\ Len(d) = m /\ \A i \in 1 .. m : d[i] = A!Returned(schema[i], written[i])
            BY <6>1 DEF Back
          <6>3. b \in Seq(W) /\ Len(b) = n /\ \A i \in 1 .. n : b[i] = A!Returned(schema[i], written[i])
            BY <6>1 DEF Back
          <6>4. z \in W
            BY <6>1
          <6> HIDE DEF z, d, b, W
          <6>5. a \in Seq(W) /\ Len(a) = n /\ a[n] = z /\ \A i \in 1 .. m : a[i] = d[i]
            BY <6>1, <6>2, <6>4
          <6> HIDE DEF a
          <6>6. \A i \in 1 .. n : i = n \/ i \in 1 .. m
            BY <6>1
          <6>7. \A i \in 1 .. n : a[i] = A!Returned(schema[i], written[i])
            BY <6>1, <6>2, <6>5, <6>6, Zenon
          <6>8. a = b
            BY <6>3, <6>5, <6>7, SeqEqual, Zenon
          <6>9. readBack' = a
            BY <1>1, <3>1, <5>2 DEF a, d, z
          <6> QED BY <6>3, <6>8, <6>9 DEF b
        <5>6. next' = EndsAt(schema, written, n) + 1
          BY <1>1, <4>4, <5>2
        <5>7. n \in 0 .. Len(written)
          BY <3>2, <4>1
        <5>8. schema' = schema /\ written' = written /\ arrived' = arrived
          BY <1>1
        <5> QED BY <4>7, <5>3, <5>4, <5>5, <5>6, <5>7, <5>8 DEF InPlace
      <4>8. CASE arrived < EndsAt(schema, written, n)
        <5>1. r.eof = TRUE
          <6>1. next - 1 + Len(e) > arrived
            BY <3>2, <4>2, <4>3, <4>4, <4>8
          <6> QED BY <4>4, <4>6, <6>1 DEF Decodes, r
        <5>2. eof' = TRUE
          BY <1>2, <5>1, Zenon
        <5>3. early' = TRUE
          BY <1>2, <1>3, <3>6, <4>8, Zenon
        <5> QED BY <5>2, <5>3 DEF InPlace
      <4>9. EndsAt(schema, written, n) <= arrived \/ arrived < EndsAt(schema, written, n)
        BY <3>2, <4>2, <4>3
      <4> QED BY <4>7, <4>8, <4>9
    <3> QED BY <3>2, <3>3, <3>5, <3>6
  <2> QED BY <2>3, <2>4
<1>6. ASSUME ~stray'
      PROVE  Typed(schema', written') /\ Laid(schema', written', stream') /\ arrived' \in 0 .. Len(stream')
  <2>1. ~stray
    BY <1>1, <1>6, Zenon
  <2> QED BY <1>1, <2>1 DEF ArchiveInv
<1> QED BY <1>4, <1>5, <1>6 DEF ArchiveInv

LEMMA StepKeepsArchiveInv == ASSUME A!ArchiveAssumption, ArchiveInv, A!Next PROVE ArchiveInv'
BY SaveKeeps, ArriveKeeps, LoadKeeps DEF A!Next

LEMMA ArchiveInvIsRight == ASSUME ArchiveInv PROVE A!ReaderRight
<1> DEFINE m == Len(readBack)
<1>1. A!End(m) = EndsAt(schema, written, m)
  BY DEF A!End, EndsAt, Codes, Code, A!FlattenSeq, FlattenSeq
<1>2. ASSUME ~early, ~stray
      PROVE  /\ m <= Len(written) /\ next = EndsAt(schema, written, m) + 1
             /\ \A i \in 1 .. m : readBack[i] = A!Returned(schema[i], written[i])
  <2>1. m \in 0 .. Len(written) /\ readBack = Back(schema, written, m)
        /\ next = EndsAt(schema, written, m) + 1 /\ Len(written) \in Nat
    BY <1>2 DEF ArchiveInv, InPlace, Typed
  <2> HIDE DEF m
  <2>2. \A i \in 1 .. m : readBack[i] = A!Returned(schema[i], written[i])
    BY <2>1 DEF Back
  <2> QED BY <2>1, <2>2
<1>3. A!RoundTrip
  BY <1>1, <1>2 DEF A!RoundTrip
<1>4. ~stray => (eof <=> early)
  BY DEF ArchiveInv, InPlace
<1>5. ~stray /\ ~early => ~shifted
  BY DEF ArchiveInv, InPlace
<1>6. A!EofIsEarly /\ A!ShiftInRange
  BY <1>4, <1>5 DEF A!EofIsEarly, A!ShiftInRange
<1> QED BY <1>3, <1>6 DEF A!ReaderRight

------------------------------------------------------------------------------
(* Theorems.                                                               *)

\* container_device implements a file for a program whose writes do not cross the
\* end and whose seeks stay inside and are none from the current position: each
\* read(), write() and seek() does what the same call does to the file.  Whatever
\* the program does, its contents are a file's until a write has crossed the end,
\* and its position is inside until a seek has left it.
THEOREM DeviceImplementsFile == Spec => DeviceIsFile
<1> USE DataAssumption DEF DataAssumption
<1>1. Init => DeviceInv /\ D!F!Init
  BY InitDeviceInv, Zenon DEF Init, D!Init, D!F!Init, D!DeviceAssumption
<1>2. [Next]_<<part, package, archive, bytes, device, sequence>> => D!Next \/ UNCHANGED device
  BY DEF Next
<1>3. DeviceInv /\ UNCHANGED device => DeviceInv'
  BY DEF device, DeviceInv, D!TypeOK, D!TornOnlyCrossing, D!StaysInside, D!Size
<1>4. DeviceInv /\ [Next]_<<part, package, archive, bytes, device, sequence>> => DeviceInv'
  BY <1>2, <1>3, StepIsFile
<1>5. DeviceInv /\ [Next]_<<part, package, archive, bytes, device, sequence>>
        => [/\ D!Moves /\ ~crossed' /\ ~outside' /\ ~unset'
            => D!F!Next /\ D!AsFile]_<<container, pos, got>>
  <2>1. UNCHANGED device => UNCHANGED <<container, pos, got>>
    BY DEF device
  <2> QED BY <1>2, <2>1, StepIsFile
<1>6. DeviceInv => D!TornOnlyCrossing /\ D!StaysInside
  BY DEF DeviceInv
<1> QED BY <1>1, <1>4, <1>5, <1>6, PTL DEF Spec, DeviceIsFile, D!DeviceIsFile, D!FileSpec
\* Whatever bytes a number has, the hand-written exchanges of reorder() and the
\* copies reverse them, and each pair of conversions, on whatever hosts, gives the
\* number back.
THEOREM NumbersAreKept == Spec => []NumberKept
<1> USE DataAssumption DEF DataAssumption
<1>1. Init => OrderInv
  BY DEF Init, B!Init, OrderInv, B!NumberKept
<1>2. [Next]_<<part, package, archive, bytes, device, sequence>> => B!Next \/ UNCHANGED bytes
  BY DEF Next
<1>3. OrderInv /\ UNCHANGED bytes => OrderInv'
  BY DEF bytes, OrderInv, B!NumberKept
<1>4. OrderInv /\ [Next]_<<part, package, archive, bytes, device, sequence>> => OrderInv'
  BY <1>2, <1>3, StepKeepsOrderInv
<1>5. OrderInv => NumberKept
  BY DEF OrderInv, NumberKept
<1> QED BY <1>1, <1>4, <1>5, PTL DEF Spec

\* Whatever is written into packages and however the socket cuts the writes up, the
\* reader handles the packets in the order they were written, each once and whole,
\* finds the size word of a package where it is and leaves nothing behind, unless
\* writes overlapped, a write failed or a packet was not read to its end.
THEOREM PackagesAreReadInStep == Spec => []InStep
<1> USE DataAssumption DEF DataAssumption
<1>1. Init => PackageInv
  BY InitPackageInv DEF Init
<1>2. [Next]_<<part, package, archive, bytes, device, sequence>> => P!Next \/ UNCHANGED package
  BY DEF Next
<1>3. PackageInv /\ UNCHANGED package => PackageInv'
  <2> SUFFICES ASSUME PackageInv, UNCHANGED package PROVE PackageInv'
    OBVIOUS
  <2>1. /\ UNCHANGED <<sizes, body, lastSize, packageSize, sent, content, ops, overlap, failed>>
        /\ UNCHANGED <<wire, reading, readSize, inBuf, handled, misread>>
    BY DEF package
  <2>2. P!TypeOK' /\ WriterInv' /\ Quiet' = Quiet /\ Going' = Going
    <3>1. UNCHANGED P!writer
      BY <2>1 DEF P!writer
    <3> QED BY <2>1, <3>1, WriterStays, Zenon DEF PackageInv, P!TypeOK, P!Number, P!Field
  <2>3. P!Expected' = P!Expected /\ Missed' = Missed /\ \A q : FromSent(q)' = FromSent(q)
    BY <2>1 DEF P!Expected, Missed, FromSent, P!ToSet
  <2>4. \A q : Ahead(q)' = Ahead(q)
    BY <2>1, <2>2 DEF Ahead
  <2> QED BY <2>1, <2>2, <2>3, <2>4, Zenon DEF PackageInv, ReaderInv, LeftInv
<1>4. PackageInv /\ [Next]_<<part, package, archive, bytes, device, sequence>> => PackageInv'
  BY <1>2, <1>3, StepKeepsPackageInv
<1>5. PackageInv => InStep
  BY PackageInvInStep DEF InStep
<1> QED BY <1>1, <1>4, <1>5, PTL DEF Spec

\* For any types and values, any width of numbers and size of groups: decode.hpp
\* reads the values encode.hpp wrote, and stands where the next one begins, as long
\* as it begins none before all of it has arrived and none of them is a float, a
\* wide string with characters or a string with a high bit that is read as numbers.
\* Strings are read as vectors and enums of unsigned type come back doubled. A value
\* begun too early meets the end.
THEOREM ValuesAreReadBack == Spec => []ReaderRight
<1> USE DataAssumption DEF DataAssumption
<1>1. Init => ArchiveInv
  BY InitArchiveInv DEF Init
<1>2. [Next]_<<part, package, archive, bytes, device, sequence>> => A!Next \/ UNCHANGED archive
  BY DEF Next
<1>3. ArchiveInv /\ UNCHANGED archive => ArchiveInv'
  BY DEF archive, ArchiveInv, InPlace
<1>4. ArchiveInv /\ [Next]_<<part, package, archive, bytes, device, sequence>> => ArchiveInv'
  BY <1>2, <1>3, StepKeepsArchiveInv
<1>5. ArchiveInv => ReaderRight
  BY ArchiveInvIsRight DEF ReaderRight
<1> QED BY <1>1, <1>4, <1>5, PTL DEF Spec
==============================================================================
