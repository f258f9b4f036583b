------------------------------ MODULE ByteOrder ------------------------------
(***************************************************************************)
(* The byte order conversions of common/rrpc/conversion.hpp, as hosts of   *)
(* either order use them: a number is converted in place or into another   *)
(* variable, sent, and converted back.                                     *)
(***************************************************************************)
EXTENDS Naturals, Sequences, SequencesExt

CONSTANTS
  Host,
  Numbers,  \* numbers, as their bytes from the highest on; 2, 4 or 8 of them
  None

ByteOrderAssumption == \A x \in Numbers : x \in Seq(0 .. 255) /\ Len(x) \in {2, 4, 8}

VARIABLES
  native,  \* the order of each host
  memory,  \* the bytes of its variable, by address; None before it is set
  order,   \* the order they are in
  number   \* history: the number they stand for

vars == <<native, memory, order, number>>

Orders == {"big", "little"}

Init ==
  /\ native \in [Host -> Orders]
  /\ memory = [h \in Host |-> None]
  /\ order = [h \in Host |-> None]
  /\ number = [h \in Host |-> None]

\* Bytes i and j exchanged.
Exchange(y, i, j) == [y EXCEPT ![i] = y[j], ![j] = y[i]]

\* Fault: the exchange in the middle is missing.
ReorderEnds(x) ==
  LET y[i \in 0 .. Len(x)] == IF i = 0 THEN x ELSE Exchange(y[i - 1], i, Len(x) + 1 - i)
  IN  y[IF Len(x) = 2 THEN 1 ELSE Len(x) \div 2 - 1]

\* reorder(x): the first byte and the last are exchanged, then the next ones.
Reorder(x) ==
  LET y[i \in 0 .. Len(x) \div 2] == IF i = 0 THEN x ELSE Exchange(y[i - 1], i, Len(x) + 1 - i)
  IN  y[Len(x) \div 2]

\* reorder(source, target): from the end of target down, from the start of
\* source up.
ReorderCopy(source) == [k \in DOMAIN source |-> source[Len(source) + 1 - k]]

\* What native_to_o and o_to_native make of x on a host of order n.
Convert(n, o, x) == IF n = o THEN x ELSE Reorder(x)
ConvertCopy(n, o, x) == IF n = o THEN x ELSE ReorderCopy(x)

Set(h, x) ==
  /\ memory' = [memory EXCEPT ![h] = IF native[h] = "big" THEN x ELSE Reverse(x)]
  /\ order' = [order EXCEPT ![h] = native[h]]
  /\ number' = [number EXCEPT ![h] = x]
  /\ UNCHANGED native

\* From o to the native order or back, in place or, where the header compiles
\* with them, by the functions that copy.
Reordered(h, o) ==
  /\ memory[h] # None
  /\ \/ order[h] = native[h] /\ order' = [order EXCEPT ![h] = o]
     \/ order[h] = o /\ order' = [order EXCEPT ![h] = native[h]]
  /\ \/ memory' = [memory EXCEPT ![h] = Convert(native[h], o, @)]
     \/ native[h] = "little" /\ memory' = [memory EXCEPT ![h] = ConvertCopy(native[h], o, @)]
  /\ UNCHANGED <<native, number>>

Send(h, g) ==
  /\ memory[h] # None
  /\ memory' = [memory EXCEPT ![g] = memory[h]]
  /\ order' = [order EXCEPT ![g] = order[h]]
  /\ number' = [number EXCEPT ![g] = number[h]]
  /\ UNCHANGED native

Next ==
  \/ \E h \in Host : (\E x \in Numbers : Set(h, x)) \/ (\E o \in Orders : Reordered(h, o))
  \/ \E h, g \in Host : Send(h, g)

Spec == Init /\ [][Next]_vars

------------------------------------------------------------------------------
(* Properties.                                                             *)

\* Whatever hosts a number came over and however it was converted, it is still
\* that number to who knows the order it is in: each of the hand-written
\* exchanges of reorder() reverses all the bytes, and so does each copy.
NumberKept ==
  \A h \in Host : memory[h] # None =>
    memory[h] = IF order[h] = "big" THEN number[h] ELSE Reverse(number[h])

==============================================================================
