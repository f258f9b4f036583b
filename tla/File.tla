-------------------------------- MODULE File --------------------------------
(***************************************************************************)
(* What a seekable device promises: a file of elements with one position   *)
(* for reading and writing.  ContainerDevice implements it as long as no   *)
(* write crosses the end and no seek leaves the file or is one from the    *)
(* current position.                                                       *)
(***************************************************************************)
EXTENDS Integers, Sequences, FiniteSetsExt

CONSTANTS
  Elem,     \* elements
  MaxWrite  \* bound on one write

VARIABLES file, at, got

Init == file \in Seq(Elem) /\ at = 0 /\ got = <<>>

\* File f after s was written at position p.
Overwrite(f, p, s) ==
  [i \in 1 .. Max({Len(f), p + Len(s)}) |-> IF i \in p + 1 .. p + Len(s) THEN s[i - p] ELSE f[i]]

Write(s) ==
  /\ file' = Overwrite(file, at, s)
  /\ at' = at + Len(s)
  /\ UNCHANGED got

Read(n) ==
  /\ got' = SubSeq(file, at + 1, Min({at + n, Len(file)}))
  /\ at' = at + Len(got')
  /\ UNCHANGED file

\* To off elements from the beginning, from where it is, or from the end, if that
\* is in the file.
Seek(off, way) ==
  /\ at' = off + CASE way = "beg" -> 0 [] way = "cur" -> at [] way = "end" -> Len(file)
  /\ at' \in 0 .. Len(file)
  /\ UNCHANGED <<file, got>>

Next ==
  \/ \E n \in 1 .. MaxWrite : Read(n) \/ \E s \in [1 .. n -> Elem] : Write(s)
  \/ \E off \in -Len(file) .. Len(file), way \in {"beg", "cur", "end"} : Seek(off, way)

Spec == Init /\ [][Next]_<<file, at, got>>
==============================================================================
