-------------------------------- MODULE Visit --------------------------------
(***************************************************************************)
(* The breadth-first search over a map (src/logic/visitor.h): a visitor    *)
(* examines a vertex, which puts vertices at the end of the list, and      *)
(* processes it.  The visitor is not written; the one here puts the        *)
(* neighbours that are not in the list, in any order.                      *)
(***************************************************************************)
EXTENDS Integers, SequencesExt, FiniteSetsExt

CONSTANT Vertices

VisitAssumption == IsFiniteSet(Vertices)

VARIABLES
  edges,      \* the map: pairs of a vertex and an adjacent one
  stack,      \* the vertices found, the first of them where the search began
  i,          \* the loop's index
  processed,  \* the vertices processed, in order
  past        \* the loop has read behind the end of the list

vars == <<edges, stack, i, processed, past>>

Init ==
  /\ edges \in SUBSET {e \in Vertices \X Vertices : e[1] # e[2]}
  /\ \E begin \in Vertices : stack = <<begin>>
  /\ i = 0
  /\ processed = <<>>
  /\ past = FALSE

Found(p) == {v \in Vertices : <<p, v>> \in edges} \ Range(stack)

\* Fault: what is found is put in front of what is already waiting.
ExamineInFront ==
  /\ ~past /\ i < Len(stack)
  /\ \E q \in SetToSeqs(Found(stack[i + 1])) :
       stack' = SubSeq(stack, 1, i + 1) \o q \o SubSeq(stack, i + 2, Len(stack))
  /\ processed' = Append(processed, stack[i + 1])
  /\ i' = i + 1
  /\ UNCHANGED <<edges, past>>

\* One turn of the loop: examine, then process.
Examine ==
  /\ ~past /\ i < Len(stack)
  /\ \E q \in SetToSeqs(Found(stack[i + 1])) : stack' = stack \o q
  /\ processed' = Append(processed, stack[i + 1])
  /\ i' = i + 1
  /\ UNCHANGED <<edges, past>>

\* Fault: the loop ends one vertex early.
PastEarly ==
  /\ ~past /\ i >= Len(stack) - 1
  /\ past' = TRUE
  /\ UNCHANGED <<edges, stack, i, processed>>

\* The loop runs while i <= stack.size(): the last turn reads behind the end,
\* which may do anything.
Past ==
  /\ ~past /\ i = Len(stack)
  /\ past' = TRUE
  /\ UNCHANGED <<edges, stack, i, processed>>

Next == Examine \/ Past

Spec == Init /\ [][Next]_vars

------------------------------------------------------------------------------
(* Properties.                                                             *)

\* Those that an edge of e leads to from a vertex of s.
Beyond(e, s) == {v \in Vertices : \E u \in s : <<u, v>> \in e}

\* Those that at most n edges of e lead to from b.
Reach(e, b) ==
  LET within[n \in Nat] == IF n = 0 THEN {b} ELSE LET s == within[n - 1] IN s \cup Beyond(e, s)
  IN  within

\* Before the loop reads behind the end it has processed every vertex that can be
\* reached, once.
VisitsReachable ==
  /\ IsInjective(processed)
  /\ past => Range(processed) = Reach(edges, stack[1])[Cardinality(Vertices)]

\* No vertex is processed before one that fewer steps lead to.
NearestFirst ==
  \A n \in 0 .. Cardinality(Vertices) :
    LET near == Reach(edges, stack[1])[n]
    IN  \A k \in DOMAIN processed : \A j \in 1 .. k - 1 : processed[k] \in near => processed[j] \in near

\* All that can be reached is processed, once and the nearest first.
VisitsInOrder == VisitsReachable /\ NearestFirst
==============================================================================
