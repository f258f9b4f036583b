------------------------------ MODULE Allocator ------------------------------
(* What an object pool promises its clients: an object is handed out to one *)
(* owner at a time, and memory that was given back to the system is given   *)
(* back once.                                                               *)
CONSTANT Object

VARIABLES
  owned,      \* objects in the hands of a client
  allocated   \* objects that exist: constructed and not deleted

vars == <<owned, allocated>>

Init == owned = {} /\ allocated = {}

\* A client gets an object that nobody owns, an old or a new one.
Acquire(o) ==
  /\ o \notin owned
  /\ owned' = owned \cup {o}
  /\ allocated' = allocated \cup {o}

\* A client gives its object back, which may delete it at once.
GiveBack(o) ==
  /\ o \in owned
  /\ owned' = owned \ {o}
  /\ allocated' \in {allocated, allocated \ {o}}

\* Objects nobody owns are deleted.
Delete(D) ==
  /\ D \subseteq allocated \ owned
  /\ allocated' = allocated \ D
  /\ UNCHANGED owned

Next ==
  \/ \E o \in Object : Acquire(o) \/ GiveBack(o)
  \/ \E D \in SUBSET Object : Delete(D)

Spec == Init /\ [][Next]_vars
==============================================================================
