------------------------------- MODULE MCChain -------------------------------
(* Instances of Chain for TLC.                                             *)
EXTENDS Chain, TLC

CONSTANTS r0, l1, l2, h1, h2, h3, t1, t2

\* Links other than the root, handlers and threads are interchangeable.
Symmetry == Permutations(Link \ {Root}) \cup Permutations(Handler) \cup Permutations(Thread)
==============================================================================
