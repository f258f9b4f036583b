---------------------------- MODULE MCObjectPool ----------------------------
(* An instance of ObjectPool for TLC.                                      *)
EXTENDS ObjectPool, TLC

CONSTANTS c1, c2, c3, o1, o2, o3

Symmetry == Permutations(Client \ {First}) \cup Permutations(Object)
==============================================================================
