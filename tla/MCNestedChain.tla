---------------------------- MODULE MCNestedChain ----------------------------
(* Instances of NestedChain for TLC.                                       *)
EXTENDS NestedChain
==============================================================================
