---------------------------- MODULE MCRpcSession ----------------------------
(* Instances of RpcSession for TLC.                                        *)
EXTENDS RpcSession

CONSTANTS a, b, c, v

MCStray == {[call |-> a, oid |-> 0]}
==============================================================================
