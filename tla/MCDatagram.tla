----------------------------- MODULE MCDatagram -----------------------------
(* An instance of Datagram for TLC, with names of its own for what the     *)
(* sessions' proofs say of it beside RpcSession.                           *)
CONSTANT MaxExpired
VARIABLES started, sending, waiting, strand, expired

DG == INSTANCE Datagram

ASSUME MaxExpiredAssumption == DG!DatagramAssumption

DatagramSpec == DG!Spec
FairDatagramSpec == DG!FairSpec

\* The strand holds handlers of sends and of waits only, and the counts are
\* numbers.
DatagramTypeOK == DG!TypeOK

\* handle_send and handle_time_out of session.hpp keep one retry cycle going as
\* long as a send is to be answered, and none after that.
RetryCycle == DG!RetryCycle

\* A datagram of session.hpp is released once its timer expires no more.
ReleasedInTheEnd == DG!ReleasedInTheEnd
==============================================================================
