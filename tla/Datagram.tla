------------------------------ MODULE Datagram ------------------------------
(***************************************************************************)
(* Sending a datagram until it is known to have been sent: struct datagram *)
(* of common/rrpc/session.hpp.                                             *)
(*                                                                         *)
(* send() starts an operation of the session's transport and a wait of the *)
(* timer.  Both completion handlers go through the strand: that of the     *)
(* operation cancels the timer, that of the timer sends again, unless it   *)
(* was cancelled.  The handlers hold the datagram; it is gone when there   *)
(* are none.                                                               *)
(*                                                                         *)
(* The transport (async_send is a stub) completes each operation once, at  *)
(* any time and with any result.  The expiry time of the timer is nowhere  *)
(* set: a wait may be over at any time.                                    *)
(***************************************************************************)
EXTENDS Naturals, FiniteSets, Sequences

CONSTANT MaxExpired   \* bound on how often the timer expires

DatagramAssumption == MaxExpired \in Nat

VARIABLES
  started,   \* the session has called send()
  sending,   \* operations of the transport going on
  waiting,   \* waits of the timer going on
  strand,    \* handlers in the strand: of a send, of a wait that was over
             \* ("expired") or was cancelled ("aborted")
  expired    \* history: how often the timer has expired

vars == <<started, sending, waiting, strand, expired>>

Init ==
  /\ started = FALSE
  /\ sending = 0
  /\ waiting = 0
  /\ strand = <<>>
  /\ expired = 0

\* send(), called by a handler that leaves s in the strand.
Send(s) ==
  /\ sending' = sending + 1
  /\ waiting' = waiting + 1
  /\ strand' = s

FirstSend ==
  /\ ~started
  /\ started' = TRUE
  /\ Send(strand)
  /\ UNCHANGED expired

\* Fault: the transport calls a handler again.
SentUnasked ==
  /\ sending' = sending - 1
  /\ strand' = Append(strand, "sent")
  /\ UNCHANGED <<started, waiting, expired>>

\* An operation of the transport completes.
Sent ==
  /\ sending > 0
  /\ sending' = sending - 1
  /\ strand' = Append(strand, "sent")
  /\ UNCHANGED <<started, waiting, expired>>

\* The timer expires: all waits are over.
Expire ==
  /\ waiting > 0
  /\ expired < MaxExpired
  /\ expired' = expired + 1
  /\ strand' = strand \o [i \in 1 .. waiting |-> "expired"]
  /\ waiting' = 0
  /\ UNCHANGED <<started, sending>>

\* timer.cancel() by a handler that leaves s in the strand.
Cancel(s) ==
  /\ strand' = s \o [i \in 1 .. waiting |-> "aborted"]
  /\ waiting' = 0
  /\ UNCHANGED sending

\* Fault: what was sent does not cancel the timer.
HandleSendNoCancel ==
  /\ strand # <<>> /\ Head(strand) = "sent"
  /\ strand' = Tail(strand)
  /\ UNCHANGED <<started, sending, waiting, expired>>

\* Fault: a datagram larger than the mtu is sent again at once.
HandleSendAgain ==
  /\ strand # <<>> /\ Head(strand) = "sent"
  /\ Cancel(Tail(strand)) \/ Send(Tail(strand))
  /\ UNCHANGED <<started, expired>>

\* handle_send, whatever the error code.
HandleSend ==
  /\ strand # <<>> /\ Head(strand) = "sent"
  /\ Cancel(Tail(strand))
  /\ UNCHANGED <<started, expired>>

\* Fault: the error code is not looked at.
HandleTimeOutAlways ==
  /\ strand # <<>> /\ Head(strand) \in {"aborted", "expired"}
  /\ Send(Tail(strand))
  /\ UNCHANGED <<started, expired>>

HandleTimeOut ==
  /\ strand # <<>>
  /\ \/ /\ Head(strand) = "aborted"
        /\ strand' = Tail(strand)
        /\ UNCHANGED <<sending, waiting>>
     \/ /\ Head(strand) = "expired"
        /\ Send(Tail(strand))
  /\ UNCHANGED <<started, expired>>

Handle == HandleSend \/ HandleTimeOut

Next == FirstSend \/ Sent \/ Expire \/ Handle

Spec == Init /\ [][Next]_vars

\* The transport completes what it was given, and the strand runs its handlers.
FairSpec == Spec /\ WF_vars(Sent) /\ WF_vars(Handle)

------------------------------------------------------------------------------
(* Properties.                                                             *)

\* How many handlers of that kind are in the strand.
Number(h) == Cardinality({i \in DOMAIN strand : strand[i] = h})

TypeOK ==
  /\ started \in BOOLEAN
  /\ sending \in Nat
  /\ waiting \in Nat
  /\ strand \in Seq({"sent", "expired", "aborted"})
  /\ expired \in 0 .. MaxExpired

\* However often the datagram is sent again, it has one timer handler at a
\* time: a late answer never leaves two retry cycles behind.
OneTimer == waiting + Number("expired") + Number("aborted") <= 1

\* The timer runs only while the handler of some send is still to come: when
\* all sends are answered nothing keeps the datagram.
QuietTimer == waiting > 0 => sending + Number("sent") > 0

\* One retry cycle as long as a send is to be answered, and none after that.
RetryCycle == OneTimer /\ QuietTimer

\* What is still going on for a datagram: with nothing going on it is released.
Pending == sending + waiting + Len(strand)

\* A datagram is not sent again for ever: once the timer expires no more, it is
\* released although a cancelled wait runs its handler, too.
ReleasedInTheEnd == started ~> started /\ Pending = 0
==============================================================================
