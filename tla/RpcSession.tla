----------------------------- MODULE RpcSession -----------------------------
(***************************************************************************)
(* Remote calls of common/rrpc/old: a session that requests (session.hpp), *)
(* the connection that takes packages apart (connection.hpp) and the stubs *)
(* that answer (idl.hpp).                                                  *)
(*                                                                         *)
(* request() writes a packet with an operation id, sends the package       *)
(* (unless a batch is open) and then enters a promise into _waitMap under  *)
(* that id; the response with the id sets the promise.  Nothing holds the  *)
(* session between the two, and nothing keeps two writes to the socket     *)
(* apart.  The peer handles a whole package, answering its packets into    *)
(* one package of responses.                                               *)
(***************************************************************************)
EXTENDS Naturals, FiniteSets, Sequences, SequencesExt

CONSTANTS
  Call,        \* calls of request(); each is made once
  Void,        \* those of methods that return nothing
  Bare,        \* those without arguments: nothing is left of them when nobody reads them
  Unimplemented, \* those of method ids the peer's interface has no stub for
  OidCount,    \* values of operation_id_type
  MaxWaiting,  \* bound on the calls the program has outstanding at once
  Stray,       \* packets that bytes read from a wrong place may be taken for
  MaxGarbage,  \* bound on the packets read from a wrong place
  None

ASSUME RpcSessionAssumption ==
  /\ Void \subseteq Call
  /\ Bare \subseteq Call
  /\ Unimplemented \subseteq Call
  /\ OidCount \in Nat \ {0}
  /\ MaxWaiting \in Nat
  /\ MaxGarbage \in Nat
  /\ Stray \subseteq [call : Call, oid : 0 .. OidCount - 1]
  /\ None \notin Call

Oid == 0 .. OidCount - 1

\* The two directions of the socket.
Stream == {"requests", "responses"}

VARIABLES
  waitMap,    \* _waitMap: the call whose promise waits for an operation id
  package,    \* packets of _package; none when it is null
  batch,      \* _enableBatch
  between,    \* packets after their send() and before their wait()
  requests,   \* packages on their way to the peer
  responses,  \* packages on their way back
  lost,       \* the connection is lost
  misread,    \* streams whose reader has lost its place
  garbage,    \* packets taken from a wrong place
  bound,      \* the peer has bound an implementation, in its _invokeMap
  promise,    \* the promise of a call
  answer,     \* the call whose result the promise was set to
  issued,     \* history: calls in the order of request()
  handled,    \* history: calls in the order the peer took their packets
  skipped,    \* history: those of them that it did not invoke
  mixed,      \* history: streams whose reader lost its place in two writes at once
  doubled,    \* history: a call that waits was sent before the wait() of another one
  overtaken   \* history: a response came before the wait() of its call

calls == <<waitMap, package, batch, between, promise, answer, issued, doubled>>
peer == <<bound, handled, skipped>>
socket == <<lost, mixed>>
vars == <<calls, peer, socket, requests, responses, misread, garbage, overtaken>>

Init ==
  /\ waitMap = [o \in Oid |-> None]
  /\ package = <<>>
  /\ batch = FALSE
  /\ between = {}
  /\ requests = <<>>
  /\ responses = <<>>
  /\ lost = FALSE
  /\ misread = {}
  /\ garbage = 0
  /\ bound = FALSE
  /\ promise = [c \in Call |-> "none"]
  /\ answer = [c \in Call |-> None]
  /\ issued = <<>>
  /\ handled = <<>>
  /\ skipped = {}
  /\ mixed = {}
  /\ doubled = FALSE
  /\ overtaken = FALSE

Waiting == {c \in Call : promise[c] = "pending"}
Outstanding == Waiting \cup {x.call : x \in between}

------------------------------------------------------------------------------
(* The socket.                                                             *)

\* connection::send, behind packages q of stream s that are not read to their end,
\* when the readers of lost1 have lost their place: async_write begins at once.  It
\* writes in pieces, and one for a package of q may still be going on: then the
\* pieces may be mixed, and the reader loses its place.
Write(s, q, lost1) ==
  \E m \in {{}} \cup (IF q = <<>> THEN {} ELSE {{s}}) :
    /\ mixed' = mixed \cup m
    /\ misread' = lost1 \cup m

\* Every further read fails; what was sent is gone.
Lose ==
  /\ ~lost
  /\ lost' = TRUE
  /\ UNCHANGED <<calls, peer, mixed, requests, responses, misread, garbage, overtaken>>

------------------------------------------------------------------------------
(* The session that requests.                                              *)

\* Fault: the id is the number of calls that wait.
CountWaiting == Cardinality({o \in Oid : waitMap[o] # None}) % OidCount

\* Fault: the id is wider than the operation_id_type of the map.
FreeOidUnwrapped ==
  LET free == {o \in Oid : waitMap[o] = None}
  IN  IF free = {} THEN OidCount ELSE CHOOSE o \in free : \A p \in free : o <= p

\* get_free_operation_id: the lowest id that nobody waits for.  When all are
\* waited for, the increment of the last one wraps to 0.
FreeOid ==
  LET free == {o \in Oid : waitMap[o] = None}
  IN  IF free = {} THEN 0 ELSE CHOOSE o \in free : \A p \in free : o <= p

\* Fault: the package is not reset after it was sent.
EndSendKeeps(p) ==
  /\ requests' = Append(requests, p)
  /\ package' = p
  /\ Write("requests", requests, misread)

\* _endSend of package p.
EndSend(p) ==
  /\ requests' = Append(requests, p)
  /\ package' = <<>>
  /\ Write("requests", requests, misread)

\* send(): begin_packet, write and end_packet.  Only what returns something is
\* waited for, by request() or by the program itself; that it may be sent while
\* others are sent and not yet waited for is up to the program and its threads.
Send(c) ==
  LET x == [call |-> c, oid |-> FreeOid]
      p == Append(package, x)
  IN  /\ c \notin ToSet(issued)
      /\ c \in Void \/ Cardinality(Outstanding) < MaxWaiting
      /\ issued' = Append(issued, c)
      /\ \/ batch /\ package' = p /\ UNCHANGED <<requests, mixed, misread>>
         \/ ~batch /\ EndSend(p)
      /\ between' = IF c \in Void THEN between ELSE between \cup {x}
      /\ doubled' = (doubled \/ (c \notin Void /\ between # {}))
      /\ UNCHANGED <<waitMap, batch, promise, answer, responses, lost, garbage, overtaken, peer>>

\* wait(): emplace does nothing when the id is in the map, and the promise,
\* which nobody holds then, is broken.
Wait(x) ==
  /\ \/ /\ waitMap[x.oid] = None
        /\ waitMap' = [waitMap EXCEPT ![x.oid] = x.call]
        /\ promise' = [promise EXCEPT ![x.call] = "pending"]
     \/ /\ waitMap[x.oid] # None
        /\ promise' = [promise EXCEPT ![x.call] = "broken"]
        /\ UNCHANGED waitMap
  /\ between' = between \ {x}
  /\ UNCHANGED <<package, batch, answer, issued, doubled, peer, socket, requests, responses,
                 misread, garbage, overtaken>>

BeginBatch ==
  /\ ~batch
  /\ batch' = TRUE
  /\ UNCHANGED <<waitMap, package, between, promise, answer, issued, doubled, peer, socket,
                 requests, responses, misread, garbage, overtaken>>

\* end_batch, which dereferences a null _package when nothing was requested:
\* the program must not call it then.
EndBatch ==
  /\ batch
  /\ package # <<>>
  /\ batch' = FALSE
  /\ EndSend(package)
  /\ UNCHANGED <<waitMap, between, promise, answer, issued, doubled, peer, lost, responses,
                 garbage, overtaken>>

------------------------------------------------------------------------------
(* _handleReadPackage.  What nobody reads of a packet stays in the stream  *)
(* buffer (ignore() does nothing), and the next header is read out of it.  *)

\* How many packets of a package are taken before the first that leaves something.
ReadPrefix(isRead) ==
  CHOOSE n \in 0 .. Len(isRead) :
    /\ \A i \in 1 .. n : isRead[i]
    /\ n < Len(isRead) => ~isRead[n + 1]

\* The peer makes its session and binds an implementation of the interface.
Bind ==
  /\ ~bound
  /\ bound' = TRUE
  /\ UNCHANGED <<calls, handled, skipped, socket, requests, responses, misread, garbage, overtaken>>

\* The switch of the invoker ends in the stub of the method, or in the one that
\* asks for an implementation and reads nothing.
HasMethod(c) == c \notin Unimplemented

\* _invoke: an interface that is not in the map is passed over.
Invokes(c) == bound /\ HasMethod(c)

\* Fault: the answer carries the operation id of the packet after it.
AnswerShifted(p, i) ==
  IF p[i].call \in Void \/ ~Invokes(p[i].call) THEN None
  ELSE [call |-> p[i].call, oid |-> p[IF i < Len(p) THEN i + 1 ELSE i].oid]

\* What packet i of package p adds to the package of responses: its header with
\* the direction changed and the result, or nothing.
AnswerTo(p, i) == IF p[i].call \in Void \/ ~Invokes(p[i].call) THEN None ELSE p[i]

\* At the peer: _invoke, for every packet of a package up to the first whose
\* arguments are left.  What follows that one is read by ReadGarbage.  A package
\* of responses has None in the places of the calls that wrote nothing into it.
HandleRequests ==
  LET p == Head(requests)
      n == ReadPrefix([i \in DOMAIN p |-> Invokes(p[i].call) \/ p[i].call \in Bare])
      taken == IF n < Len(p) THEN n + 1 ELSE n
      replies == [i \in 1 .. n |-> AnswerTo(p, i)]
      lost1 == misread \cup (IF n < Len(p) THEN {"requests"} ELSE {})
  IN  /\ requests # <<>>
      /\ ~lost /\ "requests" \notin misread
      /\ requests' = Tail(requests)
      /\ handled' = handled \o [i \in 1 .. taken |-> p[i].call]
      /\ skipped' = skipped \cup {c \in {p[i].call : i \in 1 .. taken} : ~Invokes(c)}
      /\ \/ /\ \E i \in 1 .. n : replies[i] # None
            /\ responses' = Append(responses, replies)
            /\ Write("responses", responses, lost1)
         \/ /\ \A i \in 1 .. n : replies[i] = None
            /\ misread' = lost1
            /\ UNCHANGED <<responses, mixed>>
      /\ UNCHANGED <<calls, lost, bound, garbage, overtaken>>

\* _response: what packet i of package p finds in the map.  An id answered before
\* in the same package is not there any more.
Found(p, i) ==
  IF \E j \in 1 .. i - 1 : p[j] # None /\ p[j].oid = p[i].oid THEN None ELSE waitMap[p[i].oid]

\* Fault: the promise is set but not taken out of the map.
HandleResponsesNoErase ==
  LET p == Head(responses)
      n == ReadPrefix([i \in DOMAIN p |-> p[i] # None => Found(p, i) # None])
  IN  /\ responses # <<>>
      /\ ~lost /\ "responses" \notin misread
      /\ responses' = Tail(responses)
      /\ misread' = misread \cup (IF n < Len(p) THEN {"responses"} ELSE {})
      /\ overtaken' = (overtaken \/ (n < Len(p) /\ p[n + 1] \in between))
      /\ \E i \in {j \in 1 .. n : p[j] # None} :
            /\ promise' = [promise EXCEPT ![waitMap[p[i].oid]] = "set"]
            /\ answer' = [answer EXCEPT ![waitMap[p[i].oid]] = p[i].call]
      /\ UNCHANGED <<waitMap, package, batch, between, issued, doubled, peer, socket, requests,
                     garbage>>

\* At the session that requested: _response, for every packet of a package up to
\* the first that nobody waits for, whose result is left.
HandleResponses ==
  LET p == Head(responses)
      n == ReadPrefix([i \in DOMAIN p |-> p[i] # None => Found(p, i) # None])
      taken == {i \in 1 .. n : p[i] # None}
      Answered(c) == {i \in taken : Found(p, i) = c}
  IN  /\ responses # <<>>
      /\ ~lost /\ "responses" \notin misread
      /\ responses' = Tail(responses)
      /\ misread' = misread \cup (IF n < Len(p) THEN {"responses"} ELSE {})
      /\ overtaken' = (overtaken \/ (n < Len(p) /\ p[n + 1] \in between))
      /\ waitMap' = [o \in Oid |-> IF \E i \in taken : p[i].oid = o THEN None ELSE waitMap[o]]
      /\ promise' = [c \in Call |-> IF Answered(c) # {} THEN "set" ELSE promise[c]]
      /\ answer' = [c \in Call |-> IF Answered(c) # {}
                                   THEN p[CHOOSE i \in Answered(c) : TRUE].call
                                   ELSE answer[c]]
      /\ UNCHANGED <<package, batch, between, issued, doubled, peer, socket, requests, garbage>>

\* The loop at the peer goes on behind a place that was lost: any bytes may be
\* taken for the header of a call, which is invoked and answered.
GarbageRequest ==
  /\ "requests" \in misread
  /\ \E x \in Stray :
        /\ Invokes(x.call)
        /\ handled' = Append(handled, x.call)
        /\ IF x.call \in Void
           THEN UNCHANGED <<responses, mixed, misread>>
           ELSE /\ responses' = Append(responses, <<x>>)
                /\ Write("responses", responses, misread)
  /\ UNCHANGED <<calls, requests, lost, bound, skipped, overtaken>>

\* The same at the session that requested: any promise may be set to any result.
GarbageResponse ==
  /\ "responses" \in misread
  /\ \E x \in Stray :
        /\ waitMap[x.oid] # None
        /\ waitMap' = [waitMap EXCEPT ![x.oid] = None]
        /\ promise' = [promise EXCEPT ![waitMap[x.oid]] = "set"]
        /\ answer' = [answer EXCEPT ![waitMap[x.oid]] = x.call]
  /\ UNCHANGED <<package, batch, between, issued, doubled, peer, socket, requests, responses,
                 misread, overtaken>>

ReadGarbage ==
  /\ ~lost
  /\ garbage < MaxGarbage
  /\ garbage' = garbage + 1
  /\ GarbageRequest \/ GarbageResponse

------------------------------------------------------------------------------
Io == HandleRequests \/ HandleResponses \/ ReadGarbage

Next ==
  \/ \E c \in Call : Send(c)
  \/ \E x \in between : Wait(x)
  \/ BeginBatch
  \/ EndBatch
  \/ Bind
  \/ Io
  \/ Lose

Spec == Init /\ [][Next]_vars

\* The io_services run, the program waits for what it sent, and a batch that was
\* begun is ended as soon as that is allowed.
FairSpec == Spec /\ WF_vars(HandleRequests) /\ WF_vars(HandleResponses)
                 /\ WF_vars(\E x \in between : Wait(x)) /\ WF_vars(EndBatch)

------------------------------------------------------------------------------
(* Properties.                                                             *)

Packet == [call : Call, oid : Oid]

TypeOK ==
  /\ waitMap \in [Oid -> Call \cup {None}]
  /\ package \in Seq(Packet)
  /\ batch \in BOOLEAN
  /\ between \subseteq [call : Call \ Void, oid : Oid]
  /\ requests \in Seq(Seq(Packet))
  /\ responses \in Seq(Seq(Packet \cup {None}))
  /\ lost \in BOOLEAN
  /\ misread \subseteq Stream
  /\ garbage \in 0 .. MaxGarbage
  /\ bound \in BOOLEAN
  /\ promise \in [Call -> {"none", "pending", "set", "broken"}]
  /\ answer \in [Call -> Call \cup {None}]
  /\ issued \in Seq(Call)
  /\ handled \in Seq(Call)
  /\ skipped \subseteq Call
  /\ mixed \subseteq misread
  /\ doubled \in BOOLEAN
  /\ overtaken \in BOOLEAN

\* The calls whose arguments the peer left in its buffer.
Left == skipped \ Bare

\* A call gets its own result, although operation ids are used again and again
\* and calls of void methods use ids that others get too.
OwnAnswer == \A c \in Call : answer[c] \in {None, c}

\* No promise is broken: the id a call was sent with is free when it waits.
NoBrokenPromise == \A c \in Call : promise[c] # "broken"

\* The promise of a call is kept, with the call's own result, unless a second
\* call was sent before the wait() of the first or a reader lost its place.  No
\* reader does, unless writes were mixed, arguments were left, or a response came
\* before the wait() of its call.
AnswersRight ==
  /\ misread = {} /\ ~doubled => OwnAnswer /\ NoBrokenPromise
  /\ misread # {} => mixed # {} \/ Left # {} \/ overtaken \/ doubled

\* The peer takes the calls in the order they were requested, each once, batched
\* or not, up to and with the first one whose arguments it leaves; before that it
\* passes over calls without arguments only.
InvokedInOrder ==
  "requests" \notin mixed =>
    \A i \in DOMAIN handled :
      (\A j \in 1 .. i - 1 : handled[j] \notin Left) => i \in DOMAIN issued /\ handled[i] = issued[i]

\* Two calls whose answers may still come do not have the same id, unless the
\* second was sent before the wait() of the first or a reader lost its place.
Travelling ==
  (UNION {ToSet(p) : p \in ToSet(requests) \cup ToSet(responses) \cup {package}}) \ {None}
IdsApart ==
  misread = {} /\ ~doubled =>
    \A x, y \in Travelling :
      x # y /\ x.call \notin Void /\ y.call \notin Void => x.oid # y.oid

\* The futures that are not ready, of calls the peer did not pass over.
Unanswered ==
  {c \in ToSet(issued) \ (Void \cup skipped) : promise[c] # "set"}

\* Every future that was handed out becomes ready, so that none is left, unless
\* the connection is lost, the peer passed the call over, or one of the four
\* things came about that nothing in the code prevents: arguments left in the
\* buffer, mixed writes, a second send() before a wait(), a response before the
\* wait() of its call.
EveryCallAnswered ==
  Unanswered # {} ~> \/ Unanswered = {}
                     \/ lost
                     \/ Left # {} \/ mixed # {} \/ doubled \/ overtaken

\* "discard left bytes of this packet": after a packet that nobody reads the
\* next one is read from its beginning.  (Mixed writes apart.)
LeftBytesDiscarded == misread \subseteq mixed
==============================================================================
