-------------------------------- MODULE Chain --------------------------------
(***************************************************************************)
(* The asynchronous call chain of common/rrpc/async_ops.hpp.               *)
(*                                                                         *)
(* A chain is a sequence of links.  A link (chain_impl) owns the handlers  *)
(* deferred in it and a counter of completions it waits for; a handler     *)
(* put into link l is wrapped by the next link n, so that running it calls *)
(* n.complete().  Links are reference counted: by the chain objects the    *)
(* builder holds and by every copy of a handler that wraps them.  The      *)
(* destructor of a link runs what is still deferred in it.                 *)
(*                                                                         *)
(* The io_service is run by the threads Thread; the chain is built, forced *)
(* and let go by one more thread, Main.  Every action is one section of    *)
(* the code that is atomic for the others: a critical section of _mutex,   *)
(* one post into the io_service, or a step on thread-local state.          *)
(***************************************************************************)
EXTENDS Naturals, FiniteSets

CONSTANTS
  Link,          \* identities of chain_impl objects
  Root,          \* the root link of the chain
  Handler,       \* user handlers
  Thread,        \* threads inside io_service::run()
  Main,          \* the thread that builds the chain
  MaxRequired,   \* bound on the `required` argument of any()
  None           \* no handler, no link

ASSUME ChainAssumption ==
  /\ Root \in Link
  /\ IsFiniteSet(Handler)
  /\ MaxRequired \in Nat
  /\ None \notin Link /\ None \notin Handler
  /\ Main \notin Link /\ Main \notin Thread
  /\ Link \cap Thread = {}

\* A frame is an activation of run(guard): in complete() on a worker, in
\* chain::run() on Main, in the destructor of a link.
Frame == Thread \cup Link \cup {Main}

VARIABLES
  life,       \* chain_impl objects: unborn, live or dead
  required,   \* chain_impl::_required
  deferred,   \* chain_impl::_deferred_handlers
  wraps,      \* the link whose complete() the chained_handler calls
  handles,    \* links of the chain objects Main still holds
  ready,      \* how many copies of a handler wait in the io_service
  running,    \* the handler a worker is running
  pc,         \* where the worker is
  batch,      \* the local vector `handlers` of a frame
  todo,       \* the handlers of batch the frame has still to post
  home,       \* history: the link a handler was deferred in
  need,       \* history: the `required` a link was made with
  calls       \* history: how often a handler has been executed

vars == <<life, required, deferred, wraps, handles, ready, running, pc,
          batch, todo, home, need, calls>>
links == <<life, required, deferred, wraps, handles, home, need>>
workers == <<running, pc, calls>>

Init ==
  /\ life = [l \in Link |-> IF l = Root THEN "live" ELSE "unborn"]
  /\ required = [l \in Link |-> 0]
  /\ deferred = [l \in Link |-> {}]
  /\ wraps = [h \in Handler |-> None]
  /\ handles = {Root}
  /\ ready = [h \in Handler |-> 0]
  /\ running = [t \in Thread |-> None]
  /\ pc = [t \in Thread |-> "idle"]
  /\ batch = [f \in Frame |-> {}]
  /\ todo = [f \in Frame |-> {}]
  /\ home = [h \in Handler |-> None]
  /\ need = [l \in Link |-> 0]
  /\ calls = [h \in Handler |-> 0]

------------------------------------------------------------------------------
(* Building: the public interface of chain, called by Main.                *)

\* Some copy of the chained handler h exists.
Held(h) ==
  \/ \E l \in Link : h \in deferred[l]
  \/ \E f \in Frame : h \in batch[f]
  \/ ready[h] > 0
  \/ \E t \in Thread : running[t] = h

\* chain_impl::post is not guarded by _mutex: links are added only while no
\* handler has left the deferred lists, before another thread can be in them.
Building ==
  /\ batch[Main] = {}
  /\ \A h \in Handler : wraps[h] = None \/ \E l \in Link : h \in deferred[l]

Unborn == {n \in Link : life[n] = "unborn"}

\* Make link n waiting for r completions, and put the handlers of H, wrapped
\* by n, into link l.  Builder calls it with a held l and an unborn n only.
Attach(l, H, n, r) ==
  /\ \A h \in H : wraps[h] = None
  /\ life' = [life EXCEPT ![n] = "live"]
  /\ required' = [required EXCEPT ![n] = r]
  /\ need' = [need EXCEPT ![n] = r]
  /\ handles' = handles \cup {n}
  /\ deferred' = [deferred EXCEPT ![l] = @ \cup H]
  /\ wraps' = [h \in Handler |-> IF h \in H THEN n ELSE wraps[h]]
  /\ home' = [h \in Handler |-> IF h \in H THEN l ELSE home[h]]
  /\ UNCHANGED <<ready, batch, todo, workers>>

Then(l, h, n) == Attach(l, {h}, n, 1)

\* any(begin, end, required); with H empty also any(required), whose new link
\* wraps nothing.
AnyOf(l, H, n, r) == Attach(l, H, n, r)

AllOf(l, H, n) == Attach(l, H, n, Cardinality(H))

\* chain::wrap: the chained handler goes to an asynchronous operation, which
\* hands it to the io_service when it is done.
Wrap(l, h) ==
  /\ batch[Main] = {}
  /\ wraps[h] = None
  /\ wraps' = [wraps EXCEPT ![h] = l]
  /\ ready' = [ready EXCEPT ![h] = 1]
  /\ UNCHANGED <<life, required, deferred, handles, batch, todo, home, need, workers>>

\* A chain object goes out of scope.
Drop(l) ==
  /\ batch[Main] = {}
  /\ handles' = handles \ {l}
  /\ UNCHANGED <<life, required, deferred, wraps, ready, batch, todo, home, need, workers>>

------------------------------------------------------------------------------
(* run(guard): swap the deferred handlers out under _mutex, post them one  *)
(* by one without it, destroy the local copies.                            *)

\* Fault: the handlers are copied instead of swapped out.
BeginRunCopy(f, l) ==
  /\ batch' = [batch EXCEPT ![f] = deferred[l]]
  /\ todo' = [todo EXCEPT ![f] = deferred[l]]
  /\ UNCHANGED deferred

BeginRun(f, l) ==
  /\ batch' = [batch EXCEPT ![f] = deferred[l]]
  /\ todo' = [todo EXCEPT ![f] = deferred[l]]
  /\ deferred' = [deferred EXCEPT ![l] = {}]

\* io_service_executor::post
Post(f, h) ==
  /\ h \in todo[f]
  /\ todo' = [todo EXCEPT ![f] = @ \ {h}]
  /\ ready' = [ready EXCEPT ![h] = @ + 1]
  /\ UNCHANGED <<links, batch, workers>>

\* The end of a run by Main or by a destructor.
EndRun(f) ==
  /\ f \notin Thread
  /\ batch[f] # {} /\ todo[f] = {}
  /\ batch' = [batch EXCEPT ![f] = {}]
  /\ UNCHANGED <<links, ready, todo, workers>>

\* chain::run
Run ==
  /\ batch[Main] = {}
  /\ handles # {}
  /\ deferred[Root] # {}
  /\ BeginRun(Main, Root)
  /\ UNCHANGED <<life, required, wraps, handles, ready, home, need, workers>>

\* Fault: a handler does not keep its link alive while it is being executed.
ReferencedButRunning(l) ==
  \/ l \in handles
  \/ l = Root /\ handles # {}
  \/ \E h \in Handler :
        /\ wraps[h] = l
        /\ \/ \E k \in Link : h \in deferred[k]
           \/ \E f \in Frame : h \in batch[f]
           \/ ready[h] > 0

\* A shared_ptr to link l exists: every chain object holds its own link and
\* the root, every copy of a chained handler the link it wraps.
Referenced(l) ==
  \/ l \in handles
  \/ l = Root /\ handles # {}
  \/ \E h \in Handler : wraps[h] = l /\ Held(h)

\* Fault: the destructor forgets the handlers that were never run.
DestructNoRun(l) ==
  /\ life[l] = "live"
  /\ ~Referenced(l)
  /\ life' = [life EXCEPT ![l] = "dead"]
  /\ deferred' = [deferred EXCEPT ![l] = {}]
  /\ UNCHANGED <<batch, todo, required, wraps, handles, ready, home, need, workers>>

\* The last reference is gone: ~chain_impl runs what is still deferred.  Its
\* frame is the link's own: it may overlap with the thread that let go.
Destruct(l) ==
  /\ life[l] = "live"
  /\ ~Referenced(l)
  /\ life' = [life EXCEPT ![l] = "dead"]
  /\ BeginRun(l, l)
  /\ UNCHANGED <<required, wraps, handles, ready, home, need, workers>>

------------------------------------------------------------------------------
(* A thread of the io_service.                                             *)

Dequeue(t, h) ==
  /\ pc[t] = "idle"
  /\ ready[h] > 0
  /\ ready' = [ready EXCEPT ![h] = @ - 1]
  /\ running' = [running EXCEPT ![t] = h]
  /\ pc' = [pc EXCEPT ![t] = "first"]
  /\ UNCHANGED <<links, batch, todo, calls>>

\* chained_handler::operator(): _first() returns, _second() is next.
First(t) ==
  /\ pc[t] = "first"
  /\ calls' = [calls EXCEPT ![running[t]] = @ + 1]
  /\ pc' = [pc EXCEPT ![t] = "second"]
  /\ UNCHANGED <<links, ready, running, batch, todo>>

\* _first() throws out of io_service::run(): _second() is skipped, the
\* handler is destroyed, and the thread enters run() again.
Throw(t) ==
  /\ pc[t] = "first"
  /\ calls' = [calls EXCEPT ![running[t]] = @ + 1]
  /\ running' = [running EXCEPT ![t] = None]
  /\ pc' = [pc EXCEPT ![t] = "idle"]
  /\ UNCHANGED <<links, ready, batch, todo>>

\* Fault: the early return is lost, every completion runs the link.
CompleteAlways(t) ==
  LET l == wraps[running[t]]
  IN  /\ pc[t] = "second"
      /\ required' = [required EXCEPT ![l] = IF @ > 0 THEN @ - 1 ELSE 0]
      /\ BeginRun(t, l)
      /\ pc' = [pc EXCEPT ![t] = "posting"]
      /\ UNCHANGED <<life, wraps, handles, ready, running, home, need, calls>>

\* Fault: the counter is tested before it is decremented.
CompleteLate(t) ==
  LET l == wraps[running[t]]
  IN  /\ pc[t] = "second"
      /\ required' = [required EXCEPT ![l] = IF @ > 0 THEN @ - 1 ELSE 0]
      /\ \/ required[l] > 0 /\ UNCHANGED <<deferred, batch, todo>>
         \/ required[l] = 0 /\ BeginRun(t, l)
      /\ pc' = [pc EXCEPT ![t] = "posting"]
      /\ UNCHANGED <<life, wraps, handles, ready, running, home, need, calls>>

\* Fault: a completion more than required is counted, too.
CompleteUnguarded(t) ==
  LET l == wraps[running[t]]
  IN  /\ pc[t] = "second"
      /\ required' = [required EXCEPT ![l] = @ - 1]
      /\ \/ required'[l] > 0 /\ UNCHANGED <<deferred, batch, todo>>
         \/ required'[l] <= 0 /\ BeginRun(t, l)
      /\ pc' = [pc EXCEPT ![t] = "posting"]
      /\ UNCHANGED <<life, wraps, handles, ready, running, home, need, calls>>

\* chain_impl::complete on the link the handler wraps.
Complete(t) ==
  LET l == wraps[running[t]]
  IN  /\ pc[t] = "second"
      /\ required' = [required EXCEPT ![l] = IF @ > 0 THEN @ - 1 ELSE 0]
      /\ \/ required'[l] > 0 /\ UNCHANGED <<deferred, batch, todo>>
         \/ required'[l] = 0 /\ BeginRun(t, l)
      /\ pc' = [pc EXCEPT ![t] = "posting"]
      /\ UNCHANGED <<life, wraps, handles, ready, running, home, need, calls>>

\* complete() and the handler returned: the copies of the frame and the copy
\* the io_service made are destroyed.
Return(t) ==
  /\ pc[t] = "posting"
  /\ todo[t] = {}
  /\ batch' = [batch EXCEPT ![t] = {}]
  /\ running' = [running EXCEPT ![t] = None]
  /\ pc' = [pc EXCEPT ![t] = "idle"]
  /\ UNCHANGED <<links, ready, todo, calls>>

------------------------------------------------------------------------------
Worker(t) ==
  \/ \E h \in Handler : Dequeue(t, h)
  \/ First(t)
  \/ Throw(t)
  \/ Complete(t)
  \/ Return(t)

Builder ==
  \/ /\ Building
     /\ \E l \in handles, n \in Unborn :
          \/ \E h \in Handler : Then(l, h, n)
          \/ \E H \in SUBSET Handler, r \in 0 .. MaxRequired : AnyOf(l, H, n, r)
          \/ \E H \in SUBSET Handler : AllOf(l, H, n)
  \/ \E l \in handles, h \in Handler : Wrap(l, h)
  \/ Run

Runtime ==
  \/ \E f \in Frame : EndRun(f) \/ \E h \in Handler : Post(f, h)
  \/ \E l \in Link : Destruct(l)
  \/ \E t \in Thread : Worker(t)

Next == Builder \/ (\E l \in handles : Drop(l)) \/ Runtime

Spec == Init /\ [][Next]_vars

\* The threads inside io_service::run() keep going while there is work, and
\* the chain objects of Main, being scoped, are destroyed in the end.
FairSpec == Spec /\ WF_vars(Runtime) /\ WF_vars(\E l \in handles : Drop(l))

------------------------------------------------------------------------------
(* Properties.                                                             *)

TypeOK ==
  /\ life \in [Link -> {"unborn", "live", "dead"}]
  /\ required \in [Link -> Nat]
  /\ deferred \in [Link -> SUBSET Handler]
  /\ wraps \in [Handler -> Link \cup {None}]
  /\ handles \in SUBSET Link
  /\ ready \in [Handler -> Nat]
  /\ running \in [Thread -> Handler \cup {None}]
  /\ pc \in [Thread -> {"idle", "first", "second", "posting"}]
  /\ batch \in [Frame -> SUBSET Handler]
  /\ todo \in [Frame -> SUBSET Handler]
  /\ home \in [Handler -> Link \cup {None}]
  /\ need \in [Link -> Nat]
  /\ calls \in [Handler -> Nat]

\* The handlers link l waits for, and those of them that have been executed.
Wrapped(l) == {h \in Handler : wraps[h] = l}
Executed(l) == {h \in Wrapped(l) : calls[h] > 0}

\* Handler h was deferred in a link and has been handed out by it.
Released(h) == home[h] # None /\ h \notin deferred[home[h]]

\* No handler is executed twice, however many completions, forced runs and
\* destructors race for the list it was deferred in.
AtMostOnce == \A h \in Handler : calls[h] <= 1

\* The barrier of any(), all() and then(): a handler leaves its link only
\* after as many of the link's wrapped handlers were executed as the link
\* requires, or after all of them when it requires more than there are.
Barrier ==
  \A h \in Handler : Released(h) =>
    LET l == home[h]
    IN  \/ Cardinality(Executed(l)) >= need[l]
        \/ Executed(l) = Wrapped(l)

\* A completion arrives at a live link: the handler being executed keeps the
\* link it wraps from being destroyed.
CompletesLiveLink ==
  \A t \in Thread : pc[t] \in {"second", "posting"} => life[wraps[running[t]]] = "live"

\* A link that has counted all its completions holds nothing back.
NothingHeldBack ==
  \A l \in Link : need[l] > 0 /\ required[l] = 0 => deferred[l] = {}

\* Every handler given to the chain is executed in the end, also those behind
\* a link whose count is never reached: the destructor runs them.
EveryHandlerRuns == \A h \in Handler : wraps[h] # None ~> calls[h] > 0
==============================================================================
