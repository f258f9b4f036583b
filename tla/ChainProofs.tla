----------------------------- MODULE ChainProofs -----------------------------
(***************************************************************************)
(* Proofs about Chain, for any links, handlers and threads.                *)
(*                                                                         *)
(* The inductive invariant IInv is built in three layers, each inductive   *)
(* with those below it: where a handler may be (PlaceInv), which links are *)
(* alive (LiveInv, HeldInv), and what the counter of a link says of the    *)
(* handlers that wrap it (IInv).                                           *)
(***************************************************************************)
EXTENDS Chain, FiniteSetTheorems, TLAPS

USE DEF Frame

\* The steps of Next, one case each.
LEMMA StepCases ==
  ASSUME Next
  PROVE  \/ \E l \in handles, n \in Unborn, H \in SUBSET Handler, r \in Nat :
               Building /\ Attach(l, H, n, r)
         \/ \E l \in handles, h \in Handler : Wrap(l, h)
         \/ Run
         \/ \E l \in handles : Drop(l)
         \/ \E f \in Frame : EndRun(f)
         \/ \E f \in Frame, h \in Handler : Post(f, h)
         \/ \E l \in Link : Destruct(l)
         \/ \E t \in Thread, h \in Handler : Dequeue(t, h)
         \/ \E t \in Thread : First(t) \/ Throw(t) \/ Complete(t) \/ Return(t)
<1>1. CASE Builder
  <2>1. CASE Building /\ \E l \in handles, n \in Unborn :
                 \/ \E h \in Handler : Then(l, h, n)
                 \/ \E H \in SUBSET Handler, r \in 0 .. MaxRequired : AnyOf(l, H, n, r)
                 \/ \E H \in SUBSET Handler : AllOf(l, H, n)
    <3>1. PICK l \in handles, n \in Unborn :
                 \/ \E h \in Handler : Then(l, h, n)
                 \/ \E H \in SUBSET Handler, r \in 0 .. MaxRequired : AnyOf(l, H, n, r)
                 \/ \E H \in SUBSET Handler : AllOf(l, H, n)
      BY <2>1
    <3>2. ASSUME NEW h \in Handler, Then(l, h, n)
          PROVE  \E H \in SUBSET Handler, r \in Nat : Attach(l, H, n, r)
      <4>1. {h} \in SUBSET Handler /\ 1 \in Nat
        OBVIOUS
      <4> QED BY <4>1, <3>2 DEF Then
    <3>3. ASSUME NEW H \in SUBSET Handler, NEW r \in 0 .. MaxRequired, AnyOf(l, H, n, r)
          PROVE  \E K \in SUBSET Handler, k \in Nat : Attach(l, K, n, k)
      BY <3>3 DEF AnyOf
    <3>4. ASSUME NEW H \in SUBSET Handler, AllOf(l, H, n)
          PROVE  \E K \in SUBSET Handler, k \in Nat : Attach(l, K, n, k)
      <4>1. Cardinality(H) \in Nat
        BY ChainAssumption, FS_Subset, FS_CardinalityType
      <4> QED BY <4>1, <3>4 DEF AllOf
    <3> QED BY <2>1, <3>1, <3>2, <3>3, <3>4
  <2> QED BY <1>1, <2>1 DEF Builder
<1>2. CASE \E l \in handles : Drop(l)
  BY <1>2
<1>3. CASE Runtime
  BY <1>3 DEF Runtime, Worker
<1> QED BY <1>1, <1>2, <1>3 DEF Next

------------------------------------------------------------------------------
(* The inductive invariant, in named parts.                                *)

\* A busy worker runs a chained handler.
Busy ==
  \A t \in Thread :
    /\ pc[t] = "idle" => running[t] = None
    /\ pc[t] # "idle" => running[t] \in Handler

\* A handler that wraps nothing yet is nowhere.
Unused ==
  \A h \in Handler : wraps[h] = None =>
    /\ home[h] = None /\ calls[h] = 0 /\ ~Held(h)

\* Nobody executes h, and nobody did.
Fresh(h) == calls[h] = 0 /\ \A t \in Thread : running[t] # h

\* A handler is in one place until it is executed: a deferred list, ...
DeferredOnce ==
  \A l \in Link : \A h \in deferred[l] :
    /\ Fresh(h) /\ home[h] = l /\ ready[h] = 0
    /\ \A f \in Frame : h \notin todo[f]

\* ... the rest of a batch, ...
TodoOnce ==
  \A f \in Frame : \A h \in todo[f] :
    /\ Fresh(h) /\ ready[h] = 0 /\ h \in batch[f]
    /\ \A g \in Frame \ {f} : h \notin todo[g]

\* ... the io_service, ...
ReadyOnce == \A h \in Handler : ready[h] > 0 => Fresh(h) /\ ready[h] = 1

\* ... or a worker, which has not called it before.
RunningOnce ==
  /\ \A t, u \in Thread : running[t] # None /\ running[t] = running[u] => t = u
  /\ \A t \in Thread : pc[t] = "first" => calls[running[t]] = 0
  /\ \A t \in Thread : pc[t] \in {"second", "posting"} => calls[running[t]] = 1

PlaceInv ==
  /\ TypeOK
  /\ Busy
  /\ Unused
  /\ DeferredOnce
  /\ TodoOnce
  /\ ReadyOnce
  /\ RunningOnce
  /\ AtMostOnce

\* Chain objects hold live links; a handler somewhere keeps its link alive.
HandlesLive == \A l \in handles : life[l] = "live"
KeptAlive == \A h \in Handler : Held(h) => life[wraps[h]] = "live"

\* Handlers are put into, and wrap, links that were made.
Born ==
  /\ life[Root] # "unborn"
  /\ \A h \in Handler :
       /\ wraps[h] # None => life[wraps[h]] # "unborn"
       /\ home[h] # None => life[home[h]] # "unborn"

LiveInv == PlaceInv /\ HandlesLive /\ KeptAlive /\ Born

\* Frames are empty where no run is going on.
FramesEmpty ==
  /\ \A t \in Thread : pc[t] # "posting" => batch[t] = {}
  /\ \A l \in Link : life[l] # "dead" => batch[l] = {}

\* No handler disappears without having been executed.
NotLost ==
  \A h \in Handler : wraps[h] # None =>
    \/ home[h] # None /\ h \in deferred[home[h]]
    \/ \E f \in Frame : h \in todo[f]
    \/ ready[h] > 0
    \/ \E t \in Thread : running[t] = h
    \/ calls[h] > 0

HeldInv == LiveInv /\ FramesEmpty /\ NotLost

\* The handlers link l has counted: executed, and past complete().
Counted(l) ==
  {h \in Executed(l) : \A t \in Thread : ~(running[t] = h /\ pc[t] = "second")}

\* The counter of a link goes down with the handlers counted only, and not
\* while all of them are deferred.
CounterRight ==
  /\ need[Root] = 0
  /\ \A l \in Link : need[l] <= required[l] + Cardinality(Counted(l))
  /\ \A l \in Link : need[l] # required[l] => \E h \in Wrapped(l) : calls[h] > 0

\* Link l may let its handlers go.
Enough(l) ==
  \/ Cardinality(Executed(l)) >= need[l]
  \/ life[l] = "dead" /\ Executed(l) = Wrapped(l)

ReleasedRightly == \A h \in Handler : Released(h) => Enough(home[h])

IInv == HeldInv /\ CounterRight /\ ReleasedRightly /\ NothingHeldBack

------------------------------------------------------------------------------
(* PlaceInv is inductive: each action, then all of them.                   *)

LEMMA AttachStep ==
  ASSUME PlaceInv, NEW l \in handles, NEW n \in Unborn, NEW H \in SUBSET Handler, NEW r \in Nat,
         Building, Attach(l, H, n, r)
  PROVE  PlaceInv'
<1> USE ChainAssumption DEF PlaceInv, Attach, Building, Unborn, links, workers
<1>1. TypeOK' /\ Busy' /\ Unused' /\ TodoOnce' /\ ReadyOnce' /\ RunningOnce' /\ AtMostOnce'
  BY DEF TypeOK, Busy, Unused, TodoOnce, ReadyOnce, RunningOnce, AtMostOnce, Held, Fresh
<1>2. DeferredOnce'
  BY DEF TypeOK, Unused, Held, Fresh, DeferredOnce, TodoOnce
<1> QED BY <1>1, <1>2

LEMMA WrapStep ==
  ASSUME PlaceInv, NEW l \in handles, NEW h \in Handler, Wrap(l, h)
  PROVE  PlaceInv'
<1> USE ChainAssumption DEF PlaceInv, Wrap, links, workers
<1>1. TypeOK' /\ Busy' /\ RunningOnce' /\ AtMostOnce'
  BY DEF TypeOK, Busy, RunningOnce, AtMostOnce
<1>2. Unused'
  BY DEF TypeOK, Unused, Held
<1>3. DeferredOnce'
  BY DEF Unused, Fresh, DeferredOnce
<1>4. TodoOnce'
  BY DEF Unused, Held, Fresh, TodoOnce
<1>5. ReadyOnce'
  BY DEF Unused, Held, Fresh, ReadyOnce
<1> QED BY <1>1, <1>2, <1>3, <1>4, <1>5

LEMMA RunStep ==
  ASSUME PlaceInv, Run
  PROVE  PlaceInv'
<1> USE ChainAssumption DEF PlaceInv, Run, BeginRun, links, workers
<1>1. TypeOK' /\ Busy' /\ Unused' /\ ReadyOnce' /\ RunningOnce' /\ AtMostOnce'
  BY DEF TypeOK, Busy, Unused, ReadyOnce, RunningOnce, AtMostOnce, Held, Fresh
<1>2. DeferredOnce'
  BY DEF TypeOK, Fresh, DeferredOnce
<1>3. TodoOnce'
  BY DEF TypeOK, Fresh, DeferredOnce, TodoOnce
<1> QED BY <1>1, <1>2, <1>3

LEMMA DropStep ==
  ASSUME PlaceInv, NEW l \in handles, Drop(l)
  PROVE  PlaceInv'
BY ChainAssumption DEF PlaceInv, Drop, links, workers, TypeOK, Busy, Unused, DeferredOnce,
   TodoOnce, ReadyOnce, RunningOnce, AtMostOnce, Held, Fresh

LEMMA EndRunStep ==
  ASSUME PlaceInv, NEW f \in Frame, EndRun(f)
  PROVE  PlaceInv'
BY ChainAssumption DEF PlaceInv, EndRun, links, workers, TypeOK, Busy, Unused, DeferredOnce,
   TodoOnce, ReadyOnce, RunningOnce, AtMostOnce, Held, Fresh

LEMMA PostStep ==
  ASSUME PlaceInv, NEW f \in Frame, NEW h \in Handler, Post(f, h)
  PROVE  PlaceInv'
<1> USE ChainAssumption DEF PlaceInv, Post, links, workers
<1>1. TypeOK' /\ Busy' /\ DeferredOnce' /\ RunningOnce' /\ AtMostOnce'
  BY DEF TypeOK, Busy, DeferredOnce, RunningOnce, AtMostOnce, Fresh
<1>2. Unused'
  BY DEF Unused, Held, TodoOnce
<1>3. TodoOnce'
  BY DEF TypeOK, Fresh, TodoOnce
<1>4. ReadyOnce'
  BY DEF Fresh, TodoOnce, ReadyOnce
<1> QED BY <1>1, <1>2, <1>3, <1>4

LEMMA DestructStep ==
  ASSUME PlaceInv, NEW l \in Link, Destruct(l)
  PROVE  PlaceInv'
<1> USE ChainAssumption DEF PlaceInv, Destruct, BeginRun, links, workers
<1>1. TypeOK' /\ Busy' /\ Unused' /\ ReadyOnce' /\ RunningOnce' /\ AtMostOnce'
  BY DEF TypeOK, Busy, Unused, ReadyOnce, RunningOnce, AtMostOnce, Held, Fresh
<1>2. DeferredOnce'
  BY DEF TypeOK, Fresh, DeferredOnce
<1>3. TodoOnce'
  BY DEF TypeOK, Fresh, DeferredOnce, TodoOnce
<1> QED BY <1>1, <1>2, <1>3

LEMMA DequeueStep ==
  ASSUME PlaceInv, NEW t \in Thread, NEW h \in Handler, Dequeue(t, h)
  PROVE  PlaceInv'
<1> USE ChainAssumption DEF PlaceInv, Dequeue, links, workers
<1>1. TypeOK' /\ Unused' /\ DeferredOnce' /\ TodoOnce' /\ AtMostOnce'
  BY DEF TypeOK, Unused, DeferredOnce, TodoOnce, AtMostOnce, Held, Fresh
<1>2. Busy'
  BY DEF TypeOK, Busy
<1>3. ReadyOnce'
  BY DEF TypeOK, Fresh, ReadyOnce
<1>4. RunningOnce'
  BY DEF TypeOK, Fresh, ReadyOnce, RunningOnce
<1> QED BY <1>1, <1>2, <1>3, <1>4

LEMMA FirstStep ==
  ASSUME PlaceInv, NEW t \in Thread, First(t)
  PROVE  PlaceInv'
<1> USE ChainAssumption DEF PlaceInv, First, links, workers
<1>1. Busy' /\ Unused' /\ TodoOnce' /\ ReadyOnce'
  BY DEF Busy, Unused, TodoOnce, ReadyOnce, Held, Fresh
<1>2. TypeOK'
  BY DEF TypeOK, Busy
<1>3. DeferredOnce'
  BY DEF TypeOK, Busy, Unused, Held, Fresh, DeferredOnce, TodoOnce, ReadyOnce, RunningOnce, AtMostOnce
<1>4. RunningOnce'
  BY DEF TypeOK, Busy, RunningOnce
<1>5. AtMostOnce'
  BY DEF RunningOnce, AtMostOnce
<1> QED BY <1>1, <1>2, <1>3, <1>4, <1>5

LEMMA ThrowStep ==
  ASSUME PlaceInv, NEW t \in Thread, Throw(t)
  PROVE  PlaceInv'
<1> USE ChainAssumption DEF PlaceInv, Throw, links, workers
<1>1. Unused' /\ ReadyOnce'
  BY DEF Unused, ReadyOnce, Held, Fresh
<1>2. TypeOK'
  BY DEF TypeOK, Busy
<1>3. Busy'
  BY DEF TypeOK, Busy
<1>4. DeferredOnce'
  BY DEF TypeOK, Fresh, DeferredOnce
<1>5. TodoOnce'
  BY DEF TypeOK, Fresh, TodoOnce
<1>6. RunningOnce'
  BY DEF TypeOK, RunningOnce
<1>7. AtMostOnce'
  BY DEF RunningOnce, AtMostOnce
<1> QED BY <1>1, <1>2, <1>3, <1>4, <1>5, <1>6, <1>7

LEMMA CompleteStep ==
  ASSUME PlaceInv, NEW t \in Thread, Complete(t)
  PROVE  PlaceInv'
<1> DEFINE h == running[t]
           l == wraps[h]
<1> USE ChainAssumption DEF PlaceInv, links, workers
<1>1. h \in Handler /\ l \in Link
  BY DEF Complete, TypeOK, Busy, Unused, Held
<1>2. required' \in [Link -> Nat]
  BY <1>1 DEF Complete, TypeOK
<1>3. CASE UNCHANGED <<deferred, batch, todo>>
  BY <1>1, <1>2, <1>3 DEF Complete, TypeOK, Busy, Unused, Held, Fresh, DeferredOnce, TodoOnce,
                          ReadyOnce, RunningOnce, AtMostOnce
<1>4. CASE BeginRun(t, l)
  <2> USE <1>1, <1>2, <1>4 DEF Complete, BeginRun
  <2>1. TypeOK'
    BY DEF TypeOK
  <2>2. Busy'
    BY DEF Busy
  <2>3. Unused'
    BY DEF Unused, Held
  <2>4. DeferredOnce'
    BY DEF TypeOK, Fresh, DeferredOnce
  <2>5. TodoOnce'
    BY DEF TypeOK, Fresh, DeferredOnce, TodoOnce
  <2>6. ReadyOnce'
    BY DEF Fresh, ReadyOnce
  <2>7. RunningOnce'
    BY DEF RunningOnce
  <2>8. AtMostOnce'
    BY DEF AtMostOnce
  <2> QED BY <2>1, <2>2, <2>3, <2>4, <2>5, <2>6, <2>7, <2>8
<1> QED BY <1>3, <1>4 DEF Complete

LEMMA ReturnStep ==
  ASSUME PlaceInv, NEW t \in Thread, Return(t)
  PROVE  PlaceInv'
<1> USE ChainAssumption DEF PlaceInv, Return, links, workers
<1>1. TypeOK' /\ Unused' /\ ReadyOnce' /\ AtMostOnce'
  BY DEF TypeOK, Unused, ReadyOnce, AtMostOnce, Held, Fresh
<1>2. Busy'
  BY DEF TypeOK, Busy
<1>3. DeferredOnce'
  BY DEF TypeOK, Fresh, DeferredOnce
<1>4. TodoOnce'
  BY DEF TypeOK, Fresh, TodoOnce
<1>5. RunningOnce'
  BY DEF TypeOK, RunningOnce
<1> QED BY <1>1, <1>2, <1>3, <1>4, <1>5

LEMMA StutterStep ==
  ASSUME PlaceInv, UNCHANGED vars
  PROVE  PlaceInv'
BY ChainAssumption DEF PlaceInv, vars, links, workers, TypeOK, Busy, Unused, DeferredOnce,
   TodoOnce, ReadyOnce, RunningOnce, AtMostOnce, Held, Fresh

LEMMA NextPlaceInv == PlaceInv /\ [Next]_vars => PlaceInv'
BY StepCases, AttachStep, WrapStep, RunStep, DropStep, EndRunStep, PostStep, DestructStep, DequeueStep,
   FirstStep, ThrowStep, CompleteStep, ReturnStep, StutterStep

------------------------------------------------------------------------------
(* LiveInv is inductive.                                                   *)

LEMMA AttachLive ==
  ASSUME LiveInv, NEW l \in handles, NEW n \in Unborn, NEW H \in SUBSET Handler, NEW r \in Nat,
         Building, Attach(l, H, n, r)
  PROVE  HandlesLive' /\ KeptAlive' /\ Born'
<1> USE ChainAssumption DEF LiveInv, PlaceInv, Attach, Building, Unborn, links, workers
<1>1. HandlesLive'
  BY DEF TypeOK, HandlesLive
<1>2. KeptAlive'
  BY DEF TypeOK, Held, KeptAlive
<1>3. Born'
  BY DEF TypeOK, HandlesLive, Born
<1> QED BY <1>1, <1>2, <1>3

LEMMA WrapLive ==
  ASSUME LiveInv, NEW l \in handles, NEW h \in Handler, Wrap(l, h)
  PROVE  HandlesLive' /\ KeptAlive' /\ Born'
<1> USE ChainAssumption DEF LiveInv, PlaceInv, Wrap, links, workers
<1>1. HandlesLive'
  BY DEF HandlesLive
<1>2. KeptAlive'
  BY DEF TypeOK, Held, HandlesLive, KeptAlive
<1>3. Born'
  BY DEF HandlesLive, Born
<1> QED BY <1>1, <1>2, <1>3

LEMMA RunLive ==
  ASSUME LiveInv, Run
  PROVE  HandlesLive' /\ KeptAlive' /\ Born'
BY ChainAssumption DEF LiveInv, PlaceInv, Run, BeginRun, links, workers, HandlesLive, KeptAlive,
   Born, Held

LEMMA DropLive ==
  ASSUME LiveInv, NEW l \in handles, Drop(l)
  PROVE  HandlesLive' /\ KeptAlive' /\ Born'
BY ChainAssumption DEF LiveInv, PlaceInv, Drop, links, workers, HandlesLive, KeptAlive, Born, Held

LEMMA EndRunLive ==
  ASSUME LiveInv, NEW f \in Frame, EndRun(f)
  PROVE  HandlesLive' /\ KeptAlive' /\ Born'
BY ChainAssumption DEF LiveInv, PlaceInv, EndRun, links, workers, HandlesLive, KeptAlive, Born,
   Held

LEMMA PostLive ==
  ASSUME LiveInv, NEW f \in Frame, NEW h \in Handler, Post(f, h)
  PROVE  HandlesLive' /\ KeptAlive' /\ Born'
<1> USE ChainAssumption DEF LiveInv, PlaceInv, Post, links, workers
<1>1. HandlesLive' /\ Born'
  BY DEF HandlesLive, Born
<1>2. KeptAlive'
  BY DEF Held, KeptAlive, TodoOnce
<1> QED BY <1>1, <1>2

LEMMA DestructLive ==
  ASSUME LiveInv, NEW l \in Link, Destruct(l)
  PROVE  HandlesLive' /\ KeptAlive' /\ Born'
BY ChainAssumption DEF LiveInv, PlaceInv, Destruct, BeginRun, Referenced, links, workers,
   HandlesLive, KeptAlive, Born, Held

LEMMA DequeueLive ==
  ASSUME LiveInv, NEW t \in Thread, NEW h \in Handler, Dequeue(t, h)
  PROVE  HandlesLive' /\ KeptAlive' /\ Born'
BY ChainAssumption DEF LiveInv, PlaceInv, Dequeue, links, workers, HandlesLive, KeptAlive, Born,
   Held

LEMMA FirstLive ==
  ASSUME LiveInv, NEW t \in Thread, First(t)
  PROVE  HandlesLive' /\ KeptAlive' /\ Born'
BY ChainAssumption DEF LiveInv, PlaceInv, First, links, workers, HandlesLive, KeptAlive, Born, Held

LEMMA ThrowLive ==
  ASSUME LiveInv, NEW t \in Thread, Throw(t)
  PROVE  HandlesLive' /\ KeptAlive' /\ Born'
BY ChainAssumption DEF LiveInv, PlaceInv, Throw, links, workers, HandlesLive, KeptAlive, Born, Held

LEMMA CompleteLive ==
  ASSUME LiveInv, NEW t \in Thread, Complete(t)
  PROVE  HandlesLive' /\ KeptAlive' /\ Born'
<1> USE DEF LiveInv, PlaceInv, Complete, links, workers
<1>1. HandlesLive' /\ Born'
  BY DEF HandlesLive, Born
<1>2. running[t] \in Handler /\ wraps[running[t]] \in Link
  BY DEF TypeOK, Busy, Unused, Held
<1>3. /\ \A k \in Link : deferred'[k] \subseteq deferred[k]
       /\ \A f \in Frame : \/ batch'[f] = batch[f]
                          \/ batch'[f] = deferred[wraps[running[t]]]
  BY <1>2 DEF BeginRun, TypeOK
<1>4. ASSUME NEW h \in Handler, Held(h)'
      PROVE  Held(h)
  BY <1>2, <1>3, <1>4 DEF Held
<1>5. KeptAlive'
  BY <1>4 DEF KeptAlive
<1> QED BY <1>1, <1>5

LEMMA ReturnLive ==
  ASSUME LiveInv, NEW t \in Thread, Return(t)
  PROVE  HandlesLive' /\ KeptAlive' /\ Born'
BY ChainAssumption DEF LiveInv, PlaceInv, Return, links, workers, HandlesLive, KeptAlive, Born,
   Held

LEMMA StutterLive ==
  ASSUME LiveInv, UNCHANGED vars
  PROVE  HandlesLive' /\ KeptAlive' /\ Born'
BY ChainAssumption DEF LiveInv, PlaceInv, vars, links, workers, HandlesLive, KeptAlive, Born, Held

LEMMA NextLiveInv == LiveInv /\ [Next]_vars => LiveInv'
BY NextPlaceInv, StepCases, AttachLive, WrapLive, RunLive, DropLive, EndRunLive, PostLive,
   DestructLive, DequeueLive, FirstLive, ThrowLive, CompleteLive, ReturnLive, StutterLive
   DEF LiveInv

------------------------------------------------------------------------------
(* HeldInv is inductive.                                                   *)

LEMMA AttachHeld ==
  ASSUME HeldInv, NEW l \in handles, NEW n \in Unborn, NEW H \in SUBSET Handler, NEW r \in Nat,
         Building, Attach(l, H, n, r)
  PROVE  FramesEmpty' /\ NotLost'
<1> USE ChainAssumption DEF HeldInv, LiveInv, PlaceInv, Attach, Building, Unborn, links, workers
<1>1. FramesEmpty'
  BY DEF FramesEmpty
<1>2. NotLost'
  BY DEF TypeOK, NotLost
<1> QED BY <1>1, <1>2

LEMMA WrapHeld ==
  ASSUME HeldInv, NEW l \in handles, NEW h \in Handler, Wrap(l, h)
  PROVE  FramesEmpty' /\ NotLost'
<1> USE ChainAssumption DEF HeldInv, LiveInv, PlaceInv, Wrap, links, workers
<1>1. FramesEmpty'
  BY DEF FramesEmpty
<1>2. NotLost'
  BY DEF TypeOK, NotLost
<1> QED BY <1>1, <1>2

LEMMA RunHeld ==
  ASSUME HeldInv, Run
  PROVE  FramesEmpty' /\ NotLost'
<1> USE ChainAssumption DEF HeldInv, LiveInv, PlaceInv, Run, BeginRun, links, workers
<1>1. FramesEmpty'
  BY DEF FramesEmpty
<1>2. NotLost'
  BY DEF TypeOK, TodoOnce, NotLost
<1> QED BY <1>1, <1>2

LEMMA DropHeld ==
  ASSUME HeldInv, NEW l \in handles, Drop(l)
  PROVE  FramesEmpty' /\ NotLost'
BY ChainAssumption DEF HeldInv, LiveInv, PlaceInv, Drop, links, workers, FramesEmpty, NotLost

LEMMA EndRunHeld ==
  ASSUME HeldInv, NEW f \in Frame, EndRun(f)
  PROVE  FramesEmpty' /\ NotLost'
BY ChainAssumption DEF HeldInv, LiveInv, PlaceInv, EndRun, links, workers, FramesEmpty, NotLost

LEMMA PostHeld ==
  ASSUME HeldInv, NEW f \in Frame, NEW h \in Handler, Post(f, h)
  PROVE  FramesEmpty' /\ NotLost'
<1> USE ChainAssumption DEF HeldInv, LiveInv, PlaceInv, Post, links, workers
<1>1. FramesEmpty'
  BY DEF FramesEmpty
<1>2. NotLost'
  BY DEF TypeOK, NotLost
<1> QED BY <1>1, <1>2

LEMMA DestructHeld ==
  ASSUME HeldInv, NEW l \in Link, Destruct(l)
  PROVE  FramesEmpty' /\ NotLost'
<1> USE ChainAssumption DEF HeldInv, LiveInv, PlaceInv, Destruct, BeginRun, Referenced, links, workers
<1>1. FramesEmpty'
  BY DEF TypeOK, FramesEmpty
<1>2. NotLost'
  <2> SUFFICES ASSUME NEW h \in Handler, wraps[h] # None
               PROVE  \/ home[h] # None /\ h \in deferred'[home[h]]
                      \/ \E f \in Frame : h \in todo'[f]
                      \/ ready[h] > 0
                      \/ \E t \in Thread : running[t] = h
                      \/ calls[h] > 0
    BY DEF NotLost
  <2>1. /\ todo[l] = {}
        /\ todo'[l] = deferred[l]
        /\ \A f \in Frame \ {l} : todo'[f] = todo[f]
        /\ \A k \in Link \ {l} : deferred'[k] = deferred[k]
    BY DEF TypeOK, TodoOnce, FramesEmpty
  <2>2. CASE home[h] # None /\ h \in deferred[home[h]]
    BY <2>1, <2>2 DEF TypeOK
  <2>3. CASE \E f \in Frame : h \in todo[f]
    BY <2>1, <2>3
  <2> QED BY <2>2, <2>3 DEF NotLost
<1> QED BY <1>1, <1>2

LEMMA DequeueHeld ==
  ASSUME HeldInv, NEW t \in Thread, NEW h \in Handler, Dequeue(t, h)
  PROVE  FramesEmpty' /\ NotLost'
<1> USE ChainAssumption DEF HeldInv, LiveInv, PlaceInv, Dequeue, links, workers
<1>1. FramesEmpty'
  BY DEF FramesEmpty
<1>2. NotLost'
  BY DEF TypeOK, Busy, NotLost
<1> QED BY <1>1, <1>2

LEMMA FirstHeld ==
  ASSUME HeldInv, NEW t \in Thread, First(t)
  PROVE  FramesEmpty' /\ NotLost'
BY ChainAssumption DEF HeldInv, LiveInv, PlaceInv, First, links, workers, FramesEmpty, NotLost

LEMMA ThrowHeld ==
  ASSUME HeldInv, NEW t \in Thread, Throw(t)
  PROVE  FramesEmpty' /\ NotLost'
<1> USE ChainAssumption DEF HeldInv, LiveInv, PlaceInv, Throw, links, workers
<1>1. FramesEmpty'
  BY DEF FramesEmpty
<1>2. NotLost'
  BY DEF TypeOK, NotLost
<1> QED BY <1>1, <1>2

LEMMA CompleteHeld ==
  ASSUME HeldInv, NEW t \in Thread, Complete(t)
  PROVE  FramesEmpty' /\ NotLost'
<1> DEFINE l == wraps[running[t]]
<1> USE ChainAssumption DEF HeldInv, LiveInv, PlaceInv
<1>1. l \in Link
  BY DEF Complete, TypeOK, Busy, Unused, Held
<1>2. /\ pc[t] = "second"
      /\ pc' = [pc EXCEPT ![t] = "posting"]
      /\ UNCHANGED <<life, wraps, home, ready, running, calls>>
  BY DEF Complete
<1>3. CASE UNCHANGED <<deferred, batch, todo>>
  <2>1. FramesEmpty'
    BY <1>2, <1>3 DEF FramesEmpty
  <2>2. NotLost'
    BY <1>2, <1>3 DEF NotLost
  <2> QED BY <2>1, <2>2
<1>4. CASE BeginRun(t, l)
  <2>1. todo[t] = {}
    BY <1>2 DEF TodoOnce, FramesEmpty
  <2>2. ASSUME NEW h \in Handler, h \in deferred[l]
        PROVE  h \in todo'[t]
    BY <1>1, <1>4, <2>2 DEF BeginRun, TypeOK
  <2>3. ASSUME NEW h \in Handler, NEW f \in Frame, h \in todo[f]
        PROVE  h \in todo'[f]
    BY <1>1, <1>4, <2>1, <2>3 DEF BeginRun
  <2>4. ASSUME NEW h \in Handler, home[h] # None, h \in deferred[home[h]], h \notin deferred[l]
        PROVE  h \in deferred'[home[h]]
    BY <1>1, <1>4, <2>4 DEF BeginRun
  <2>5. NotLost'
    BY <1>1, <1>2, <2>2, <2>3, <2>4 DEF NotLost
  <2>6. FramesEmpty'
    BY <1>2, <1>4 DEF BeginRun, FramesEmpty, TypeOK
  <2> QED BY <2>5, <2>6
<1> QED BY <1>3, <1>4 DEF Complete

LEMMA ReturnHeld ==
  ASSUME HeldInv, NEW t \in Thread, Return(t)
  PROVE  FramesEmpty' /\ NotLost'
<1> USE ChainAssumption DEF HeldInv, LiveInv, PlaceInv, Return, links, workers
<1>1. FramesEmpty'
  BY DEF TypeOK, FramesEmpty
<1>2. NotLost'
  BY DEF RunningOnce, NotLost
<1> QED BY <1>1, <1>2

LEMMA StutterHeld ==
  ASSUME HeldInv, UNCHANGED vars
  PROVE  FramesEmpty' /\ NotLost'
BY ChainAssumption DEF HeldInv, LiveInv, PlaceInv, vars, links, workers, FramesEmpty, NotLost

LEMMA NextHeldInv == HeldInv /\ [Next]_vars => HeldInv'
BY NextLiveInv, StepCases, AttachHeld, WrapHeld, RunHeld, DropHeld, EndRunHeld, PostHeld,
   DestructHeld, DequeueHeld, FirstHeld, ThrowHeld, CompleteHeld, ReturnHeld, StutterHeld
   DEF HeldInv

------------------------------------------------------------------------------
(* Counting.                                                               *)

\* Sets of handlers are finite: their cardinalities are numbers, in the order
\* of inclusion, and one handler more counts one more.
LEMMA CardinalityMonotone ==
  ASSUME NEW S \in SUBSET Handler, NEW T \in SUBSET Handler, S \subseteq T
  PROVE  Cardinality(S) \in Nat /\ Cardinality(T) \in Nat /\ Cardinality(S) <= Cardinality(T)
<1>1. IsFiniteSet(S) /\ IsFiniteSet(T)
  BY ChainAssumption, FS_Subset
<1> QED BY <1>1, FS_Subset, FS_CardinalityType

LEMMA CardinalityOneMore ==
  ASSUME NEW S \in SUBSET Handler, NEW T \in SUBSET Handler, NEW h \in Handler \ S,
         S \cup {h} \subseteq T
  PROVE  Cardinality(S) + 1 <= Cardinality(T)
<1>1. IsFiniteSet(S)
  BY ChainAssumption, FS_Subset
<1>2. Cardinality(S \cup {h}) = Cardinality(S) + 1
  BY <1>1, FS_AddElement
<1> QED BY <1>2, CardinalityMonotone

\* What a step leaves link k, once made: what it needs, and who was executed
\* and counted.
Keeps(k) ==
  /\ need'[k] = need[k]
  /\ Executed(k) \subseteq Executed(k)'
  /\ Counted(k) \subseteq Counted(k)'
  /\ life[k] = "dead" => life'[k] = "dead" /\ Wrapped(k)' \subseteq Wrapped(k)

LEMMA AttachKeeps ==
  ASSUME LiveInv, NEW l \in handles, NEW n \in Unborn, NEW H \in SUBSET Handler, NEW r \in Nat,
         Building, Attach(l, H, n, r),
         NEW k \in Link, life[k] # "unborn"
  PROVE  Keeps(k)
  BY DEF LiveInv, PlaceInv, Attach, Unborn, workers, Keeps, Executed, Wrapped, Counted, Unused

LEMMA WrapKeeps ==
  ASSUME LiveInv, NEW l \in handles, NEW h \in Handler, Wrap(l, h),
         NEW k \in Link, life[k] # "unborn"
  PROVE  Keeps(k)
  BY DEF LiveInv, PlaceInv, Wrap, workers, Keeps, Executed, Wrapped, Counted, Unused, HandlesLive

LEMMA RunKeeps ==
  ASSUME LiveInv, Run,
         NEW k \in Link, life[k] # "unborn"
  PROVE  Keeps(k)
  BY DEF Run, workers, Keeps, Executed, Wrapped, Counted

LEMMA DropKeeps ==
  ASSUME LiveInv, NEW l \in handles, Drop(l),
         NEW k \in Link, life[k] # "unborn"
  PROVE  Keeps(k)
  BY DEF Drop, workers, Keeps, Executed, Wrapped, Counted

LEMMA EndRunKeeps ==
  ASSUME LiveInv, NEW f \in Frame, EndRun(f),
         NEW k \in Link, life[k] # "unborn"
  PROVE  Keeps(k)
  BY DEF EndRun, links, workers, Keeps, Executed, Wrapped, Counted

LEMMA PostKeeps ==
  ASSUME LiveInv, NEW f \in Frame, NEW h \in Handler, Post(f, h),
         NEW k \in Link, life[k] # "unborn"
  PROVE  Keeps(k)
  BY DEF Post, links, workers, Keeps, Executed, Wrapped, Counted

LEMMA DestructKeeps ==
  ASSUME LiveInv, NEW l \in Link, Destruct(l),
         NEW k \in Link, life[k] # "unborn"
  PROVE  Keeps(k)
  BY DEF Destruct, workers, Keeps, Executed, Wrapped, Counted

LEMMA DequeueKeeps ==
  ASSUME LiveInv, NEW t \in Thread, NEW h \in Handler, Dequeue(t, h),
         NEW k \in Link, life[k] # "unborn"
  PROVE  Keeps(k)
  BY DEF Dequeue, links, Keeps, Executed, Wrapped, Counted

LEMMA FirstKeeps ==
  ASSUME LiveInv, NEW t \in Thread, First(t),
         NEW k \in Link, life[k] # "unborn"
  PROVE  Keeps(k)
  BY DEF LiveInv, PlaceInv, First, links, Keeps, Executed, Wrapped, Counted, RunningOnce

LEMMA ThrowKeeps ==
  ASSUME LiveInv, NEW t \in Thread, Throw(t),
         NEW k \in Link, life[k] # "unborn"
  PROVE  Keeps(k)
  BY DEF LiveInv, PlaceInv, Throw, links, Keeps, Executed, Wrapped, Counted, TypeOK

LEMMA CompleteKeeps ==
  ASSUME LiveInv, NEW t \in Thread, Complete(t),
         NEW k \in Link, life[k] # "unborn"
  PROVE  Keeps(k)
  BY DEF Complete, Keeps, Executed, Wrapped, Counted

LEMMA ReturnKeeps ==
  ASSUME LiveInv, NEW t \in Thread, Return(t),
         NEW k \in Link, life[k] # "unborn"
  PROVE  Keeps(k)
  BY DEF Return, links, Keeps, Executed, Wrapped, Counted

LEMMA StutterKeeps ==
  ASSUME LiveInv, UNCHANGED vars,
         NEW k \in Link, life[k] # "unborn"
  PROVE  Keeps(k)
  BY DEF vars, Keeps, Executed, Wrapped, Counted

LEMMA StepKeeps ==
  ASSUME LiveInv, [Next]_vars, NEW k \in Link, life[k] # "unborn"
  PROVE  Keeps(k)
BY StepCases, AttachKeeps, WrapKeeps, RunKeeps, DropKeeps, EndRunKeeps, PostKeeps, DestructKeeps,
   DequeueKeeps, FirstKeeps, ThrowKeeps, CompleteKeeps, ReturnKeeps, StutterKeeps

\* A step that is neither a construction nor a completion leaves the counters.
LEMMA CountersUnchanged ==
  ASSUME [Next]_vars,
         ~ \E l \in handles, n \in Unborn, H \in SUBSET Handler, r \in Nat :
             Building /\ Attach(l, H, n, r),
         ~ \E t \in Thread : Complete(t)
  PROVE  UNCHANGED <<required, need>>
<1>1. CASE UNCHANGED vars
  BY <1>1 DEF vars
<1>2. CASE Next
  BY <1>2, StepCases DEF Wrap, Run, Drop, EndRun, Post, Destruct, Dequeue, First, Throw, Return, links
<1> QED BY <1>1, <1>2

\* A construction makes a fresh counter, a completion counts one handler more.
LEMMA CounterStep ==
  ASSUME IInv, [Next]_vars
  PROVE  CounterRight'
<1> USE DEF IInv, HeldInv, LiveInv, PlaceInv
<1>1. TypeOK /\ TypeOK'
  BY NextPlaceInv
<1>2. \A k \in Link : life[k] # "unborn" => Keeps(k)
  BY StepKeeps
<1>3. need'[Root] = 0
  BY <1>2, ChainAssumption DEF CounterRight, Born, Keeps
<1>4. \A k \in Link : /\ Counted(k) \in SUBSET Handler
                      /\ Counted(k)' \in SUBSET Handler
  BY DEF Counted, Executed, Wrapped
<1>5. \A k \in Link : Cardinality(Counted(k)) \in Nat /\ Cardinality(Counted(k)') \in Nat
  BY <1>4, CardinalityMonotone
<1>6. \A k \in Link : Counted(k) \subseteq Counted(k)' /\ Executed(k) \subseteq Executed(k)'
  <2> TAKE k \in Link
  <2>1. CASE life[k] # "unborn"
    BY <1>2, <2>1 DEF Keeps
  <2>2. CASE life[k] = "unborn"
    BY <2>2, ChainAssumption DEF Born, Counted, Executed, Wrapped
  <2> QED BY <2>1, <2>2
<1>7. ASSUME NEW k \in Link, required'[k] = required[k], need'[k] = need[k]
      PROVE  /\ need'[k] <= required'[k] + Cardinality(Counted(k)')
             /\ need'[k] # required'[k] => \E h \in Wrapped(k)' : calls'[h] > 0
  <2> DEFINE S == Counted(k)
             T == Counted(k)'
  <2>1. S \in SUBSET Handler /\ T \in SUBSET Handler /\ S \subseteq T
    BY <1>4, <1>6
  <2> HIDE DEF S, T
  <2>2. Cardinality(S) \in Nat /\ Cardinality(T) \in Nat /\ Cardinality(S) <= Cardinality(T)
    BY <2>1, CardinalityMonotone
  <2>3. need[k] <= required[k] + Cardinality(S)
    BY DEF CounterRight, S
  <2>4. need'[k] <= required'[k] + Cardinality(T)
    BY <1>1, <1>7, <2>2, <2>3 DEF TypeOK
  <2>5. need[k] # required[k] => Executed(k) # {}
    BY DEF CounterRight, Executed
  <2>6. need'[k] # required'[k] => \E h \in Wrapped(k)' : calls'[h] > 0
    BY <1>6, <1>7, <2>5 DEF Executed
  <2> QED BY <2>4, <2>6 DEF T
<1>8. ASSUME NEW l \in handles, NEW n \in Unborn, NEW H \in SUBSET Handler, NEW r \in Nat,
             Building, Attach(l, H, n, r)
      PROVE  CounterRight'
  <2>1. ASSUME NEW k \in Link, k # n
        PROVE  required'[k] = required[k] /\ need'[k] = need[k]
    BY <1>1, <1>8, <2>1 DEF Attach
  <2>2. required'[n] = r /\ need'[n] = r
    BY <1>1, <1>8 DEF Attach, TypeOK, Unborn
  <2>3. r <= r + Cardinality(Counted(n)')
    BY <1>5 DEF Unborn
  <2> QED BY <1>3, <1>7, <2>1, <2>2, <2>3 DEF CounterRight
<1>9. ASSUME NEW t \in Thread, Complete(t)
      PROVE  CounterRight'
  <2>1. PICK h \in Handler, l \in Link : running[t] = h /\ wraps[h] = l
    BY <1>9, ChainAssumption DEF Complete, TypeOK, Busy, Unused, Held
  <2> DEFINE S == Counted(l)
             T == Counted(l)'
  <2>2. calls[h] = 1
    BY <1>9, <2>1 DEF Complete, RunningOnce
  <2>3. ASSUME NEW k \in Link, k # l
        PROVE  required'[k] = required[k] /\ need'[k] = need[k]
    BY <1>1, <1>9, <2>1, <2>3 DEF Complete
  <2>4. /\ required'[l] = IF required[l] > 0 THEN required[l] - 1 ELSE 0
        /\ need'[l] = need[l]
    BY <1>1, <1>9, <2>1 DEF Complete, TypeOK
  <2>5. h \notin S
    BY <1>9, <2>1 DEF Complete, Counted
  <2>6. h \in T
    <3>1. /\ pc'[t] # "second"
          /\ UNCHANGED <<running, wraps, calls>>
      BY <1>1, <1>9 DEF Complete, TypeOK
    <3>2. \A u \in Thread : running[u] = h => u = t
      BY <2>1, ChainAssumption DEF RunningOnce
    <3> QED BY <2>1, <2>2, <3>1, <3>2 DEF Counted, Executed, Wrapped
  <2>7. S \in SUBSET Handler /\ T \in SUBSET Handler /\ S \cup {h} \subseteq T
    BY <1>4, <1>6, <2>1, <2>6
  <2>8. need[l] <= required[l] + Cardinality(S)
    BY <2>1 DEF CounterRight
  <2>9. h \in Wrapped(l)' /\ calls'[h] > 0
    BY <2>6 DEF Counted, Executed
  <2>10. Cardinality(S) + 1 <= Cardinality(T) /\ Cardinality(S) \in Nat /\ Cardinality(T) \in Nat
    <3> HIDE DEF S, T
    <3> QED BY <2>1, <2>5, <2>7, CardinalityOneMore, CardinalityMonotone
  <2>11. need'[l] <= required'[l] + Cardinality(T)
    BY <1>1, <2>1, <2>4, <2>8, <2>10 DEF TypeOK
  <2> QED BY <1>3, <1>7, <2>3, <2>9, <2>11 DEF CounterRight
<1>10. CASE UNCHANGED <<required, need>>
  BY <1>3, <1>7, <1>10 DEF CounterRight
<1> QED BY <1>8, <1>9, <1>10, CountersUnchanged

\* A link that may let its handlers go may do so for ever.
LEMMA EnoughStays ==
  ASSUME LiveInv, [Next]_vars, NEW k \in Link, life[k] # "unborn", Enough(k)
  PROVE  Enough(k)'
<1>1. Keeps(k)
  BY StepKeeps
<1>2. CASE Cardinality(Executed(k)) >= need[k]
  <2> DEFINE S == Executed(k)
             T == Executed(k)'
  <2>1. S \in SUBSET Handler /\ T \in SUBSET Handler /\ S \subseteq T
    BY <1>1 DEF Keeps, Executed, Wrapped
  <2>2. Cardinality(S) <= Cardinality(T) /\ Cardinality(S) \in Nat /\ Cardinality(T) \in Nat
    <3> HIDE DEF S, T
    <3> QED BY <2>1, CardinalityMonotone
  <2>3. need[k] \in Nat /\ need'[k] = need[k]
    BY <1>1 DEF Keeps, LiveInv, PlaceInv, TypeOK
  <2> QED BY <1>2, <2>2, <2>3 DEF Enough
<1>3. CASE life[k] = "dead" /\ Executed(k) = Wrapped(k)
  BY <1>1, <1>3 DEF Keeps, Enough, Executed
<1> QED BY <1>2, <1>3 DEF Enough

\* A handler is deferred once.
LEMMA HomeStays ==
  ASSUME LiveInv, [Next]_vars, NEW h \in Handler, home[h] # None
  PROVE  /\ home[h] \in Link /\ life[home[h]] # "unborn"
         /\ home'[h] = home[h]
<1> USE DEF LiveInv, PlaceInv
<1>1. home[h] \in Link /\ life[home[h]] # "unborn" /\ wraps[h] # None
  BY DEF TypeOK, Born, Unused
<1> SUFFICES home'[h] = home[h]
  BY <1>1
<1>2. ASSUME NEW l \in handles, NEW n \in Unborn, NEW H \in SUBSET Handler, NEW r \in Nat,
             Attach(l, H, n, r)
      PROVE  home'[h] = home[h]
  BY <1>1, <1>2 DEF Attach
<1>3. CASE UNCHANGED home
  BY <1>3
<1>4. CASE Next
  BY <1>2, <1>3, <1>4, StepCases DEF Wrap, Run, Drop, EndRun, Post, Destruct, Dequeue, First,
                           Throw, Complete, Return, links
<1>5. CASE UNCHANGED vars
  BY <1>5 DEF vars
<1> QED BY <1>4, <1>5

\* Handlers leave a link in three ways only.
LEMMA WaysOut ==
  ASSUME LiveInv, [Next]_vars, NEW h \in Handler, ~Released(h), Released(h)'
  PROVE  /\ home'[h] = home[h] /\ home[h] \in Link
         /\ \/ home[h] = Root
            \/ Destruct(home[h])
            \/ required'[home[h]] = 0
<1> USE DEF LiveInv, PlaceInv
<1>1. ASSUME NEW l \in handles, NEW n \in Unborn, NEW H \in SUBSET Handler, NEW r \in Nat,
             Attach(l, H, n, r)
      PROVE  FALSE
  BY <1>1 DEF Attach, Released, TypeOK
<1>2. CASE UNCHANGED <<home, deferred>>
  BY <1>2 DEF Released
<1>3. ASSUME NEW l \in Link, deferred' = [deferred EXCEPT ![l] = {}], UNCHANGED home
      PROVE  home[h] = l /\ home'[h] = l
  BY <1>3 DEF Released
<1>4. CASE Run
  BY <1>3, <1>4, ChainAssumption DEF Run, BeginRun
<1>5. ASSUME NEW l \in Link, Destruct(l)
      PROVE  home[h] = l /\ home'[h] = l
  BY <1>3, <1>5 DEF Destruct, BeginRun
<1>6. ASSUME NEW t \in Thread, Complete(t)
      PROVE  /\ home'[h] = home[h] /\ home[h] \in Link
             /\ required'[home[h]] = 0
  <2>1. PICK l \in Link : wraps[running[t]] = l
    BY <1>6, ChainAssumption DEF Complete, TypeOK, Busy, Unused, Held
  <2>2. CASE UNCHANGED deferred
    BY <1>2, <1>6, <2>2 DEF Complete, Released
  <2>3. CASE required'[l] = 0 /\ BeginRun(t, l)
    BY <1>3, <1>6, <2>1, <2>3 DEF Complete, BeginRun
  <2> QED BY <1>6, <2>1, <2>2, <2>3 DEF Complete
<1>7. CASE Next
  BY <1>1, <1>2, <1>4, <1>5, <1>6, <1>7, StepCases
     DEF Wrap, Drop, EndRun, Post, Dequeue, First, Throw, Return, links
<1>8. CASE UNCHANGED vars
  BY <1>2, <1>8 DEF vars
<1> QED BY <1>7, <1>8

\* Whichever way a handler leaves its link, the link may let it go.
LEMMA ReleasedStep ==
  ASSUME IInv, [Next]_vars
  PROVE  ReleasedRightly'
<1> USE DEF IInv, HeldInv
<1> SUFFICES ASSUME NEW h \in Handler, Released(h)'
             PROVE  Enough(home[h])'
  BY DEF ReleasedRightly
<1>1. CASE Released(h)
  <2>1. /\ home[h] \in Link /\ life[home[h]] # "unborn"
        /\ home'[h] = home[h]
    BY <1>1, HomeStays DEF Released
  <2>2. PICK k \in Link : k = home[h]
    BY <2>1
  <2>3. Enough(k)
    BY <1>1, <2>2 DEF ReleasedRightly
  <2>4. Enough(k)'
    BY <2>1, <2>2, <2>3, EnoughStays
  <2> QED BY <2>1, <2>2, <2>4
<1>2. CASE ~Released(h)
  <2>1. PICK k \in Link : /\ home[h] = k /\ home'[h] = k
                          /\ k = Root \/ Destruct(k) \/ required'[k] = 0
    BY <1>2, WaysOut
  <2> SUFFICES Enough(k)'
    BY <2>1
  <2> DEFINE S == Counted(k)'
             T == Executed(k)'
  <2>2. S \in SUBSET Handler /\ T \in SUBSET Handler /\ S \subseteq T
    BY DEF Counted, Executed, Wrapped
  <2>3. Cardinality(S) <= Cardinality(T) /\ Cardinality(S) \in Nat /\ Cardinality(T) \in Nat
    <3> HIDE DEF S, T
    <3> QED BY <2>2, CardinalityMonotone
  <2>4. CounterRight' /\ TypeOK'
    BY CounterStep, NextPlaceInv DEF LiveInv, PlaceInv
  <2>5. CASE k = Root
    BY <2>3, <2>4, <2>5 DEF CounterRight, Enough
  <2>6. CASE required'[k] = 0
    BY <2>3, <2>4, <2>6 DEF CounterRight, Enough, TypeOK
  <2>7. CASE Destruct(k)
    <3>1. life'[k] = "dead" /\ UNCHANGED <<wraps, calls>>
      BY <2>7 DEF Destruct, workers, LiveInv, PlaceInv, TypeOK
    <3>2. ASSUME NEW g \in Handler, wraps[g] = k
          PROVE  calls[g] > 0
      <4>1. ~Held(g)
        BY <2>7, <3>2 DEF Destruct, Referenced
      <4>2. wraps[g] # None
        BY <3>2, ChainAssumption
      <4> QED BY <4>1, <4>2 DEF NotLost, Held, LiveInv, PlaceInv, TypeOK, TodoOnce
    <3> QED BY <3>1, <3>2 DEF Enough, Executed, Wrapped
  <2> QED BY <2>1, <2>5, <2>6, <2>7
<1> QED BY <1>1, <1>2

\* Nothing is put into a link that has counted its completions: links are added
\* only before any handler has left.
LEMMA NothingHeldBackStep ==
  ASSUME IInv, [Next]_vars
  PROVE  NothingHeldBack'
<1> USE DEF IInv, HeldInv, LiveInv, PlaceInv
<1>1. ASSUME NEW l \in handles, NEW n \in Unborn, NEW H \in SUBSET Handler, NEW r \in Nat,
             Building, Attach(l, H, n, r)
      PROVE  NothingHeldBack'
  <2>1. ASSUME NEW k \in Link
        PROVE  need[k] = required[k]
    <3>1. ASSUME NEW h \in Handler, wraps[h] = k
          PROVE  calls[h] = 0
      BY <1>1, <3>1, ChainAssumption DEF Building, DeferredOnce, Fresh
    <3> QED BY <3>1 DEF CounterRight, Wrapped
  <2>2. ASSUME NEW k \in Link, need'[k] > 0
        PROVE  required'[k] # 0
    BY <1>1, <2>1, <2>2 DEF Attach, TypeOK
  <2> QED BY <2>2 DEF NothingHeldBack
<1>2. CASE UNCHANGED <<need, required>> /\ \A l \in Link : deferred'[l] \subseteq deferred[l]
  BY <1>2 DEF NothingHeldBack
<1>3. ASSUME NEW t \in Thread, Complete(t)
      PROVE  NothingHeldBack'
  <2>1. PICK l \in Link : wraps[running[t]] = l
    BY <1>3, ChainAssumption DEF Complete, TypeOK, Busy, Unused, Held
  <2>2. CASE required'[l] > 0 /\ UNCHANGED deferred
    BY <1>3, <2>1, <2>2 DEF Complete, NothingHeldBack
  <2>3. CASE required'[l] = 0 /\ BeginRun(t, l)
    BY <1>3, <2>1, <2>3 DEF Complete, BeginRun, NothingHeldBack, TypeOK
  <2> QED BY <1>3, <2>1, <2>2, <2>3 DEF Complete
<1>4. CASE Run
  BY <1>2, <1>4 DEF Run, BeginRun
<1>5. ASSUME NEW l \in Link, Destruct(l)
      PROVE  NothingHeldBack'
  BY <1>2, <1>5 DEF Destruct, BeginRun
<1>6. CASE Next
  BY <1>1, <1>2, <1>3, <1>4, <1>5, <1>6, StepCases
     DEF Wrap, Drop, EndRun, Post, Dequeue, First, Throw, Return, links
<1>7. CASE UNCHANGED vars
  BY <1>2, <1>7 DEF vars
<1> QED BY <1>6, <1>7

------------------------------------------------------------------------------
(* Theorems.                                                               *)

LEMMA InitIInv == Init => IInv
<1> SUFFICES ASSUME Init PROVE IInv
  OBVIOUS
<1> USE ChainAssumption DEF Init
<1>1. TypeOK
  BY DEF TypeOK
<1>2. Busy /\ Unused /\ DeferredOnce /\ TodoOnce /\ ReadyOnce /\ RunningOnce /\ AtMostOnce
  BY DEF Busy, Unused, Held, DeferredOnce, TodoOnce, ReadyOnce, RunningOnce, AtMostOnce
<1>3. HandlesLive /\ KeptAlive /\ Born
  BY DEF HandlesLive, KeptAlive, Held, Born
<1>4. FramesEmpty /\ NotLost
  BY DEF FramesEmpty, NotLost
<1>5. CounterRight
  <2>1. \A l \in Link : Counted(l) \in SUBSET Handler
    BY DEF Counted, Executed, Wrapped
  <2>2. \A l \in Link : Cardinality(Counted(l)) \in Nat
    BY <2>1, CardinalityMonotone
  <2> QED BY <2>2 DEF CounterRight
<1>6. ReleasedRightly /\ NothingHeldBack
  BY DEF ReleasedRightly, Released, NothingHeldBack
<1> QED BY <1>1, <1>2, <1>3, <1>4, <1>5, <1>6 DEF IInv, HeldInv, LiveInv, PlaceInv

LEMMA NextIInv == IInv /\ [Next]_vars => IInv'
BY NextHeldInv, CounterStep, ReleasedStep, NothingHeldBackStep DEF IInv

LEMMA Invariance == Spec => []IInv
BY InitIInv, NextIInv, PTL DEF Spec

\* The variables keep their types.
THEOREM ChainTypes == Spec => []TypeOK
<1>1. IInv => TypeOK
  BY DEF IInv, HeldInv, LiveInv, PlaceInv
<1> QED BY <1>1, Invariance, PTL

\* No handler is executed twice, with any number of threads, links and
\* handlers and whatever is forced, thrown and let go.
THEOREM ChainAtMostOnce == Spec => []AtMostOnce
<1>1. IInv => AtMostOnce
  BY DEF IInv, HeldInv, LiveInv, PlaceInv
<1> QED BY <1>1, Invariance, PTL

\* complete() is never called on a link that is gone.
THEOREM ChainCompletesLiveLink == Spec => []CompletesLiveLink
<1>1. IInv => CompletesLiveLink
  BY DEF IInv, HeldInv, LiveInv, PlaceInv, CompletesLiveLink, KeptAlive, Held, Busy
<1> QED BY <1>1, Invariance, PTL

\* A handler put behind a link is not handed out before the handlers the link
\* waits for were executed.
THEOREM ChainBarrier == Spec => []Barrier
<1>1. IInv => Barrier
  BY DEF IInv, Barrier, ReleasedRightly, Enough
<1> QED BY <1>1, Invariance, PTL

\* A link that counted all its completions has handed out its handlers.
THEOREM ChainNothingHeldBack == Spec => []NothingHeldBack
<1>1. IInv => NothingHeldBack
  BY DEF IInv
<1> QED BY <1>1, Invariance, PTL
==============================================================================
