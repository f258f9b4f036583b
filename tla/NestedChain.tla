----------------------------- MODULE NestedChain -----------------------------
(***************************************************************************)
(* Chains inside a chain (common/rrpc/async_ops.hpp, wrap_and_post):       *)
(*                                                                         *)
(*   c_k   = chain(inherit_service).then(h_k)   for every k of a range,    *)
(*   outer = chain(service).then(front).any(c_1 ... c_n, need).then(after) *)
(*                                                                         *)
(* and the threads of the io_service that run them.  The links are those   *)
(* of module Chain: "root", "current", "next" and "last" of the outer      *)
(* chain, "inner", "mid" and "tail" of c_k.  Running a handler, with the   *)
(* completions it wraps, is one step here: Chain has the interleavings     *)
(* inside it.                                                              *)
(***************************************************************************)
EXTENDS Naturals, FiniteSets

CONSTANT Chains   \* inner chains

ASSUME NestedAssumption == IsFiniteSet(Chains)

Outer == {<<"root">>, <<"current">>, <<"next">>, <<"last">>}
Inner(k) == {<<"inner", k>>, <<"mid", k>>, <<"tail", k>>}
Link == Outer \cup UNION {Inner(k) : k \in Chains}
Front == <<"front">>
After == <<"after">>

VARIABLES
  range,     \* the inner chains of this program; it may have none
  need,      \* the required argument of any()
  service,   \* "outer" if that chain has an io_service, and the inner chains that have
  required,  \* _required of every link
  deferred,  \* _deferred_handlers of every link
  dead,      \* links destroyed
  held,      \* chain objects the program holds: "outer" and inner chains
  wrapped,   \* inner chains put into the outer one
  built,     \* the outer chain is complete
  io,        \* handlers posted
  ran,       \* handlers executed
  own,       \* history: whether the program ran an inner chain on its own, with an
             \* io_service ("set") or with none ("null")
  crashed    \* a null io_service was used

vars == <<range, need, service, required, deferred, dead, held, wrapped, built, io, ran, own, crashed>>

Init ==
  /\ range \in SUBSET Chains
  /\ need \in 0 .. Cardinality(range) + 1
  /\ service \in SUBSET ({"outer"} \cup range)
  /\ required = [l \in Link |-> IF l[1] \in {"root", "inner"} THEN 0
                                ELSE IF l = <<"next">> THEN need ELSE 1]
  /\ deferred = [l \in Link |-> IF l = <<"root">> THEN {Front}
                                ELSE IF l[1] = "inner" /\ l[2] \in range THEN {<<"h", l[2]>>} ELSE {}]
  /\ dead = {}
  /\ held = {"outer"} \cup range
  /\ wrapped = {}
  /\ built = FALSE
  /\ io = {}
  /\ ran = {}
  /\ own = {}
  /\ crashed = FALSE

\* The links whose complete() is called after the handler.  The noop was wrapped
\* by the outer chain's next link and then by the inner chain's own.
Completes(x) ==
  CASE x = Front -> {<<"current">>}
    [] x = After -> {<<"last">>}
    [] x[1] = "run" -> {}
    [] x[1] = "h" -> {<<"mid", x[2]>>}
    [] x[1] = "noop" -> {<<"next">>, <<"tail", x[2]>>}

\* The links a handler keeps alive: what it completes, and the chain it runs.
Keeps(x) == Completes(x) \cup IF x[1] = "run" THEN {<<"inner", x[2]>>, <<"mid", x[2]>>} ELSE {}

\* The outer chain object is what then() returned at last: it holds that link and
\* the root; the links between were in temporaries, gone once it is built.
Referenced(l) ==
  \/ l \in {<<"root">>, <<"last">>} /\ "outer" \in held
  \/ l[1] \in {"inner", "mid"} /\ l[2] \in held
  \/ \E x \in io \cup UNION {deferred[m] : m \in Link \ dead} : l \in Keeps(x)

\* Post what is deferred in the links of L, behind what is posted already; with
\* no io_service that crashes.
RunLinks(L, posted) ==
  LET owner(l) == IF l \in Outer THEN "outer" ELSE l[2]
  IN  /\ deferred' = [l \in Link |-> IF l \in L THEN {} ELSE deferred[l]]
      /\ crashed' = \E l \in L : deferred[l] # {} /\ owner(l) \notin service
      /\ io' = posted \cup UNION {deferred[l] : l \in L}

Running == ~crashed

\* Fault: the noop is put where the inner chain begins.
WrapAtRoot(k) ==
  /\ Running /\ ~built /\ k \notin wrapped /\ deferred[<<"inner", k>>] # {}
  /\ wrapped' = wrapped \cup {k}
  /\ service' = IF "outer" \in service THEN service \cup {k} ELSE service
  /\ crashed' \in IF {"outer", k} \cap service # {} THEN {FALSE} ELSE BOOLEAN
  /\ deferred' = [deferred EXCEPT ![<<"current">>] = @ \cup {<<"run", k>>},
                                  ![<<"inner", k>>] = @ \cup {<<"noop", k>>}]
  /\ UNCHANGED <<range, need, required, dead, held, built, io, ran, own>>

\* Fault: the inner chain is run with what is in front of any().
WrapInFront(k) ==
  /\ Running /\ ~built /\ k \notin wrapped /\ deferred[<<"inner", k>>] # {}
  /\ wrapped' = wrapped \cup {k}
  /\ service' = IF "outer" \in service THEN service \cup {k} ELSE service
  /\ crashed' \in IF {"outer", k} \cap service # {} THEN {FALSE} ELSE BOOLEAN
  /\ deferred' = [deferred EXCEPT ![<<"root">>] = @ \cup {<<"run", k>>},
                                  ![<<"mid", k>>] = @ \cup {<<"noop", k>>}]
  /\ UNCHANGED <<range, need, required, dead, held, built, io, ran, own>>

\* Fault: the io_service is not inherited.
WrapAlone(k) ==
  /\ Running /\ ~built /\ k \notin wrapped /\ deferred[<<"inner", k>>] # {}
  /\ wrapped' = wrapped \cup {k}
  /\ deferred' = [deferred EXCEPT ![<<"current">>] = @ \cup {<<"run", k>>},
                                  ![<<"mid", k>>] = @ \cup {<<"noop", k>>}]
  /\ UNCHANGED <<range, need, service, required, dead, held, built, io, ran, own, crashed>>

\* wrap_and_post of a chain that is not running yet: it gets the io_service unless
\* it has one of its own, is to be run when the current link is, and tells the next
\* link when it is done.  A chain that has none and finds none to inherit makes a
\* reference of a null pointer, which may crash.
Wrap(k) ==
  /\ Running /\ ~built /\ k \notin wrapped /\ deferred[<<"inner", k>>] # {}
  /\ wrapped' = wrapped \cup {k}
  /\ service' = IF "outer" \in service THEN service \cup {k} ELSE service
  /\ crashed' \in IF {"outer", k} \cap service # {} THEN {FALSE} ELSE BOOLEAN
  /\ deferred' = [deferred EXCEPT ![<<"current">>] = @ \cup {<<"run", k>>},
                                  ![<<"mid", k>>] = @ \cup {<<"noop", k>>}]
  /\ UNCHANGED <<range, need, required, dead, held, built, io, ran, own>>

\* then(after), once the whole range is wrapped.
Then ==
  /\ Running /\ ~built /\ wrapped = range
  /\ built' = TRUE
  /\ deferred' = [deferred EXCEPT ![<<"next">>] = {After}]
  /\ UNCHANGED <<range, need, service, required, dead, held, wrapped, io, ran, own, crashed>>

\* chain::run of the outer chain, or of one of the inner ones.
RunOuter ==
  /\ Running /\ built /\ "outer" \in held /\ deferred[<<"root">>] # {}
  /\ RunLinks({<<"root">>}, io)
  /\ UNCHANGED <<range, need, service, required, dead, held, wrapped, built, ran, own>>

RunInner(k) ==
  /\ Running /\ k \in held /\ deferred[<<"inner", k>>] # {} /\ (k \in wrapped => built)
  /\ RunLinks({<<"inner", k>>}, io)
  /\ own' = own \cup {IF k \in service THEN "set" ELSE "null"}
  /\ UNCHANGED <<range, need, service, required, dead, held, wrapped, built, ran>>

\* A chain object goes out of scope.
Drop(c) ==
  /\ Running /\ built /\ c \in held
  /\ held' = held \ {c}
  /\ UNCHANGED <<range, need, service, required, deferred, dead, wrapped, built, io, ran, own, crashed>>

\* A thread runs a handler: a link it completes for the last time, or that is
\* complete already, hands out what is deferred in it.
Execute(x) ==
  /\ Running /\ x \in io
  /\ LET left(l) == IF l \in Completes(x) /\ required[l] > 0 THEN required[l] - 1 ELSE required[l]
         complete == {l \in Completes(x) : left(l) = 0}
         started == IF x[1] = "run" THEN {<<"inner", x[2]>>} ELSE {}
     IN  /\ required' = [l \in Link |-> left(l)]
         /\ RunLinks(complete \cup started, io \ {x})
  /\ ran' = ran \cup {x}
  /\ UNCHANGED <<range, need, service, dead, held, wrapped, built, own>>

\* Fault: a link that is destroyed drops what is deferred in it.
DestructSilent(l) ==
  /\ Running /\ built /\ l \notin dead /\ ~Referenced(l)
  /\ dead' = dead \cup {l}
  /\ deferred' = [deferred EXCEPT ![l] = {}]
  /\ UNCHANGED <<range, need, service, required, held, wrapped, built, io, ran, own, crashed>>

\* The last reference to a link goes: its destructor runs what is left.
Destruct(l) ==
  /\ Running /\ built /\ l \notin dead /\ ~Referenced(l)
  /\ dead' = dead \cup {l}
  /\ RunLinks({l}, io)
  /\ UNCHANGED <<range, need, service, required, held, wrapped, built, ran, own>>

Next ==
  \/ \E k \in range : Wrap(k) \/ RunInner(k)
  \/ Then \/ RunOuter
  \/ \E c \in held : Drop(c)
  \/ \E x \in io : Execute(x)
  \/ \E l \in Link : Destruct(l)

Spec == Init /\ [][Next]_vars

\* The threads of the io_service go on, a link without references is destroyed
\* at once, and the program builds the chain and lets it go.
Fairness ==
  /\ WF_vars(\E x \in io : Execute(x))
  /\ WF_vars(\E l \in Link : Destruct(l))
  /\ WF_vars(Then \/ \E k \in range : Wrap(k))
  /\ WF_vars(\E c \in held : Drop(c))

LiveSpec == Spec /\ Fairness

------------------------------------------------------------------------------
(* Properties.                                                             *)

\* What is behind any(range, need) runs when at least that many inner chains are
\* done with their own handlers, or all of them, even if the program ran some on
\* its own or never ran the outer one.
AfterInner ==
  LET done == {k \in range : <<"h", k>> \in ran}
      asked == IF need > Cardinality(range) THEN Cardinality(range) ELSE need
  IN  /\ \A k \in range : <<"noop", k>> \in ran => k \in done
      /\ After \in ran => Cardinality(done) >= asked

\* It runs after what is in front of any(), unless the program runs an inner
\* chain on its own, or the range is empty and nothing ties the two together.
FrontFirst == After \in ran => Front \in ran \/ own # {} \/ range = {}

\* What is behind any() waits for what it wraps and for what is in front.
AfterWaits == AfterInner /\ FrontFirst

\* A null io_service is used only by a program that runs an inner chain while that
\* has none, or whose outer chain has none.
NoNullService == crashed => "null" \in own \/ "outer" \notin service

\* Once built, a chain that does not crash runs every handler in it, whether it is
\* run or only let go, and though any() may require more than there are.
EverythingRuns ==
  built ~> (crashed \/ {Front, After} \cup ({"h", "noop"} \X range) \subseteq ran)
==============================================================================
