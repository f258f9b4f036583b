-------------------------- MODULE NestedChainProofs --------------------------
(***************************************************************************)
(* Proofs about NestedChain, for any finite set of inner chains.           *)
(*                                                                         *)
(* A handler is in one of three places: deferred in the link it was put    *)
(* into, posted, or executed.  PlaceInv says which handlers a link may     *)
(* have and that none gets lost; the rest of the invariant says what must  *)
(* have happened before a handler leaves its link.                         *)
(***************************************************************************)
EXTENDS NestedChain, FiniteSetTheorems, TLAPS

Run(k) == <<"run", k>>
H(k) == <<"h", k>>
Noop(k) == <<"noop", k>>
Root == <<"root">>
Current == <<"current">>
NextLink == <<"next">>
Last == <<"last">>
InnerLink(k) == <<"inner", k>>
Mid(k) == <<"mid", k>>
TailLink(k) == <<"tail", k>>

\* Handlers that have left their link.
Gone(x) == x \in io \/ x \in ran

TypeOK ==
  /\ range \subseteq Chains
  /\ need \in Nat
  /\ required \in [Link -> Nat]
  /\ DOMAIN deferred = Link
  /\ wrapped \subseteq range
  /\ built \in BOOLEAN
  /\ crashed \in BOOLEAN
  /\ dead \subseteq Link
  /\ dead # {} => built
  /\ built => wrapped = range

\* The handlers of the program so far.
Handler ==
  {Front, After} \cup {Run(k) : k \in wrapped} \cup {H(k) : k \in range} \cup {Noop(k) : k \in wrapped}

\* What is deferred, and where; what was deferred in a destroyed link is posted.
PlaceInv ==
  /\ deferred[Root] \subseteq {Front}
  /\ deferred[Current] \subseteq {Run(k) : k \in wrapped}
  /\ deferred[NextLink] \subseteq {After}
  /\ deferred[Last] = {}
  /\ \A k \in Chains :
       /\ deferred[InnerLink(k)] \subseteq (IF k \in range THEN {H(k)} ELSE {})
       /\ deferred[Mid(k)] \subseteq (IF k \in wrapped THEN {Noop(k)} ELSE {})
       /\ deferred[TailLink(k)] = {}
  /\ io \cup ran \subseteq Handler
  /\ \A l \in dead : deferred[l] = {}

\* No handler is lost.
ReachInv ==
  /\ Front \in deferred[Root] \/ Gone(Front)
  /\ \A k \in range : H(k) \in deferred[InnerLink(k)] \/ Gone(H(k))
  /\ \A k \in wrapped : /\ Run(k) \in deferred[Current] \/ Gone(Run(k))
                        /\ Noop(k) \in deferred[Mid(k)] \/ Gone(Noop(k))

\* The inner chains that have told the outer one that they are done.
Told == {k \in range : Noop(k) \in ran}

\* A noop is in one place, and runs once.
NoopInv ==
  /\ \A k \in range : Noop(k) \in deferred[Mid(k)] => ~Gone(Noop(k))
  /\ \A k \in range : Noop(k) \in io => Noop(k) \notin ran
  /\ need <= required[NextLink] + Cardinality(Told)

\* What was executed before a handler left its link.
OrderInv ==
  /\ \A k \in range : Gone(Noop(k)) => H(k) \in ran
  /\ \A k \in range : Gone(H(k)) => Front \in ran \/ own # {}
  /\ \A k \in range : Gone(Run(k)) => Front \in ran
  /\ \A k \in range : Run(k) \in ran => deferred[InnerLink(k)] = {}
  /\ Gone(After) => (need <= Cardinality(Told) \/ Told = range)
  /\ Gone(After) => (Told # {} \/ range = {})

\* An inner chain has the io_service of the outer one once it is wrapped.
ServiceInv ==
  /\ "outer" \in service => wrapped \subseteq service
  /\ NoNullService

IInv == TypeOK /\ PlaceInv /\ ReachInv /\ NoopInv /\ OrderInv /\ ServiceInv

------------------------------------------------------------------------------
(* Links and handlers.                                                     *)

LEMMA LinkNames ==
  /\ Root # Current /\ Root # NextLink /\ Root # Last
  /\ Current # NextLink /\ Current # Last /\ NextLink # Last
  /\ \A k : /\ InnerLink(k) # Root /\ InnerLink(k) # Current /\ InnerLink(k) # NextLink
            /\ InnerLink(k) # Last
            /\ Mid(k) # Root /\ Mid(k) # Current /\ Mid(k) # NextLink /\ Mid(k) # Last
            /\ TailLink(k) # Root /\ TailLink(k) # Current /\ TailLink(k) # NextLink
            /\ TailLink(k) # Last
  /\ \A j, k : /\ InnerLink(j) # Mid(k) /\ InnerLink(j) # TailLink(k) /\ Mid(j) # TailLink(k)
               /\ InnerLink(j) = InnerLink(k) => j = k
               /\ Mid(j) = Mid(k) => j = k
               /\ TailLink(j) = TailLink(k) => j = k
BY DEF Root, Current, NextLink, Last, InnerLink, Mid, TailLink

LEMMA HandlerNames ==
  /\ Front # After
  /\ \A k : /\ Run(k) # Front /\ Run(k) # After /\ H(k) # Front /\ H(k) # After
            /\ Noop(k) # Front /\ Noop(k) # After
  /\ \A j, k : /\ Run(j) # H(k) /\ Run(j) # Noop(k) /\ H(j) # Noop(k)
               /\ Run(j) = Run(k) => j = k
               /\ H(j) = H(k) => j = k
               /\ Noop(j) = Noop(k) => j = k
BY DEF Front, After, Run, H, Noop

LEMMA LinkIs ==
  /\ Outer = {Root, Current, NextLink, Last}
  /\ Root \in Link /\ Current \in Link /\ NextLink \in Link /\ Last \in Link
  /\ \A k \in Chains : InnerLink(k) \in Link /\ Mid(k) \in Link /\ TailLink(k) \in Link
  /\ \A l \in Link : \/ l \in Outer
                     \/ \E k \in Chains : l = InnerLink(k) \/ l = Mid(k) \/ l = TailLink(k)
BY DEF Link, Outer, Inner, Root, Current, NextLink, Last, InnerLink, Mid, TailLink

LEMMA CompletesIs ==
  /\ Completes(Front) = {Current} /\ Completes(After) = {Last}
  /\ \A k : /\ Completes(Run(k)) = {} /\ Completes(H(k)) = {Mid(k)}
            /\ Completes(Noop(k)) = {NextLink, TailLink(k)}
BY DEF Completes, Front, After, Run, H, Noop, Current, Last, Mid, NextLink, TailLink

\* What a link without references does not wait for.
LEMMA Unreferenced ==
  ASSUME NEW l \in Link, ~Referenced(l), NEW x, l \in Keeps(x)
  PROVE  x \notin io /\ \A m \in Link \ dead : x \notin deferred[m]
BY DEF Referenced

LEMMA KeepsIs ==
  /\ Current \in Keeps(Front)
  /\ \A k : InnerLink(k) \in Keeps(Run(k)) /\ Mid(k) \in Keeps(H(k)) /\ NextLink \in Keeps(Noop(k))
<1>1. \A x : Completes(x) \subseteq Keeps(x)
  BY DEF Keeps
<1>2. \A k : InnerLink(k) \in Keeps(Run(k))
  BY DEF Keeps, Run, InnerLink
<1> QED BY <1>1, <1>2, CompletesIs

------------------------------------------------------------------------------
(* Steps that let the handlers of some links go.                           *)

Release(L) ==
  /\ L \subseteq Link
  /\ DOMAIN deferred' = Link
  /\ \A l \in Link : deferred'[l] = IF l \in L THEN {} ELSE deferred[l]
  /\ \A y : y \in io' \/ y \in ran' <=> Gone(y) \/ \E l \in L : y \in deferred[l]
  /\ ran \subseteq ran'
  /\ UNCHANGED <<range, need, wrapped, built>>

Owner(l) == IF l \in Outer THEN "outer" ELSE l[2]

LEMMA RunLinksIs ==
  ASSUME NEW L \in SUBSET Link, NEW P, RunLinks(L, P)
  PROVE  /\ DOMAIN deferred' = Link
         /\ \A l \in Link : deferred'[l] = IF l \in L THEN {} ELSE deferred[l]
         /\ \A y : y \in io' <=> y \in P \/ \E l \in L : y \in deferred[l]
         /\ crashed' = \E l \in L : deferred[l] # {} /\ Owner(l) \notin service
<1>1. /\ deferred' = [l \in Link |-> IF l \in L THEN {} ELSE deferred[l]]
      /\ crashed' = \E l \in L : deferred[l] # {} /\ Owner(l) \notin service
      /\ io' = P \cup UNION {deferred[l] : l \in L}
  BY DEF RunLinks, Owner
<1>2. DOMAIN deferred' = Link /\ \A l \in Link : deferred'[l] = IF l \in L THEN {} ELSE deferred[l]
  BY <1>1
<1>3. \A y : y \in io' <=> y \in P \/ \E l \in L : y \in deferred[l]
  BY <1>1
<1> QED BY <1>1, <1>2, <1>3

\* What may be deferred at all.
LEMMA DeferredHandlers ==
  ASSUME PlaceInv
  PROVE  \A l \in Link : deferred[l] \subseteq Handler
<1> SUFFICES ASSUME NEW l \in Link PROVE deferred[l] \subseteq Handler
  OBVIOUS
<1>1. CASE l \in Outer
  BY <1>1, LinkIs DEF PlaceInv, Handler
<1>2. ASSUME NEW k \in Chains, l = InnerLink(k) \/ l = Mid(k) \/ l = TailLink(k)
      PROVE  deferred[l] \subseteq Handler
  BY <1>2 DEF PlaceInv, Handler
<1> QED BY <1>1, <1>2, LinkIs

LEMMA ReleaseKeepsPlaces ==
  ASSUME TypeOK, PlaceInv, ReachInv, NEW L, Release(L), \A l \in dead' : l \in dead \cup L,
         dead' \subseteq Link
  PROVE  PlaceInv' /\ ReachInv'
<1>1. /\ \A l \in Link : deferred'[l] \subseteq deferred[l] /\ (l \in L => deferred'[l] = {})
      /\ \A l \in Link : l \notin L => deferred'[l] = deferred[l]
      /\ \A y : y \in io' \/ y \in ran' <=> Gone(y) \/ \E l \in L : y \in deferred[l]
      /\ L \subseteq Link
      /\ UNCHANGED <<range, wrapped>>
  BY DEF Release
<1>2. Handler' = Handler
  BY <1>1 DEF Handler
<1>3. io' \cup ran' \subseteq Handler
  <2> SUFFICES ASSUME NEW y, y \in io' \/ y \in ran' PROVE y \in Handler
    OBVIOUS
  <2>1. CASE Gone(y)
    BY <2>1 DEF Gone, PlaceInv
  <2>2. CASE \E l \in L : y \in deferred[l]
    BY <1>1, <2>2, DeferredHandlers
  <2> QED BY <1>1, <2>1, <2>2
<1>4. \A l \in dead' : deferred'[l] = {}
  BY <1>1 DEF PlaceInv
<1>5. PlaceInv'
  <2>1. /\ deferred'[Root] \subseteq {Front}
        /\ deferred'[Current] \subseteq {Run(k) : k \in wrapped}
        /\ deferred'[NextLink] \subseteq {After}
        /\ deferred'[Last] = {}
    BY <1>1, LinkIs DEF PlaceInv
  <2>2. ASSUME NEW k \in Chains
        PROVE  /\ deferred'[InnerLink(k)] \subseteq (IF k \in range THEN {H(k)} ELSE {})
               /\ deferred'[Mid(k)] \subseteq (IF k \in wrapped THEN {Noop(k)} ELSE {})
               /\ deferred'[TailLink(k)] = {}
    BY <1>1, LinkIs DEF PlaceInv
  <2> QED BY <1>1, <1>2, <1>3, <1>4, <2>1, <2>2 DEF PlaceInv
<1>6. ASSUME NEW l \in Link, NEW x, x \in deferred[l] \/ Gone(x)
      PROVE  x \in deferred'[l] \/ x \in io' \/ x \in ran'
  BY <1>1, <1>6
<1>7. ReachInv'
  <2>1. ASSUME NEW k \in range PROVE H(k) \in deferred'[InnerLink(k)] \/ H(k) \in io' \/ H(k) \in ran'
    <3>1. InnerLink(k) \in Link
      BY LinkIs DEF TypeOK
    <3> QED BY <1>6, <3>1 DEF ReachInv
  <2>2. ASSUME NEW k \in wrapped
        PROVE  /\ Run(k) \in deferred'[Current] \/ Run(k) \in io' \/ Run(k) \in ran'
               /\ Noop(k) \in deferred'[Mid(k)] \/ Noop(k) \in io' \/ Noop(k) \in ran'
    <3>1. Mid(k) \in Link /\ Current \in Link
      BY LinkIs DEF TypeOK
    <3> QED BY <1>6, <3>1 DEF ReachInv
  <2>3. Front \in deferred'[Root] \/ Front \in io' \/ Front \in ran'
    BY <1>6, LinkIs DEF ReachInv
  <2> QED BY <1>1, <2>1, <2>2, <2>3 DEF ReachInv, Gone
<1> QED BY <1>5, <1>7

\* Execute, in these terms.
Started(x) == IF x[1] = "run" THEN {<<"inner", x[2]>>} ELSE {}

LEMMA HandlerIs ==
  ASSUME TypeOK, PlaceInv, NEW x \in io
  PROVE  /\ \/ x = Front \/ x = After
            \/ \E k \in wrapped : x = Run(k) \/ x = Noop(k)
            \/ \E k \in range : x = H(k)
         /\ Completes(x) \cup Started(x) \subseteq Link
<1>1. \/ x = Front \/ x = After
      \/ \E k \in wrapped : x = Run(k) \/ x = Noop(k)
      \/ \E k \in range : x = H(k)
  BY DEF PlaceInv, Handler
<1>2. Started(Front) = {} /\ Started(After) = {}
      /\ \A k : Started(Run(k)) = {InnerLink(k)} /\ Started(H(k)) = {} /\ Started(Noop(k)) = {}
  BY DEF Started, Front, After, Run, H, Noop, InnerLink
<1>3. CASE x = Front \/ x = After
  BY <1>2, <1>3, CompletesIs, LinkIs
<1>4. CASE \E k \in wrapped : x = Run(k) \/ x = Noop(k)
  BY <1>2, <1>4, CompletesIs, LinkIs DEF TypeOK
<1>5. CASE \E k \in range : x = H(k)
  BY <1>2, <1>5, CompletesIs, LinkIs DEF TypeOK
<1> QED BY <1>1, <1>3, <1>4, <1>5

LEMMA ExecuteIs ==
  ASSUME TypeOK, PlaceInv, NEW x \in io, Execute(x)
  PROVE  \E L \in SUBSET (Completes(x) \cup Started(x)) :
           /\ Release(L)
           /\ Started(x) \subseteq L
           /\ \A l \in L : l \in Started(x) \/ required'[l] = 0
           /\ required' = [l \in Link |-> IF l \in Completes(x) /\ required[l] > 0
                                        THEN required[l] - 1 ELSE required[l]]
           /\ ran' = ran \cup {x}
           /\ \A y : y \in io' <=> (y \in io /\ y # x) \/ \E l \in L : y \in deferred[l]
           /\ crashed' = \E l \in L : deferred[l] # {} /\ Owner(l) \notin service
           /\ UNCHANGED <<service, dead, own>>
<1> DEFINE left(l) == IF l \in Completes(x) /\ required[l] > 0 THEN required[l] - 1 ELSE required[l]
           L == {l \in Completes(x) : left(l) = 0} \cup Started(x)
<1>1. /\ required' = [l \in Link |-> left(l)]
      /\ RunLinks(L, io \ {x})
      /\ ran' = ran \cup {x}
      /\ UNCHANGED <<range, need, service, dead, held, wrapped, built, own>>
  BY DEF Execute, Started
<1>2. Completes(x) \cup Started(x) \subseteq Link
  BY HandlerIs
<1>3. L \in SUBSET (Completes(x) \cup Started(x)) /\ L \in SUBSET Link /\ Started(x) \subseteq L
  BY <1>2
<1>4. \A l \in L : l \in Started(x) \/ required'[l] = 0
  BY <1>1, <1>2
<1> HIDE DEF L
<1>5. /\ DOMAIN deferred' = Link
      /\ \A l \in Link : deferred'[l] = IF l \in L THEN {} ELSE deferred[l]
      /\ \A y : y \in io' <=> y \in io \ {x} \/ \E l \in L : y \in deferred[l]
      /\ crashed' = \E l \in L : deferred[l] # {} /\ Owner(l) \notin service
  <2>1. RunLinks(L, io \ {x}) /\ L \in SUBSET Link
    BY <1>1, <1>3
  <2> DEFINE P == io \ {x}
  <2>2. RunLinks(L, P)
    BY <2>1
  <2> HIDE DEF P
  <2>3. /\ DOMAIN deferred' = Link
        /\ \A l \in Link : deferred'[l] = IF l \in L THEN {} ELSE deferred[l]
        /\ \A y : y \in io' <=> y \in P \/ \E l \in L : y \in deferred[l]
        /\ crashed' = \E l \in L : deferred[l] # {} /\ Owner(l) \notin service
    BY ONLY <2>1, <2>2, RunLinksIs
  <2> QED BY <2>3 DEF P
<1>6. \A y : y \in io' <=> (y \in io /\ y # x) \/ \E l \in L : y \in deferred[l]
  BY <1>5
<1>7. Release(L)
  <2>1. \A y : y \in io' \/ y \in ran' <=> Gone(y) \/ \E l \in L : y \in deferred[l]
    BY <1>1, <1>6 DEF Gone
  <2> QED BY <1>1, <1>3, <1>5, <2>1 DEF Release
<1> QED BY <1>1, <1>3, <1>4, <1>5, <1>6, <1>7

------------------------------------------------------------------------------
(* What such a step needs in order to keep the rest of the invariant.      *)

LEMMA WhereDeferred ==
  ASSUME PlaceInv, NEW l \in Link
  PROVE  /\ After \in deferred[l] => l = NextLink
         /\ \A k : /\ H(k) \in deferred[l] => l = InnerLink(k)
                   /\ Run(k) \in deferred[l] => l = Current
                   /\ Noop(k) \in deferred[l] => l = Mid(k)
<1>1. CASE l \in Outer
  BY <1>1, LinkIs, HandlerNames DEF PlaceInv
<1>2. ASSUME NEW j \in Chains, l = InnerLink(j) \/ l = Mid(j) \/ l = TailLink(j)
      PROVE  /\ After \notin deferred[l]
             /\ \A k : /\ H(k) \in deferred[l] => l = InnerLink(k)
                       /\ Run(k) \notin deferred[l]
                       /\ Noop(k) \in deferred[l] => l = Mid(k)
  <2>1. CASE l = InnerLink(j)
    <3>1. deferred[l] \subseteq {H(j)}
      BY <2>1 DEF PlaceInv
    <3> QED BY <2>1, <3>1, HandlerNames
  <2>2. CASE l = Mid(j)
    <3>1. deferred[l] \subseteq {Noop(j)}
      BY <2>2 DEF PlaceInv
    <3> QED BY <2>2, <3>1, HandlerNames
  <2>3. CASE l = TailLink(j)
    BY <2>3 DEF PlaceInv
  <2> QED BY <1>2, <2>1, <2>2, <2>3
<1> QED BY <1>1, <1>2, LinkIs

LEMMA ReleaseOf ==
  ASSUME PlaceInv, NEW L, Release(L)
  PROVE  /\ Gone(After)' => Gone(After) \/ (NextLink \in L /\ After \in deferred[NextLink])
         /\ \A k : /\ Gone(H(k))' => Gone(H(k)) \/ (InnerLink(k) \in L /\ deferred[InnerLink(k)] # {})
                   /\ Gone(Run(k))' => Gone(Run(k)) \/ (Current \in L /\ deferred[Current] # {})
                   /\ Gone(Noop(k))' => Gone(Noop(k)) \/ (Mid(k) \in L /\ Noop(k) \in deferred[Mid(k)])
<1>1. \A y : y \in io' \/ y \in ran' <=> Gone(y) \/ \E l \in L : y \in deferred[l]
  BY DEF Release
<1>2. L \subseteq Link
  BY DEF Release
<1> QED BY <1>1, <1>2, WhereDeferred DEF Gone

\* Told grows with ran.
LEMMA ToldGrows ==
  ASSUME TypeOK, ran \subseteq ran', UNCHANGED range
  PROVE  /\ Told \subseteq Told' /\ Told' \subseteq range
         /\ Cardinality(Told) \in Nat /\ Cardinality(Told') \in Nat
         /\ Cardinality(Told) <= Cardinality(Told')
<1>1. Told \subseteq Told' /\ Told' \subseteq range
  BY DEF Told
<1>2. IsFiniteSet(range)
  BY NestedAssumption, FS_Subset DEF TypeOK
<1>3. IsFiniteSet(Told') /\ IsFiniteSet(Told)
  BY <1>1, <1>2, FS_Subset
<1> DEFINE S == Told
           T == Told'
<1>4. S \subseteq T /\ IsFiniteSet(T) /\ IsFiniteSet(S)
  BY <1>1, <1>3
<1> HIDE DEF S, T
<1>5. Cardinality(S) \in Nat /\ Cardinality(T) \in Nat /\ Cardinality(S) <= Cardinality(T)
  BY <1>4, FS_Subset, FS_CardinalityType
<1> QED BY <1>1, <1>5 DEF S, T

LEMMA ReleaseKeepsOrder ==
  ASSUME TypeOK, PlaceInv, OrderInv, NEW L, Release(L), own \subseteq own',
         \A k \in range : Mid(k) \in L /\ Noop(k) \in deferred[Mid(k)] => H(k) \in ran',
         \A k \in range : InnerLink(k) \in L /\ deferred[InnerLink(k)] # {}
                            => Front \in ran' \/ own' # {},
         Current \in L /\ deferred[Current] # {} => Front \in ran',
         \A k \in range : Run(k) \in ran' => Run(k) \in ran \/ InnerLink(k) \in L,
         NextLink \in L /\ After \in deferred[NextLink] =>
            /\ need <= Cardinality(Told') \/ Told' = range
            /\ Told' # {} \/ range = {}
  PROVE  OrderInv'
<1>1. ran \subseteq ran' /\ UNCHANGED <<range, need>>
      /\ \A l \in Link : deferred'[l] = IF l \in L THEN {} ELSE deferred[l]
  BY DEF Release
<1>2. /\ Told \subseteq Told' /\ Told' \subseteq range
      /\ Cardinality(Told) \in Nat /\ Cardinality(Told') \in Nat
      /\ Cardinality(Told) <= Cardinality(Told')
  BY <1>1, ToldGrows
<1>3. ASSUME NEW k \in range, Gone(Noop(k))' PROVE H(k) \in ran'
  BY <1>1, <1>3, ReleaseOf DEF OrderInv
<1>4. ASSUME NEW k \in range, Gone(H(k))' PROVE Front \in ran' \/ own' # {}
  BY <1>1, <1>4, ReleaseOf DEF OrderInv
<1>5. ASSUME NEW k \in range, Gone(Run(k))' PROVE Front \in ran'
  BY <1>1, <1>5, ReleaseOf DEF OrderInv
<1>6. ASSUME NEW k \in range, Run(k) \in ran' PROVE deferred'[InnerLink(k)] = {}
  <2>1. InnerLink(k) \in Link
    BY LinkIs DEF TypeOK
  <2> QED BY <1>1, <1>6, <2>1 DEF OrderInv
<1>7. ASSUME Gone(After)'
      PROVE  (need <= Cardinality(Told') \/ Told' = range) /\ (Told' # {} \/ range = {})
  <2>1. CASE Gone(After)
    <3>1. (need <= Cardinality(Told) \/ Told = range) /\ (Told # {} \/ range = {})
      BY <2>1 DEF OrderInv
    <3>2. need \in Nat
      BY DEF TypeOK
    <3> DEFINE a == Cardinality(Told)
               b == Cardinality(Told')
    <3>3. a \in Nat /\ b \in Nat /\ a <= b
      BY <1>2
    <3>4. need <= a => need <= b
      <4> HIDE DEF a, b
      <4> QED BY <3>2, <3>3
    <3> QED BY <1>2, <3>1, <3>4
  <2>2. CASE NextLink \in L /\ After \in deferred[NextLink]
    BY <2>2
  <2> QED BY <1>7, <2>1, <2>2, ReleaseOf
<1> QED BY <1>1, <1>3, <1>4, <1>5, <1>6, <1>7 DEF OrderInv

\* X are the handlers executed in the step.
LEMMA ReleaseKeepsNoops ==
  ASSUME TypeOK, PlaceInv, NoopInv, NEW L, Release(L), NEW X \in SUBSET io, ran' = ran \cup X,
         \A y : y \in io' <=> (y \in io /\ y \notin X) \/ \E l \in L : y \in deferred[l],
         need <= required'[NextLink] + Cardinality(Told')
  PROVE  NoopInv'
<1>1. UNCHANGED <<range, need>> /\ L \subseteq Link
      /\ \A l \in Link : deferred'[l] = IF l \in L THEN {} ELSE deferred[l]
  BY DEF Release
<1>2. ASSUME NEW k \in range, Noop(k) \in deferred'[Mid(k)] PROVE ~Gone(Noop(k))'
  <2>1. Mid(k) \in Link
    BY LinkIs DEF TypeOK
  <2>2. Noop(k) \in deferred[Mid(k)] /\ Mid(k) \notin L
    BY <1>1, <1>2, <2>1
  <2> QED BY <2>2, ReleaseOf DEF NoopInv
<1>3. ASSUME NEW k \in range, Noop(k) \in io' PROVE Noop(k) \notin ran'
  <2>1. CASE Noop(k) \in io /\ Noop(k) \notin X
    BY <2>1 DEF NoopInv
  <2>2. CASE \E l \in L : Noop(k) \in deferred[l]
    <3>1. Noop(k) \in deferred[Mid(k)]
      BY <1>1, <2>2, WhereDeferred
    <3> QED BY <3>1 DEF NoopInv, Gone
  <2> QED BY <1>3, <2>1, <2>2
<1> QED BY <1>1, <1>2, <1>3 DEF NoopInv

LEMMA ReleaseKeepsService ==
  ASSUME TypeOK, PlaceInv, ServiceInv, NEW L, Release(L), own \subseteq own', UNCHANGED service,
         crashed' = \E l \in L : deferred[l] # {} /\ Owner(l) \notin service,
         \A k \in range : InnerLink(k) \in L /\ deferred[InnerLink(k)] # {}
                            => k \in wrapped \cup service \/ "null" \in own'
  PROVE  ServiceInv'
<1>1. L \subseteq Link /\ UNCHANGED <<wrapped, service>>
  BY DEF Release
<1>2. \A l \in Outer : Owner(l) = "outer"
  BY DEF Owner
<1>3. \A k : Owner(InnerLink(k)) = k /\ Owner(Mid(k)) = k
  <2>1. \A k : InnerLink(k) \notin Outer /\ Mid(k) \notin Outer
    BY LinkIs, LinkNames
  <2>2. \A k : InnerLink(k)[2] = k /\ Mid(k)[2] = k
    BY DEF InnerLink, Mid
  <2> QED BY <2>1, <2>2 DEF Owner
<1>4. ASSUME crashed', "null" \notin own', "outer" \in service PROVE FALSE
  <2>1. PICK l \in L : deferred[l] # {} /\ Owner(l) \notin service
    BY <1>4
  <2>2. l \notin Outer
    BY <1>2, <1>4, <2>1
  <2>3. PICK k \in Chains : l = InnerLink(k) \/ l = Mid(k) \/ l = TailLink(k)
    BY <1>1, <2>2, LinkIs
  <2>4. CASE l = InnerLink(k)
    <3>1. k \in range
      BY <2>1, <2>4 DEF PlaceInv
    <3>2. k \in wrapped \cup service
      BY <1>4, <2>1, <2>4, <3>1
    <3> QED BY <1>3, <1>4, <2>1, <2>4, <3>2 DEF ServiceInv
  <2>5. CASE l = Mid(k)
    <3>1. k \in wrapped
      BY <2>1, <2>5 DEF PlaceInv
    <3> QED BY <1>3, <1>4, <2>1, <2>5, <3>1 DEF ServiceInv
  <2>6. CASE l = TailLink(k)
    BY <2>1, <2>6 DEF PlaceInv
  <2> QED BY <2>3, <2>4, <2>5, <2>6
<1> QED BY <1>1, <1>4 DEF ServiceInv, NoNullService

------------------------------------------------------------------------------
(* IInv is an invariant.                                                   *)

\* Handlers that leave a link which completed or was started.
LEMMA ExecuteKeepsIInv ==
  ASSUME IInv, NEW x \in io, Execute(x)
  PROVE  IInv'
<1> USE DEF IInv
<1>1. PICK L \in SUBSET (Completes(x) \cup Started(x)) :
         /\ Release(L)
         /\ Started(x) \subseteq L
         /\ \A l \in L : l \in Started(x) \/ required'[l] = 0
         /\ required' = [l \in Link |-> IF l \in Completes(x) /\ required[l] > 0
                                      THEN required[l] - 1 ELSE required[l]]
         /\ ran' = ran \cup {x}
         /\ \A y : y \in io' <=> (y \in io /\ y # x) \/ \E l \in L : y \in deferred[l]
         /\ crashed' = \E l \in L : deferred[l] # {} /\ Owner(l) \notin service
         /\ UNCHANGED <<service, dead, own>>
  BY ExecuteIs
<1>2. TypeOK'
  <2>1. required' \in [Link -> Nat]
    BY <1>1 DEF TypeOK
  <2>2. crashed' \in BOOLEAN
    BY <1>1
  <2> QED BY <1>1, <2>1, <2>2 DEF TypeOK, Release
<1>3. PlaceInv' /\ ReachInv'
  BY <1>1, ReleaseKeepsPlaces DEF TypeOK
<1>4. UNCHANGED <<range, need, wrapped>> /\ ran \subseteq ran' /\ L \subseteq Link
  BY <1>1 DEF Release
<1>5. /\ \/ x = Front \/ x = After
         \/ \E k \in wrapped : x = Run(k) \/ x = Noop(k)
         \/ \E k \in range : x = H(k)
  BY HandlerIs
<1>6. Started(Front) = {} /\ Started(After) = {}
      /\ \A k : Started(Run(k)) = {InnerLink(k)} /\ Started(H(k)) = {} /\ Started(Noop(k)) = {}
  BY DEF Started, Front, After, Run, H, Noop, InnerLink
<1>7. \A k \in range : Noop(k) # x => (Noop(k) \in ran' <=> Noop(k) \in ran)
  BY <1>1
<1>8. (\A k \in range : x # Noop(k)) => Told' = Told
  BY <1>4, <1>7 DEF Told
<1>9. NextLink \notin Completes(x) => required'[NextLink] = required[NextLink]
  BY <1>1, LinkIs
<1>10. need <= required'[NextLink] + Cardinality(Told') => NoopInv'
  <2>1. {x} \in SUBSET io /\ ran' = ran \cup {x}
        /\ \A y : y \in io' <=> (y \in io /\ y \notin {x}) \/ \E l \in L : y \in deferred[l]
    BY <1>1
  <2> DEFINE X == {x}
  <2>2. X \in SUBSET io /\ ran' = ran \cup X
        /\ \A y : y \in io' <=> (y \in io /\ y \notin X) \/ \E l \in L : y \in deferred[l]
    BY <2>1
  <2> HIDE DEF X
  <2>3. TypeOK /\ PlaceInv /\ NoopInv /\ Release(L)
    BY <1>1
  <2> QED BY ONLY <2>2, <2>3, ReleaseKeepsNoops
<1>11. CASE x = Front
  <2>1. L \subseteq {Current} /\ NextLink \notin Completes(x) /\ \A k : x # Noop(k) /\ x # Run(k)
    BY <1>1, <1>6, <1>11, CompletesIs, LinkNames, HandlerNames
  <2>2. OrderInv'
    <3>1. Front \in ran' /\ \A k \in range : Run(k) \in ran' => Run(k) \in ran
      BY <1>1, <1>11, <2>1
    <3>2. NextLink \notin L /\ \A k : Mid(k) \notin L /\ InnerLink(k) \notin L
      BY <2>1, LinkNames
    <3> QED BY <1>1, <3>1, <3>2, ReleaseKeepsOrder
  <2>3. NoopInv'
    <3>1. need <= required'[NextLink] + Cardinality(Told')
      BY <1>8, <1>9, <2>1 DEF NoopInv
    <3> QED BY <1>10, <3>1
  <2>4. ServiceInv'
    <3>1. \A k : InnerLink(k) \notin L
      BY <2>1, LinkNames
    <3> QED BY <1>1, <3>1, ReleaseKeepsService
  <2> QED BY <1>2, <1>3, <2>2, <2>3, <2>4
<1>12. CASE x = After
  <2>1. L \subseteq {Last} /\ NextLink \notin Completes(x) /\ \A k : x # Noop(k) /\ x # Run(k)
    BY <1>1, <1>6, <1>12, CompletesIs, LinkNames, HandlerNames
  <2>2. OrderInv'
    <3>1. \A k \in range : Run(k) \in ran' => Run(k) \in ran
      BY <1>1, <2>1
    <3>2. NextLink \notin L /\ Current \notin L /\ \A k : Mid(k) \notin L /\ InnerLink(k) \notin L
      BY <2>1, LinkNames
    <3> QED BY <1>1, <3>1, <3>2, ReleaseKeepsOrder
  <2>3. NoopInv'
    <3>1. need <= required'[NextLink] + Cardinality(Told')
      BY <1>8, <1>9, <2>1 DEF NoopInv
    <3> QED BY <1>10, <3>1
  <2>4. ServiceInv'
    <3>1. \A k : InnerLink(k) \notin L
      BY <2>1, LinkNames
    <3> QED BY <1>1, <3>1, ReleaseKeepsService
  <2> QED BY <1>2, <1>3, <2>2, <2>3, <2>4
<1>13. ASSUME NEW j \in wrapped, x = Run(j) PROVE IInv'
  <2>1. L = {InnerLink(j)} /\ NextLink \notin Completes(x) /\ \A k : x # Noop(k)
    BY <1>1, <1>6, <1>13, CompletesIs, LinkNames, HandlerNames
  <2>2. j \in range /\ Front \in ran
    BY <1>13 DEF TypeOK, OrderInv, Gone
  <2>3. OrderInv'
    <3>1. Front \in ran' /\ \A k \in range : Run(k) \in ran' => Run(k) \in ran \/ InnerLink(k) \in L
      BY <1>1, <1>13, <2>1, <2>2, HandlerNames
    <3>2. NextLink \notin L /\ Current \notin L /\ \A k : Mid(k) \notin L
      BY <2>1, LinkNames
    <3> QED BY <1>1, <3>1, <3>2, ReleaseKeepsOrder
  <2>4. NoopInv'
    <3>1. need <= required'[NextLink] + Cardinality(Told')
      BY <1>8, <1>9, <2>1 DEF NoopInv
    <3> QED BY <1>10, <3>1
  <2>5. ServiceInv'
    <3>1. \A k : InnerLink(k) \in L => k = j
      BY <2>1, LinkNames
    <3> QED BY <1>1, <1>13, <3>1, ReleaseKeepsService
  <2> QED BY <1>2, <1>3, <2>3, <2>4, <2>5
<1>14. ASSUME NEW j \in range, x = H(j) PROVE IInv'
  <2>1. L \subseteq {Mid(j)} /\ NextLink \notin Completes(x) /\ \A k : x # Noop(k) /\ x # Run(k)
    BY <1>1, <1>6, <1>14, CompletesIs, LinkNames, HandlerNames
  <2>2. OrderInv'
    <3>1. H(j) \in ran' /\ \A k \in range : Run(k) \in ran' => Run(k) \in ran
      BY <1>1, <1>14, <2>1
    <3>2. NextLink \notin L /\ Current \notin L
          /\ \A k : InnerLink(k) \notin L /\ (Mid(k) \in L => k = j)
      BY <2>1, LinkNames
    <3> QED BY <1>1, <3>1, <3>2, ReleaseKeepsOrder
  <2>3. NoopInv'
    <3>1. need <= required'[NextLink] + Cardinality(Told')
      BY <1>8, <1>9, <2>1 DEF NoopInv
    <3> QED BY <1>10, <3>1
  <2>4. ServiceInv'
    <3>1. \A k : InnerLink(k) \notin L
      BY <2>1, LinkNames
    <3> QED BY <1>1, <3>1, ReleaseKeepsService
  <2> QED BY <1>2, <1>3, <2>2, <2>3, <2>4
<1>15. ASSUME NEW j \in wrapped, x = Noop(j) PROVE IInv'
  <2>1. L \subseteq {NextLink, TailLink(j)} /\ NextLink \in Completes(x) /\ \A k : x # Run(k)
        /\ Started(x) = {}
    BY <1>1, <1>6, <1>15, CompletesIs, LinkNames, HandlerNames
  <2>2. j \in range /\ j \notin Told
    BY <1>15 DEF TypeOK, NoopInv, Told
  <2>3. Told' = Told \cup {j}
    BY <1>1, <1>4, <1>15, <2>2, HandlerNames DEF Told
  <2>4. Cardinality(Told') = Cardinality(Told) + 1 /\ Cardinality(Told) \in Nat
    <3>1. IsFiniteSet(Told)
      BY NestedAssumption, FS_Subset DEF TypeOK, Told
    <3>2. Cardinality(Told \cup {j}) = Cardinality(Told) + 1
      BY <2>2, <3>1, FS_AddElement
    <3> QED BY <2>3, <3>1, <3>2, FS_CardinalityType
  <2>5. need <= required'[NextLink] + Cardinality(Told')
    <3>1. required'[NextLink] = IF required[NextLink] > 0 THEN required[NextLink] - 1 ELSE required[NextLink]
      BY <1>1, <2>1, LinkIs
    <3>2. required[NextLink] \in Nat /\ need \in Nat /\ need <= required[NextLink] + Cardinality(Told)
      BY LinkIs DEF TypeOK, NoopInv
    <3> DEFINE r == required[NextLink]
               s == required'[NextLink]
               c == Cardinality(Told)
    <3>3. /\ r \in Nat /\ need \in Nat /\ c \in Nat /\ need <= r + c
          /\ s = IF r > 0 THEN r - 1 ELSE r
      BY <2>4, <3>1, <3>2
    <3> HIDE DEF r, s, c
    <3>4. need <= s + (c + 1)
      BY <3>3
    <3> QED BY <2>4, <3>4 DEF s, c
  <2>6. OrderInv'
    <3>1. \A k \in range : Run(k) \in ran' => Run(k) \in ran
      BY <1>1, <2>1
    <3>2. Current \notin L /\ \A k : InnerLink(k) \notin L /\ Mid(k) \notin L
      BY <2>1, LinkNames
    <3>3. NextLink \in L => need <= Cardinality(Told')
      <4>1. NextLink \in L => required'[NextLink] = 0
        BY <1>1, <2>1
      <4> QED BY <2>4, <2>5, <4>1
    <3>4. Told' # {}
      BY <2>3
    <3> QED BY <1>1, <3>1, <3>2, <3>3, <3>4, ReleaseKeepsOrder
  <2>7. NoopInv'
    BY <1>10, <2>5
  <2>8. ServiceInv'
    <3>1. \A k : InnerLink(k) \notin L
      BY <2>1, LinkNames
    <3> QED BY <1>1, <3>1, ReleaseKeepsService
  <2> QED BY <1>2, <1>3, <2>6, <2>7, <2>8
<1> QED BY <1>5, <1>11, <1>12, <1>13, <1>14, <1>15

\* What a link that is destroyed does not wait for was executed.
LEMMA UnreferencedRan ==
  ASSUME PlaceInv, NEW l \in Link, ~Referenced(l), NEW x, l \in Keeps(x), NEW m \in Link,
         x \in deferred[m] \/ Gone(x)
  PROVE  x \in ran
<1>1. x \notin io /\ \A j \in Link \ dead : x \notin deferred[j]
  BY Unreferenced
<1>2. m \in dead => deferred[m] = {}
  BY DEF PlaceInv
<1> QED BY <1>1, <1>2 DEF Gone

\* Handlers that leave one link, which the program runs or which is destroyed.
LEMMA LetGo ==
  ASSUME IInv, NEW l \in Link, RunLinks({l}, io), own \subseteq own',
         UNCHANGED <<range, need, service, required, wrapped, built, ran>>,
         dead' = dead \/ (dead' = dead \cup {l} /\ built),
         \A k \in range : l = Mid(k) /\ Noop(k) \in deferred[Mid(k)] => H(k) \in ran,
         \A k \in range : l = InnerLink(k) /\ deferred[InnerLink(k)] # {} =>
            /\ Front \in ran \/ own' # {}
            /\ k \in wrapped \cup service \/ "null" \in own',
         l = Current /\ deferred[Current] # {} => Front \in ran,
         l = NextLink /\ After \in deferred[NextLink] => Told = range
  PROVE  IInv'
<1> USE DEF IInv
<1> DEFINE L == {l}
<1>1. L \in SUBSET Link /\ RunLinks(L, io) /\ \A m : m \in L <=> m = l
  OBVIOUS
<1> HIDE DEF L
<1>2. /\ DOMAIN deferred' = Link
      /\ \A m \in Link : deferred'[m] = IF m \in L THEN {} ELSE deferred[m]
      /\ \A y : y \in io' <=> y \in io \/ \E m \in L : y \in deferred[m]
      /\ crashed' = \E m \in L : deferred[m] # {} /\ Owner(m) \notin service
  BY ONLY <1>1, RunLinksIs
<1>3. Release(L)
  <2>1. \A y : y \in io' \/ y \in ran' <=> Gone(y) \/ \E m \in L : y \in deferred[m]
    BY <1>2 DEF Gone
  <2> QED BY <1>1, <1>2, <2>1 DEF Release
<1>4. TypeOK'
  <2>1. dead' \subseteq Link /\ (dead' # {} => built')
    BY DEF TypeOK
  <2>2. crashed' \in BOOLEAN
    BY <1>2
  <2> QED BY <1>2, <2>1, <2>2 DEF TypeOK
<1>5. PlaceInv' /\ ReachInv'
  <2>1. \A m \in dead' : m \in dead \cup L
    BY <1>1
  <2> QED BY <1>3, <1>4, <2>1, ReleaseKeepsPlaces DEF TypeOK
<1>6. Told' = Told
  BY DEF Told
<1>7. NoopInv'
  <2> DEFINE X == {}
  <2>1. X \in SUBSET io /\ ran' = ran \cup X
        /\ \A y : y \in io' <=> (y \in io /\ y \notin X) \/ \E m \in L : y \in deferred[m]
    BY <1>2
  <2>2. need <= required'[NextLink] + Cardinality(Told')
    BY <1>6 DEF NoopInv
  <2>3. TypeOK /\ PlaceInv /\ NoopInv
    OBVIOUS
  <2> HIDE DEF X
  <2> QED BY ONLY <1>3, <2>1, <2>2, <2>3, ReleaseKeepsNoops
<1>8. OrderInv'
  <2>1. \A k \in range : Mid(k) \in L /\ Noop(k) \in deferred[Mid(k)] => H(k) \in ran'
    BY <1>1
  <2>2. \A k \in range : InnerLink(k) \in L /\ deferred[InnerLink(k)] # {} => Front \in ran' \/ own' # {}
    BY <1>1
  <2>3. Current \in L /\ deferred[Current] # {} => Front \in ran'
    BY <1>1
  <2>4. \A k \in range : Run(k) \in ran' => Run(k) \in ran \/ InnerLink(k) \in L
    OBVIOUS
  <2>5. NextLink \in L /\ After \in deferred[NextLink] =>
            /\ need <= Cardinality(Told') \/ Told' = range
            /\ Told' # {} \/ range = {}
    BY <1>1, <1>6
  <2> QED BY <1>3, <2>1, <2>2, <2>3, <2>4, <2>5, ReleaseKeepsOrder
<1>9. ServiceInv'
  <2>1. \A k \in range : InnerLink(k) \in L /\ deferred[InnerLink(k)] # {}
                           => k \in wrapped \cup service \/ "null" \in own'
    BY <1>1
  <2> QED BY <1>2, <1>3, <2>1, ReleaseKeepsService
<1> QED BY <1>4, <1>5, <1>7, <1>8, <1>9

LEMMA RunOuterKeepsIInv ==
  ASSUME IInv, RunOuter
  PROVE  IInv'
<1>1. /\ RunLinks({Root}, io)
      /\ UNCHANGED <<range, need, service, required, dead, wrapped, built, ran, own>>
  BY DEF RunOuter, Root
<1>2. Root \in Link /\ Root # Current /\ Root # NextLink
      /\ \A k : Root # Mid(k) /\ Root # InnerLink(k)
  BY LinkIs, LinkNames
<1> QED BY <1>1, <1>2, LetGo

LEMMA RunInnerKeepsIInv ==
  ASSUME IInv, NEW j \in range, RunInner(j)
  PROVE  IInv'
<1>1. /\ RunLinks({InnerLink(j)}, io)
      /\ own' = own \cup {IF j \in service THEN "set" ELSE "null"}
      /\ UNCHANGED <<range, need, service, required, dead, wrapped, built, ran>>
  BY DEF RunInner, InnerLink
<1>2. InnerLink(j) \in Link /\ InnerLink(j) # Current /\ InnerLink(j) # NextLink
      /\ \A k : InnerLink(j) # Mid(k) /\ (InnerLink(j) = InnerLink(k) => k = j)
  BY LinkIs, LinkNames DEF IInv, TypeOK
<1>3. own \subseteq own' /\ own' # {} /\ (j \in service \/ "null" \in own')
  BY <1>1
<1> QED BY <1>1, <1>2, <1>3, LetGo

\* A link waits for the handlers that keep it alive.
LEMMA DestructKeepsIInv ==
  ASSUME IInv, NEW l \in Link, Destruct(l)
  PROVE  IInv'
<1>1. /\ built /\ ~Referenced(l) /\ dead' = dead \cup {l}
      /\ RunLinks({l}, io)
      /\ UNCHANGED <<range, need, service, required, wrapped, built, ran, own>>
  BY DEF Destruct
<1>2. wrapped = range /\ range \subseteq Chains
  BY <1>1 DEF IInv, TypeOK
<1>3. ASSUME NEW k \in range, l = Mid(k) PROVE H(k) \in ran
  <2>1. l \in Keeps(H(k)) /\ InnerLink(k) \in Link
    BY <1>2, <1>3, KeepsIs, LinkIs
  <2>2. H(k) \in deferred[InnerLink(k)] \/ Gone(H(k))
    BY DEF IInv, ReachInv
  <2> QED BY <1>1, <2>1, <2>2, UnreferencedRan DEF IInv
<1>4. ASSUME NEW k \in range, l = InnerLink(k) PROVE deferred[InnerLink(k)] = {}
  <2>1. l \in Keeps(Run(k)) /\ Current \in Link
    BY <1>4, KeepsIs, LinkIs
  <2>2. Run(k) \in deferred[Current] \/ Gone(Run(k))
    BY <1>2 DEF IInv, ReachInv
  <2>3. Run(k) \in ran
    BY <1>1, <2>1, <2>2, UnreferencedRan DEF IInv
  <2> QED BY <2>3 DEF IInv, OrderInv
<1>5. ASSUME l = Current PROVE Front \in ran
  <2>1. l \in Keeps(Front) /\ Root \in Link
    BY <1>5, KeepsIs, LinkIs
  <2>2. Front \in deferred[Root] \/ Gone(Front)
    BY DEF IInv, ReachInv
  <2> QED BY <1>1, <2>1, <2>2, UnreferencedRan DEF IInv
<1>6. ASSUME l = NextLink PROVE Told = range
  <2> SUFFICES ASSUME NEW k \in range PROVE Noop(k) \in ran
    BY DEF Told
  <2>1. l \in Keeps(Noop(k)) /\ Mid(k) \in Link
    BY <1>2, <1>6, KeepsIs, LinkIs
  <2>2. Noop(k) \in deferred[Mid(k)] \/ Gone(Noop(k))
    BY <1>2 DEF IInv, ReachInv
  <2> QED BY <1>1, <2>1, <2>2, UnreferencedRan DEF IInv
<1> QED BY <1>1, <1>3, <1>4, <1>5, <1>6, LetGo

\* The step that puts an inner chain into the outer one adds two handlers that
\* nobody has seen before.
LEMMA WrapKeepsIInv ==
  ASSUME IInv, NEW j \in range, Wrap(j)
  PROVE  IInv'
<1> USE DEF IInv
<1>1. /\ ~built /\ j \notin wrapped /\ wrapped' = wrapped \cup {j}
      /\ service' = IF "outer" \in service THEN service \cup {j} ELSE service
      /\ crashed' \in IF {"outer", j} \cap service # {} THEN {FALSE} ELSE BOOLEAN
      /\ deferred' = [deferred EXCEPT ![Current] = @ \cup {Run(j)}, ![Mid(j)] = @ \cup {Noop(j)}]
      /\ UNCHANGED <<range, need, required, dead, built, io, ran, own>>
  BY DEF Wrap, Current, Run, Mid, Noop
<1>2. j \in Chains /\ range \subseteq Chains /\ wrapped \subseteq range /\ dead = {}
      /\ DOMAIN deferred = Link
  BY <1>1 DEF TypeOK
<1>3. Mid(j) \in Link /\ Current \in Link /\ Current # Mid(j)
  BY <1>2, LinkIs, LinkNames
<1>4. DOMAIN deferred' = Link
      /\ deferred'[Current] = deferred[Current] \cup {Run(j)}
      /\ deferred'[Mid(j)] = deferred[Mid(j)] \cup {Noop(j)}
      /\ \A l \in Link : l # Current /\ l # Mid(j) => deferred'[l] = deferred[l]
  BY <1>1, <1>2, <1>3
<1>5. ~Gone(Run(j)) /\ ~Gone(Noop(j))
  <2>1. Run(j) \notin Handler /\ Noop(j) \notin Handler
    BY <1>1, HandlerNames DEF Handler
  <2> QED BY <2>1 DEF PlaceInv, Gone
<1>6. \A k \in Chains : /\ deferred'[InnerLink(k)] = deferred[InnerLink(k)]
                        /\ deferred'[TailLink(k)] = deferred[TailLink(k)]
                        /\ k # j => deferred'[Mid(k)] = deferred[Mid(k)]
  <2> SUFFICES ASSUME NEW k \in Chains
               PROVE  /\ deferred'[InnerLink(k)] = deferred[InnerLink(k)]
                      /\ deferred'[TailLink(k)] = deferred[TailLink(k)]
                      /\ k # j => deferred'[Mid(k)] = deferred[Mid(k)]
    OBVIOUS
  <2>1. InnerLink(k) \in Link /\ TailLink(k) \in Link /\ Mid(k) \in Link
    BY LinkIs
  <2>2. InnerLink(k) # Current /\ InnerLink(k) # Mid(j) /\ TailLink(k) # Current
        /\ TailLink(k) # Mid(j) /\ Mid(k) # Current /\ (Mid(k) = Mid(j) => k = j)
    BY LinkNames
  <2> QED BY <1>4, <2>1, <2>2
<1>7. deferred'[Root] = deferred[Root] /\ deferred'[NextLink] = deferred[NextLink]
      /\ deferred'[Last] = deferred[Last]
  BY <1>4, LinkIs, LinkNames
<1>8. Gone(Front)' = Gone(Front) /\ Gone(After)' = Gone(After) /\ Told' = Told
      /\ \A k : Gone(H(k))' = Gone(H(k)) /\ Gone(Run(k))' = Gone(Run(k)) /\ Gone(Noop(k))' = Gone(Noop(k))
  BY <1>1 DEF Gone, Told
<1>9. TypeOK'
  <2>1. crashed' \in BOOLEAN
    BY <1>1
  <2>2. required' \in [Link -> Nat]
    BY <1>1 DEF TypeOK
  <2>3. wrapped' \subseteq range' /\ built' = FALSE /\ dead' = {} /\ need' \in Nat
    BY <1>1, <1>2 DEF TypeOK
  <2> QED BY <1>1, <1>2, <1>4, <2>1, <2>2, <2>3 DEF TypeOK
<1>10. PlaceInv'
  <2>1. /\ deferred'[Root] \subseteq {Front}
        /\ deferred'[NextLink] \subseteq {After}
        /\ deferred'[Last] = {}
    BY <1>7 DEF PlaceInv
  <2>2. deferred'[Current] \subseteq {Run(k) : k \in wrapped'}
    <3>1. deferred[Current] \subseteq {Run(k) : k \in wrapped}
      BY DEF PlaceInv
    <3>2. {Run(k) : k \in wrapped} \subseteq {Run(k) : k \in wrapped \cup {j}}
          /\ Run(j) \in {Run(k) : k \in wrapped \cup {j}}
      OBVIOUS
    <3> QED BY <1>1, <1>4, <3>1, <3>2
  <2>3. ASSUME NEW k \in Chains
        PROVE  /\ deferred'[InnerLink(k)] \subseteq (IF k \in range' THEN {H(k)} ELSE {})
               /\ deferred'[Mid(k)] \subseteq (IF k \in wrapped' THEN {Noop(k)} ELSE {})
               /\ deferred'[TailLink(k)] = {}
    <3>1. /\ deferred[InnerLink(k)] \subseteq (IF k \in range THEN {H(k)} ELSE {})
          /\ deferred[Mid(k)] \subseteq (IF k \in wrapped THEN {Noop(k)} ELSE {})
          /\ deferred[TailLink(k)] = {}
      BY DEF PlaceInv
    <3>2. CASE k = j
      BY <1>1, <1>4, <1>6, <3>1, <3>2
    <3>3. CASE k # j
      BY <1>1, <1>6, <3>1, <3>3
    <3> QED BY <3>2, <3>3
  <2>4. io' \cup ran' \subseteq Handler'
    <3>1. Handler \subseteq Handler'
      BY <1>1 DEF Handler
    <3> QED BY <1>1, <3>1 DEF PlaceInv
  <2>5. dead' = {}
    BY <1>1, <1>2
  <2> QED BY <2>1, <2>2, <2>3, <2>4, <2>5 DEF PlaceInv
<1>11. ReachInv'
  <2>1. Front \in deferred'[Root] \/ Gone(Front)'
    BY <1>7, <1>8 DEF ReachInv
  <2>2. \A k \in range' : H(k) \in deferred'[InnerLink(k)] \/ Gone(H(k))'
    BY <1>1, <1>2, <1>6, <1>8 DEF ReachInv
  <2>3. ASSUME NEW k \in wrapped'
        PROVE  /\ Run(k) \in deferred'[Current] \/ Gone(Run(k))'
               /\ Noop(k) \in deferred'[Mid(k)] \/ Gone(Noop(k))'
    <3>1. CASE k = j
      BY <1>4, <3>1
    <3>2. CASE k # j
      <4>1. k \in wrapped /\ k \in Chains
        BY <1>1, <1>2, <3>2
      <4>2. /\ Run(k) \in deferred[Current] \/ Gone(Run(k))
            /\ Noop(k) \in deferred[Mid(k)] \/ Gone(Noop(k))
        BY <4>1 DEF ReachInv
      <4> QED BY <1>4, <1>6, <1>8, <3>2, <4>1, <4>2
    <3> QED BY <3>1, <3>2
  <2> QED BY <2>1, <2>2, <2>3 DEF ReachInv
<1>12. NoopInv'
  <2>1. ASSUME NEW k \in range', Noop(k) \in deferred'[Mid(k)] PROVE ~Gone(Noop(k))'
    <3>1. CASE k = j
      BY <1>5, <1>8, <3>1
    <3>2. CASE k # j
      BY <1>1, <1>2, <1>6, <1>8, <2>1, <3>2 DEF NoopInv
    <3> QED BY <3>1, <3>2
  <2>2. \A k \in range' : Noop(k) \in io' => Noop(k) \notin ran'
    BY <1>1 DEF NoopInv
  <2>3. need' <= required'[NextLink] + Cardinality(Told')
    BY <1>1, <1>8 DEF NoopInv
  <2> QED BY <2>1, <2>2, <2>3 DEF NoopInv
<1>13. OrderInv'
  <2>1. \A k \in range' : /\ Gone(Noop(k))' => H(k) \in ran'
                          /\ Gone(H(k))' => Front \in ran' \/ own' # {}
                          /\ Gone(Run(k))' => Front \in ran'
    BY <1>1, <1>8 DEF OrderInv
  <2>2. \A k \in range' : Run(k) \in ran' => deferred'[InnerLink(k)] = {}
    BY <1>1, <1>2, <1>6 DEF OrderInv
  <2>3. Gone(After)' => (need' <= Cardinality(Told') \/ Told' = range') /\ (Told' # {} \/ range' = {})
    BY <1>1, <1>8 DEF OrderInv
  <2> QED BY <2>1, <2>2, <2>3 DEF OrderInv
<1>14. ServiceInv'
  <2>1. CASE "outer" \in service
    <3>1. service' = service \cup {j} /\ crashed' = FALSE
      BY <1>1, <2>1
    <3> QED BY <1>1, <2>1, <3>1 DEF ServiceInv, NoNullService
  <2>2. CASE "outer" \notin service
    <3>1. service' = service
      BY <1>1, <2>2
    <3> QED BY <2>2, <3>1 DEF ServiceInv, NoNullService
  <2> QED BY <2>1, <2>2
<1> QED BY <1>9, <1>10, <1>11, <1>12, <1>13, <1>14

LEMMA ThenKeepsIInv ==
  ASSUME IInv, Then
  PROVE  IInv'
<1> USE DEF IInv
<1>1. /\ ~built /\ wrapped = range /\ built' = TRUE
      /\ deferred' = [deferred EXCEPT ![NextLink] = {After}]
      /\ UNCHANGED <<range, need, service, required, dead, wrapped, io, ran, own, crashed>>
  BY DEF Then, NextLink
<1>2. dead = {} /\ DOMAIN deferred = Link /\ range \subseteq Chains
  BY <1>1 DEF TypeOK
<1>3. DOMAIN deferred' = Link /\ deferred'[NextLink] = {After}
      /\ \A l \in Link : l # NextLink => deferred'[l] = deferred[l]
  BY <1>1, <1>2, LinkIs
<1>4. /\ deferred'[Root] = deferred[Root] /\ deferred'[Current] = deferred[Current]
      /\ deferred'[Last] = deferred[Last]
      /\ \A k \in Chains : /\ deferred'[InnerLink(k)] = deferred[InnerLink(k)]
                           /\ deferred'[Mid(k)] = deferred[Mid(k)]
                           /\ deferred'[TailLink(k)] = deferred[TailLink(k)]
  BY <1>3, LinkIs, LinkNames
<1>5. \A y : Gone(y)' = Gone(y)
  BY <1>1 DEF Gone
<1>6. Told' = Told /\ Handler' = Handler
  BY <1>1 DEF Told, Handler
<1>7. TypeOK'
  BY <1>1, <1>2, <1>3 DEF TypeOK
<1>8. PlaceInv'
  <2>1. dead' = {} /\ io' \cup ran' \subseteq Handler'
    BY <1>1, <1>2, <1>6 DEF PlaceInv
  <2> QED BY <1>1, <1>3, <1>4, <2>1 DEF PlaceInv
<1>9. ReachInv'
  BY <1>1, <1>2, <1>4, <1>5 DEF ReachInv, Gone
<1>10. NoopInv'
  BY <1>1, <1>2, <1>4, <1>6 DEF NoopInv, Gone
<1>11. OrderInv'
  BY <1>1, <1>2, <1>4, <1>6 DEF OrderInv, Gone
<1>12. ServiceInv'
  BY <1>1 DEF ServiceInv, NoNullService
<1> QED BY <1>7, <1>8, <1>9, <1>10, <1>11, <1>12

LEMMA InitIInv == Init => IInv
<1> SUFFICES ASSUME Init PROVE IInv
  OBVIOUS
<1>1. range \subseteq Chains /\ IsFiniteSet(range) /\ Cardinality(range) \in Nat
  BY NestedAssumption, FS_Subset, FS_CardinalityType DEF Init
<1>2. need \in Nat
  <2>1. need \in 0 .. Cardinality(range) + 1
    BY DEF Init
  <2> QED BY <1>1, <2>1
<1>3. required = [l \in Link |-> IF l[1] \in {"root", "inner"} THEN 0
                                 ELSE IF l = NextLink THEN need ELSE 1]
  BY DEF Init, NextLink
<1>4. /\ DOMAIN deferred = Link
      /\ \A l \in Link : deferred[l] = IF l = Root THEN {Front}
                                       ELSE IF l[1] = "inner" /\ l[2] \in range THEN {H(l[2])} ELSE {}
      /\ dead = {} /\ wrapped = {} /\ built = FALSE /\ io = {} /\ ran = {} /\ crashed = FALSE
  BY DEF Init, Root, H
<1>5. /\ deferred[Root] = {Front} /\ deferred[Current] = {} /\ deferred[NextLink] = {}
      /\ deferred[Last] = {}
      /\ \A k \in Chains : /\ deferred[InnerLink(k)] = IF k \in range THEN {H(k)} ELSE {}
                           /\ deferred[Mid(k)] = {} /\ deferred[TailLink(k)] = {}
  <2>1. Root # Current /\ Root # NextLink /\ Root # Last
    BY LinkNames
  <2>2. Current[1] # "inner" /\ NextLink[1] # "inner" /\ Last[1] # "inner"
    BY DEF Current, NextLink, Last
  <2>3. \A k : /\ InnerLink(k) # Root /\ Mid(k) # Root /\ TailLink(k) # Root
    BY LinkNames
  <2>4. \A k : InnerLink(k)[1] = "inner" /\ InnerLink(k)[2] = k /\ Mid(k)[1] # "inner"
               /\ TailLink(k)[1] # "inner"
    BY DEF InnerLink, Mid, TailLink
  <2>5. /\ deferred[Root] = {Front} /\ deferred[Current] = {} /\ deferred[NextLink] = {}
        /\ deferred[Last] = {}
    BY <1>4, <2>1, <2>2, LinkIs
  <2>6. ASSUME NEW k \in Chains
        PROVE  /\ deferred[InnerLink(k)] = IF k \in range THEN {H(k)} ELSE {}
               /\ deferred[Mid(k)] = {} /\ deferred[TailLink(k)] = {}
    <3>1. InnerLink(k) \in Link /\ Mid(k) \in Link /\ TailLink(k) \in Link
      BY LinkIs
    <3>2. deferred[InnerLink(k)] = IF k \in range THEN {H(k)} ELSE {}
      BY <1>4, <2>3, <2>4, <3>1
    <3>3. deferred[Mid(k)] = {} /\ deferred[TailLink(k)] = {}
      BY <1>4, <2>3, <2>4, <3>1
    <3> QED BY <3>2, <3>3
  <2> QED BY <2>5, <2>6
<1>6. TypeOK
  <2>1. required \in [Link -> Nat]
    BY <1>2, <1>3
  <2> QED BY <1>1, <1>2, <1>4, <2>1 DEF TypeOK
<1>7. PlaceInv
  BY <1>4, <1>5 DEF PlaceInv
<1>8. ReachInv
  BY <1>1, <1>4, <1>5 DEF ReachInv
<1>9. Told = {}
  BY <1>4 DEF Told
<1>10. required[NextLink] = need
  <2>1. NextLink[1] \notin {"root", "inner"}
    BY DEF NextLink
  <2> QED BY <1>3, <2>1, LinkIs
<1>11. NoopInv
  <2>1. Cardinality(Told) = 0
    BY <1>9, FS_EmptySet
  <2>2. need <= required[NextLink] + Cardinality(Told)
    BY <1>2, <1>10, <2>1
  <2> QED BY <1>1, <1>4, <1>5, <2>2 DEF NoopInv
<1>12. OrderInv
  BY <1>4 DEF OrderInv, Gone
<1>13. ServiceInv
  BY <1>4 DEF ServiceInv, NoNullService
<1> QED BY <1>6, <1>7, <1>8, <1>11, <1>12, <1>13 DEF IInv

LEMMA NextIInv == IInv /\ [Next]_vars => IInv'
<1> SUFFICES ASSUME IInv, [Next]_vars PROVE IInv'
  OBVIOUS
<1>1. ASSUME NEW k \in range, Wrap(k) PROVE IInv'
  BY <1>1, WrapKeepsIInv
<1>2. ASSUME NEW k \in range, RunInner(k) PROVE IInv'
  BY <1>2, RunInnerKeepsIInv
<1>3. CASE Then
  BY <1>3, ThenKeepsIInv
<1>4. CASE RunOuter
  BY <1>4, RunOuterKeepsIInv
<1>5. ASSUME NEW c \in held, Drop(c) PROVE IInv'
  BY <1>5 DEF Drop, IInv, TypeOK, PlaceInv, ReachInv, NoopInv, OrderInv, ServiceInv, NoNullService,
     Handler, Told, Gone
<1>6. ASSUME NEW x \in io, Execute(x) PROVE IInv'
  BY <1>6, ExecuteKeepsIInv
<1>7. ASSUME NEW l \in Link, Destruct(l) PROVE IInv'
  BY <1>7, DestructKeepsIInv
<1>8. CASE UNCHANGED vars
  BY <1>8 DEF vars, IInv, TypeOK, PlaceInv, ReachInv, NoopInv, OrderInv, ServiceInv, NoNullService,
     Handler, Told, Gone
<1> QED BY <1>1, <1>2, <1>3, <1>4, <1>5, <1>6, <1>7, <1>8 DEF Next

LEMMA Invariance == Spec => []IInv
<1> QED BY InitIInv, NextIInv, PTL DEF Spec

------------------------------------------------------------------------------
(* Theorems.                                                               *)

\* A null io_service is used only if the program runs an inner chain while that has
\* none, or gave the outer chain none: whoever wraps a chain without an io_service
\* hands its own down before anything of that chain can leave its link.
THEOREM ServiceIsInherited == Spec => []NoNullService
<1>1. IInv => NoNullService
  BY DEF IInv, ServiceInv
<1> QED BY <1>1, Invariance, PTL

\* What is behind any(range, need) runs only when that many inner chains, or all
\* of them, are done with their own handlers, and after what is in front unless
\* the program runs an inner chain itself; for every range and every need, in
\* whatever order the threads take the handlers and the links are destroyed.
THEOREM AnyWaits == Spec => []AfterWaits
<1>1. ASSUME IInv PROVE AfterWaits
  <2> USE DEF IInv
  <2> DEFINE done == {k \in range : H(k) \in ran}
             n == Cardinality(range)
             d == Cardinality(done)
             t == Cardinality(Told)
             asked == IF need > n THEN n ELSE need
  <2>1. \A k \in range : Noop(k) \in ran => k \in done
    BY <1>1 DEF OrderInv, Gone
  <2>2. Told \subseteq done /\ done \subseteq range
    BY <2>1 DEF Told
  <2>3. IsFiniteSet(range)
    BY <1>1, NestedAssumption, FS_Subset DEF TypeOK
  <2>4. IsFiniteSet(done) /\ IsFiniteSet(Told)
    BY <2>2, <2>3, FS_Subset
  <2>5. n \in Nat /\ d \in Nat /\ t \in Nat /\ t <= d /\ need \in Nat
    <3>1. t <= d
      <4> HIDE DEF done
      <4> QED BY <2>2, <2>4, FS_Subset
    <3> QED BY <1>1, <2>3, <2>4, <3>1, FS_CardinalityType DEF TypeOK
  <2>6. ASSUME After \in ran PROVE d >= asked
    <3>1. need <= t \/ Told = range
      BY <1>1, <2>6 DEF OrderInv, Gone
    <3>2. Told = range => t = n
      OBVIOUS
    <3> HIDE DEF n, d, t
    <3> QED BY <2>5, <3>1, <3>2
  <2>7. AfterInner
    <3> HIDE DEF n
    <3>1. /\ \A k \in range : <<"noop", k>> \in ran => k \in done
          /\ After \in ran => Cardinality(done) >= asked
      BY <2>1, <2>6 DEF Noop
    <3> QED BY <3>1 DEF AfterInner, H, n
  <2>8. FrontFirst
    <3> SUFFICES ASSUME After \in ran, range # {} PROVE Front \in ran \/ own # {}
      BY DEF FrontFirst
    <3>1. PICK k \in range : Noop(k) \in ran
      BY <1>1 DEF OrderInv, Gone, Told
    <3> QED BY <1>1, <3>1 DEF OrderInv, Gone
  <2> QED BY <2>7, <2>8 DEF AfterWaits
<1> QED BY <1>1, Invariance, PTL
==============================================================================
