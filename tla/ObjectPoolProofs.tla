-------------------------- MODULE ObjectPoolProofs --------------------------
(***************************************************************************)
(* Proofs about ObjectPool, for any objects and clients.                   *)
(*                                                                         *)
(* OnePlace and NoLeak are not inductive: that the last shared_ptr of an   *)
(* object is the last way to reach it needs RawAlone, and a client is in a *)
(* deleter exactly while it has an object there (ArgHeld).  IInv states    *)
(* the two properties object by object, with these.                        *)
(***************************************************************************)
EXTENDS ObjectPool, SequenceLemmas

HeldBy(o, c) == o \in holders[c] \/ o \in raw[c]

\* What is in the queue is there once, ...
InQueueOnce == IsInjective(queue)

\* ... and nowhere else.
InQueueAlone ==
  \A o \in ToSet(queue), c \in Client : ~HeldBy(o, c) /\ arg[c] # o

\* What a client holds is in no deleter.
InHandsAlone ==
  \A o \in Object, c, d \in Client : HeldBy(o, c) => arg[d] # o

\* What construct() itself gave to a client is held by nobody else.
RawAlone ==
  \A c, d \in Client : \A o \in raw[c] : o \notin holders[d] /\ (o \in raw[d] => c = d)

\* An object is in one deleter.
OneDeleter ==
  \A c, d \in Client : c # d /\ arg[c] # None => arg[c] # arg[d]

\* All of these are objects that are not deleted, ...
Alive ==
  /\ ToSet(queue) \subseteq allocated
  /\ \A c \in Client : /\ \A o \in Object : HeldBy(o, c) => o \in allocated
                       /\ arg[c] # None => arg[c] \in allocated

\* ... and the only ones.
Reached ==
  \A o \in allocated : \/ o \in ToSet(queue)
                       \/ \E c \in Client : HeldBy(o, c) \/ arg[c] = o

ArgHeld ==
  \A c \in Client : arg[c] # None <=> pc[c] \in {"lock", "push", "delete"}

PlaceInv ==
  InQueueOnce /\ InQueueAlone /\ InHandsAlone /\ RawAlone /\ OneDeleter /\ Alive /\ Reached

IInv == TypeOK /\ ArgHeld /\ PlaceInv /\ InnerLifetime

------------------------------------------------------------------------------
(* The lock-free queue.                                                    *)

\* push() at the end of a queue that does not have the object.
LEMMA QueuePush ==
  ASSUME NEW S, NEW q \in Seq(S), IsInjective(q), NEW o \in S, o \notin ToSet(q)
  PROVE  /\ Append(q, o) \in Seq(S)
         /\ IsInjective(Append(q, o))
         /\ ToSet(Append(q, o)) = ToSet(q) \cup {o}
BY InjectiveAppend, ToSetAppend, AppendProperties

\* pop() from a queue that is not empty.
LEMMA QueuePop ==
  ASSUME NEW S, NEW q \in Seq(S), IsInjective(q), q # <<>>
  PROVE  /\ Head(q) \in S
         /\ Tail(q) \in Seq(S)
         /\ IsInjective(Tail(q))
         /\ ToSet(Tail(q)) = ToSet(q) \ {Head(q)}
         /\ Head(q) \in ToSet(q)
<1>1. Head(q) \notin ToSet(Tail(q)) /\ IsInjective(Tail(q))
  BY InjectiveTail
<1>2. ToSet(q) = ToSet(Tail(q)) \cup {Head(q)} /\ Head(q) \in S /\ Tail(q) \in Seq(S)
  BY ToSetTail
<1> QED BY <1>1, <1>2

------------------------------------------------------------------------------
(* What the operations of object_pool do to the sets of the invariant.     *)

\* construct() hands out an object that nobody has.
LEMMA ConstructFresh ==
  ASSUME IInv, NEW o, Construct(o)
  PROVE  /\ o \in Object
         /\ \A c \in Client : ~HeldBy(o, c) /\ arg[c] # o
         /\ allocated' = allocated \cup {o}
         /\ queue' \in Seq(Object)
         /\ IsInjective(queue')
         /\ ToSet(queue') = ToSet(queue) \ {o}
<1> USE DEF IInv, PlaceInv
<1>1. CASE queue # <<>> /\ o = Head(queue) /\ queue' = Tail(queue) /\ UNCHANGED allocated
  <2>1. queue \in Seq(Object) /\ IsInjective(queue)
    BY DEF TypeOK, InQueueOnce
  <2>2. /\ o \in Object /\ o \in ToSet(queue)
        /\ queue' \in Seq(Object) /\ IsInjective(queue')
        /\ ToSet(queue') = ToSet(queue) \ {o}
    BY <1>1, <2>1, QueuePop
  <2>3. allocated' = allocated \cup {o}
    BY <1>1, <2>2 DEF Alive
  <2> QED BY <2>2, <2>3 DEF InQueueAlone
<1>2. CASE queue = <<>> /\ o \in Object \ allocated /\ allocated' = allocated \cup {o}
           /\ UNCHANGED queue
  <2>1. ToSet(queue) = {} /\ queue \in Seq(Object) /\ IsInjective(queue)
    BY <1>2, ToSetIn DEF TypeOK, InQueueOnce
  <2>2. o # None
    BY <1>2, ObjectPoolAssumption
  <2> QED BY <1>2, <2>1, <2>2 DEF Alive
<1> QED BY <1>1, <1>2 DEF Construct

\* destruct() puts its object into the queue, or deletes it.
LEMMA DestructPlaces ==
  ASSUME TypeOK, IsInjective(queue), NEW o \in Object, o \notin ToSet(queue), Destruct(o)
  PROVE  /\ queue' \in Seq(Object)
         /\ IsInjective(queue')
         /\ \/ ToSet(queue') = ToSet(queue) \cup {o} /\ allocated' = allocated
            \/ ToSet(queue') = ToSet(queue) /\ allocated' = allocated \ {o}
<1>1. CASE queue' = Append(queue, o) /\ UNCHANGED allocated
  BY <1>1, QueuePush DEF TypeOK
<1>2. CASE allocated' = allocated \ {o} /\ UNCHANGED queue
  BY <1>2 DEF TypeOK
<1> QED BY <1>1, <1>2 DEF Destruct

\* The last shared_ptr to the pool empties the queue.
LEMMA ReleasePlaces ==
  ASSUME TypeOK, IsInjective(queue), NEW isLast, ReleaseInner(isLast)
  PROVE  /\ queue' \in Seq(Object)
         /\ IsInjective(queue')
         /\ \/ isLast /\ inner' = FALSE /\ queue' = <<>> /\ ToSet(queue') = {}
               /\ allocated' = allocated \ ToSet(queue)
            \/ ~isLast /\ UNCHANGED <<inner, queue, allocated>> /\ ToSet(queue') = ToSet(queue)
<1>1. CASE isLast /\ inner' = FALSE /\ allocated' = allocated \ ToSet(queue) /\ queue' = <<>>
  BY <1>1, ToSetEmpty
<1>2. CASE ~isLast /\ UNCHANGED <<inner, allocated, queue>>
  BY <1>2 DEF TypeOK
<1> QED BY <1>1, <1>2 DEF ReleaseInner

------------------------------------------------------------------------------
(* IInv is an invariant.                                                   *)

LEMMA InitIInv == Init => IInv
<1> SUFFICES ASSUME Init PROVE IInv
  OBVIOUS
<1>1. ToSet(queue) = {} /\ IsInjective(queue)
  BY ToSetEmpty DEF Init
<1>2. TypeOK
  BY ObjectPoolAssumption DEF Init, TypeOK
<1>3. ArgHeld /\ InnerLifetime
  BY DEF Init, ArgHeld, InnerLifetime, InnerThere, InnerGone
<1>4. PlaceInv
  BY <1>1, ObjectPoolAssumption DEF Init, PlaceInv, InQueueOnce, InQueueAlone, InHandsAlone, RawAlone,
    OneDeleter, Alive, Reached, HeldBy
<1> QED BY <1>2, <1>3, <1>4 DEF IInv

\* The deleter of the last shared_ptr to an object.
LEMMA DeleterKeepsIInv ==
  ASSUME IInv, NEW c \in Client, Deleter(c)
  PROVE  IInv'
<1> USE DEF IInv, PlaceInv
<1>1. CASE Lock(c)
  <2>1. TypeOK'
    BY <1>1 DEF Lock, TypeOK
  <2>2. ArgHeld'
    BY <1>1 DEF Lock, TypeOK, ArgHeld
  <2>3. PlaceInv'
    BY <1>1 DEF Lock, InQueueOnce, InQueueAlone, InHandsAlone, RawAlone, OneDeleter, Alive, Reached,
      HeldBy
  <2>4. InnerLifetime'
    BY <1>1 DEF Lock, TypeOK, InnerLifetime, InnerThere, InnerGone
  <2> QED BY <2>1, <2>2, <2>3, <2>4
<1>2. CASE Push(c)
  <2>1. /\ arg[c] \in Object /\ arg[c] \in allocated /\ arg[c] \notin ToSet(queue)
        /\ \A d \in Client : ~HeldBy(arg[c], d) /\ (c # d => arg[d] # arg[c])
    BY <1>2 DEF Push, ArgHeld, Alive, TypeOK, InQueueAlone, InHandsAlone, OneDeleter
  <2>2. Destruct(arg[c])
    BY <1>2 DEF Push
  <2>3. /\ queue' \in Seq(Object)
        /\ IsInjective(queue')
        /\ \/ ToSet(queue') = ToSet(queue) \cup {arg[c]} /\ allocated' = allocated
           \/ ToSet(queue') = ToSet(queue) /\ allocated' = allocated \ {arg[c]}
    BY <2>1, <2>2, DestructPlaces DEF InQueueOnce
  <2>4. TypeOK'
    BY <1>2, <2>3 DEF Push, TypeOK
  <2>5. ArgHeld'
    BY <1>2 DEF Push, TypeOK, ArgHeld
  <2>6. PlaceInv'
    <3>1. arg' = [arg EXCEPT ![c] = None] /\ UNCHANGED <<holders, raw>>
      BY <1>2 DEF Push
    <3>2. InQueueOnce' /\ InQueueAlone'
      <4>1. ToSet(queue') \subseteq ToSet(queue) \cup {arg[c]} /\ None \notin ToSet(queue')
        BY <2>1, <2>3, ToSetIn, ObjectPoolAssumption
      <4> QED BY <2>1, <2>3, <3>1, <4>1 DEF InQueueOnce, InQueueAlone, HeldBy, TypeOK
    <3>3. InHandsAlone' /\ RawAlone' /\ OneDeleter'
      BY <3>1, ObjectPoolAssumption DEF InHandsAlone, RawAlone, OneDeleter, HeldBy, TypeOK
    <3>4. Alive'
      BY <2>1, <2>3, <3>1 DEF Alive, HeldBy, TypeOK
    <3>5. Reached'
      BY <2>1, <2>3, <3>1 DEF Reached, HeldBy, TypeOK
    <3> QED BY <3>2, <3>3, <3>4, <3>5
  <2>7. InnerLifetime'
    BY <1>2 DEF Push, TypeOK, InnerLifetime, InnerThere, InnerGone
  <2> QED BY <2>4, <2>5, <2>6, <2>7
<1>3. CASE Unlock(c)
  <2> DEFINE isLast == ~InnerReferences(c) /\ c \notin pools
  <2>1. ReleaseInner(isLast)
    BY <1>3 DEF Unlock
  <2>2. /\ queue' \in Seq(Object)
        /\ IsInjective(queue')
        /\ \/ isLast /\ inner' = FALSE /\ queue' = <<>> /\ ToSet(queue') = {}
              /\ allocated' = allocated \ ToSet(queue)
           \/ ~isLast /\ UNCHANGED <<inner, queue, allocated>> /\ ToSet(queue') = ToSet(queue)
    BY <2>1, ReleasePlaces DEF InQueueOnce
  <2>3. UNCHANGED <<pools, holders, raw, arg>> /\ pc[c] = "unlock" /\ pc' = [pc EXCEPT ![c] = "idle"]
    BY <1>3 DEF Unlock
  <2>4. TypeOK' /\ ArgHeld'
    BY <2>2, <2>3 DEF TypeOK, ArgHeld
  <2>5. PlaceInv'
    BY <2>2, <2>3 DEF InQueueOnce, InQueueAlone, InHandsAlone, RawAlone, OneDeleter, Alive, Reached,
      HeldBy, TypeOK
  <2>6. InnerLifetime'
    BY <2>2, <2>3 DEF InnerReferences, TypeOK, InnerLifetime, InnerThere, InnerGone
  <2> QED BY <2>4, <2>5, <2>6
<1>4. CASE Delete(c)
  <2>1. /\ arg[c] \in Object /\ arg[c] \in allocated /\ arg[c] \notin ToSet(queue)
        /\ \A d \in Client : ~HeldBy(arg[c], d) /\ (c # d => arg[d] # arg[c])
    BY <1>4 DEF Delete, ArgHeld, Alive, TypeOK, InQueueAlone, InHandsAlone, OneDeleter
  <2>2. /\ allocated' = allocated \ {arg[c]}
        /\ pc[c] = "delete" /\ pc' = [pc EXCEPT ![c] = "idle"]
        /\ arg' = [arg EXCEPT ![c] = None]
        /\ UNCHANGED <<queue, inner, pools, holders, raw>>
    BY <1>4 DEF Delete
  <2>3. TypeOK' /\ ArgHeld'
    BY <2>2 DEF TypeOK, ArgHeld
  <2>4. InQueueOnce' /\ InQueueAlone' /\ InHandsAlone' /\ RawAlone' /\ OneDeleter'
    BY <2>2, ToSetIn, ObjectPoolAssumption DEF InQueueOnce, InQueueAlone, InHandsAlone, RawAlone,
      OneDeleter, HeldBy, TypeOK
  <2>5. Alive' /\ Reached'
    BY <2>1, <2>2 DEF Alive, Reached, HeldBy, TypeOK
  <2>6. InnerLifetime'
    BY <2>2 DEF TypeOK, InnerLifetime, InnerThere, InnerGone
  <2> QED BY <2>3, <2>4, <2>5, <2>6
<1> QED BY <1>1, <1>2, <1>3, <1>4 DEF Deleter

\* Shared pools and what is made with them.
LEMMA PoolKeepsIInv ==
  ASSUME IInv, NEW c \in Client,
         \/ DropPool(c)
         \/ \E d \in Client : SharePool(c, d)
  PROVE  IInv'
<1> USE DEF IInv, PlaceInv
<1>1. CASE DropPool(c)
  <2> DEFINE isLast == ~InnerReferences(c)
  <2>1. ReleaseInner(isLast)
    BY <1>1 DEF DropPool
  <2>2. /\ queue' \in Seq(Object)
        /\ IsInjective(queue')
        /\ \/ isLast /\ inner' = FALSE /\ queue' = <<>> /\ ToSet(queue') = {}
              /\ allocated' = allocated \ ToSet(queue)
           \/ ~isLast /\ UNCHANGED <<inner, queue, allocated>> /\ ToSet(queue') = ToSet(queue)
    BY <2>1, ReleasePlaces DEF InQueueOnce
  <2>3. c \in pools /\ pc[c] = "idle" /\ pools' = pools \ {c} /\ UNCHANGED <<holders, raw, pc, arg>>
    BY <1>1 DEF DropPool
  <2>4. TypeOK' /\ ArgHeld'
    BY <2>2, <2>3 DEF TypeOK, ArgHeld
  <2>5. PlaceInv'
    BY <2>2, <2>3 DEF InQueueOnce, InQueueAlone, InHandsAlone, RawAlone, OneDeleter, Alive, Reached,
      HeldBy, TypeOK
  <2>6. InnerLifetime'
    BY <2>2, <2>3 DEF InnerReferences, TypeOK, InnerLifetime, InnerThere, InnerGone
  <2> QED BY <2>4, <2>5, <2>6
<1>2. CASE \E d \in Client : SharePool(c, d)
  <2>1. PICK d \in Client : SharePool(c, d)
    BY <1>2
  <2>2. /\ c \in pools /\ pools' = pools \cup {d}
        /\ UNCHANGED <<allocated, queue, inner, holders, raw, pc, arg>>
    BY <2>1 DEF SharePool
  <2>3. TypeOK' /\ ArgHeld' /\ InnerLifetime'
    BY <2>2 DEF TypeOK, ArgHeld, InnerLifetime, InnerThere, InnerGone
  <2>4. PlaceInv'
    BY <2>2 DEF InQueueOnce, InQueueAlone, InHandsAlone, RawAlone, OneDeleter, Alive, Reached, HeldBy
  <2> QED BY <2>3, <2>4
<1> QED BY <1>1, <1>2

\* construct(), whether its object is held raw or by a shared_ptr.
LEMMA ConstructKeepsIInv ==
  ASSUME IInv, NEW c \in Client, NEW o,
         ConstructRaw(c, o) \/ ConstructWithAutoDestruct(c, o)
  PROVE  IInv'
<1> USE DEF IInv, PlaceInv
<1>1. /\ c \in pools
      /\ UNCHANGED <<inner, pools, pc, arg>>
      /\ Construct(o)
      /\ \/ raw' = [raw EXCEPT ![c] = @ \cup {o}] /\ UNCHANGED holders
         \/ holders' = [holders EXCEPT ![c] = @ \cup {o}] /\ UNCHANGED raw
  BY DEF ConstructRaw, ConstructWithAutoDestruct
<1>2. /\ o \in Object
      /\ \A d \in Client : ~HeldBy(o, d) /\ arg[d] # o
      /\ allocated' = allocated \cup {o}
      /\ queue' \in Seq(Object)
      /\ IsInjective(queue')
      /\ ToSet(queue') = ToSet(queue) \ {o}
  BY <1>1, ConstructFresh
<1>3. \A x, d : d \in Client => (HeldBy(x, d)' <=> HeldBy(x, d) \/ (d = c /\ x = o))
  BY <1>1, <1>2 DEF HeldBy, TypeOK
<1>4. TypeOK' /\ ArgHeld'
  BY <1>1, <1>2 DEF TypeOK, ArgHeld
<1>5. InQueueOnce' /\ InQueueAlone'
  BY <1>1, <1>2, <1>3 DEF InQueueOnce, InQueueAlone
<1>6. InHandsAlone' /\ OneDeleter'
  BY <1>1, <1>2, <1>3 DEF InHandsAlone, OneDeleter
<1>7. RawAlone'
  <2>1. CASE raw' = [raw EXCEPT ![c] = @ \cup {o}] /\ UNCHANGED holders
    BY <1>2, <2>1 DEF RawAlone, HeldBy, TypeOK
  <2>2. CASE holders' = [holders EXCEPT ![c] = @ \cup {o}] /\ UNCHANGED raw
    BY <1>2, <2>2 DEF RawAlone, HeldBy, TypeOK
  <2> QED BY <1>1, <2>1, <2>2
<1>8. Alive' /\ Reached'
  BY <1>1, <1>2, <1>3 DEF Alive, Reached
<1>9. InnerLifetime'
  BY <1>1 DEF TypeOK, InnerLifetime, InnerThere, InnerGone
<1> QED BY <1>4, <1>5, <1>6, <1>7, <1>8, <1>9

LEMMA DestructRawKeepsIInv ==
  ASSUME IInv, NEW c \in Client, NEW o, DestructRaw(c, o)
  PROVE  IInv'
<1> USE DEF IInv, PlaceInv
<1>1. /\ c \in pools /\ o \in raw[c]
      /\ raw' = [raw EXCEPT ![c] = @ \ {o}]
      /\ UNCHANGED <<inner, pools, holders, pc, arg>>
      /\ Destruct(o)
  BY DEF DestructRaw
<1>2. /\ o \in Object /\ o \in allocated /\ o \notin ToSet(queue)
      /\ \A d \in Client : arg[d] # o
  BY <1>1 DEF TypeOK, Alive, InQueueAlone, InHandsAlone, HeldBy
<1>3. /\ queue' \in Seq(Object)
      /\ IsInjective(queue')
      /\ \/ ToSet(queue') = ToSet(queue) \cup {o} /\ allocated' = allocated
         \/ ToSet(queue') = ToSet(queue) /\ allocated' = allocated \ {o}
  BY <1>1, <1>2, DestructPlaces DEF InQueueOnce
<1>4. \A x, d : d \in Client => (HeldBy(x, d)' <=> HeldBy(x, d) /\ x # o)
  BY <1>1, <1>2 DEF HeldBy, RawAlone, TypeOK
<1>5. TypeOK' /\ ArgHeld'
  BY <1>1, <1>3 DEF TypeOK, ArgHeld
<1>6. InQueueOnce' /\ InQueueAlone'
  BY <1>1, <1>2, <1>3, <1>4 DEF InQueueOnce, InQueueAlone
<1>7. InHandsAlone' /\ OneDeleter'
  BY <1>1, <1>4 DEF InHandsAlone, OneDeleter
<1>8. RawAlone'
  BY <1>1 DEF RawAlone, TypeOK
<1>9. Alive' /\ Reached'
  BY <1>1, <1>2, <1>3, <1>4 DEF Alive, Reached, HeldBy
<1>10. InnerLifetime'
  BY <1>1 DEF TypeOK, InnerLifetime, InnerThere, InnerGone
<1> QED BY <1>5, <1>6, <1>7, <1>8, <1>9, <1>10

LEMMA CopyKeepsIInv ==
  ASSUME IInv, NEW c \in Client, NEW d \in Client, NEW o, Copy(c, d, o)
  PROVE  IInv'
<1> USE DEF IInv, PlaceInv
<1>1. /\ o \in holders[c]
      /\ holders' = [holders EXCEPT ![d] = @ \cup {o}]
      /\ UNCHANGED <<allocated, queue, inner, pools, raw, pc, arg>>
  BY DEF Copy
<1>2. \A x, e : e \in Client => (HeldBy(x, e)' <=> HeldBy(x, e) \/ (e = d /\ x = o))
  BY <1>1 DEF HeldBy, TypeOK
<1>3. HeldBy(o, c) /\ o \in Object
  BY <1>1 DEF HeldBy, TypeOK
<1>4. TypeOK' /\ ArgHeld' /\ InnerLifetime'
  BY <1>1, <1>3 DEF TypeOK, ArgHeld, InnerLifetime, InnerThere, InnerGone
<1>5. InQueueOnce' /\ InQueueAlone' /\ InHandsAlone' /\ OneDeleter'
  BY <1>1, <1>2, <1>3 DEF InQueueOnce, InQueueAlone, InHandsAlone, OneDeleter
<1>6. RawAlone'
  BY <1>1 DEF RawAlone, TypeOK
<1>7. Alive' /\ Reached'
  BY <1>1, <1>2, <1>3 DEF Alive, Reached
<1> QED BY <1>4, <1>5, <1>6, <1>7

LEMMA ResetKeepsIInv ==
  ASSUME IInv, NEW c \in Client, NEW o, Reset(c, o)
  PROVE  IInv'
<1> USE DEF IInv, PlaceInv
<1>1. /\ pc[c] = "idle" /\ o \in holders[c]
      /\ holders' = [holders EXCEPT ![c] = @ \ {o}]
      /\ UNCHANGED <<allocated, queue, inner, pools, raw>>
  BY DEF Reset
<1>2. /\ o \in Object /\ o # None /\ o \in allocated /\ o \notin ToSet(queue)
      /\ arg[c] = None /\ \A d \in Client : arg[d] # o
      /\ \A d \in Client : o \notin raw[d]
  BY <1>1, ObjectPoolAssumption DEF TypeOK, Alive, InQueueAlone, InHandsAlone, RawAlone, HeldBy,
    ArgHeld
<1>3. \A x, d : d \in Client => (HeldBy(x, d)' <=> HeldBy(x, d) /\ (d # c \/ x # o))
  BY <1>1, <1>2 DEF HeldBy, TypeOK
<1>4. RawAlone'
  BY <1>1 DEF RawAlone, TypeOK
<1>5. InQueueOnce'
  BY <1>1 DEF InQueueOnce
<1>6. CASE (\E d \in Client \ {c} : o \in holders[d]) /\ UNCHANGED <<pc, arg>>
  <2>1. \E d \in Client : HeldBy(o, d)'
    BY <1>1, <1>6 DEF HeldBy, TypeOK
  <2>2. TypeOK' /\ ArgHeld' /\ InnerLifetime'
    BY <1>1, <1>6 DEF TypeOK, ArgHeld, InnerLifetime, InnerThere, InnerGone
  <2>3. InQueueAlone' /\ InHandsAlone' /\ OneDeleter'
    BY <1>1, <1>3, <1>6 DEF InQueueAlone, InHandsAlone, OneDeleter
  <2>4. Alive' /\ Reached'
    BY <1>1, <1>3, <1>6, <2>1 DEF Alive, Reached
  <2> QED BY <1>4, <1>5, <2>2, <2>3, <2>4
<1>7. CASE /\ \A d \in Client \ {c} : o \notin holders[d]
           /\ pc' = [pc EXCEPT ![c] = "lock"]
           /\ arg' = [arg EXCEPT ![c] = o]
  <2>1. \A d \in Client : ~HeldBy(o, d)'
    BY <1>1, <1>2, <1>7 DEF HeldBy, TypeOK
  <2>2. \A d \in Client : arg'[d] = IF d = c THEN o ELSE arg[d]
    BY <1>7 DEF TypeOK
  <2>3. TypeOK' /\ ArgHeld' /\ InnerLifetime'
    BY <1>1, <1>2, <1>7 DEF TypeOK, ArgHeld, InnerLifetime, InnerThere, InnerGone
  <2>4. InQueueAlone' /\ InHandsAlone' /\ OneDeleter'
    BY <1>1, <1>2, <1>3, <2>1, <2>2 DEF InQueueAlone, InHandsAlone, OneDeleter
  <2>5. Alive'
    BY <1>1, <1>2, <1>3, <2>2 DEF Alive
  <2>6. Reached'
    <3>1. ASSUME NEW x \in allocated, x # o, x \notin ToSet(queue)
          PROVE  \E d \in Client : HeldBy(x, d)' \/ arg'[d] = x
      <4>1. PICK d \in Client : HeldBy(x, d) \/ arg[d] = x
        BY <3>1 DEF Reached
      <4>2. CASE HeldBy(x, d)
        BY <1>3, <3>1, <4>2
      <4>3. CASE arg[d] = x
        <5>1. d # c
          BY <1>2, <3>1, <4>3, ObjectPoolAssumption DEF TypeOK
        <5> QED BY <2>2, <4>3, <5>1
      <4> QED BY <4>1, <4>2, <4>3
    <3> QED BY <1>1, <2>2, <3>1 DEF Reached
  <2> QED BY <1>4, <1>5, <2>3, <2>4, <2>5, <2>6
<1> QED BY <1>6, <1>7 DEF Reset

LEMMA NextIInv == IInv /\ [Next]_vars => IInv'
<1> SUFFICES ASSUME IInv, [Next]_vars PROVE IInv'
  OBVIOUS
<1>1. CASE Next
  <2>1. PICK c \in Client :
          \/ Deleter(c)
          \/ DropPool(c) \/ \E d \in Client : SharePool(c, d)
          \/ \E o \in Object \cup {None} :
                \/ ConstructRaw(c, o) \/ ConstructWithAutoDestruct(c, o)
                \/ DestructRaw(c, o)
                \/ Reset(c, o)
                \/ \E d \in Client : Copy(c, d, o)
    BY <1>1 DEF Next
  <2> QED BY <2>1, DeleterKeepsIInv, PoolKeepsIInv, ConstructKeepsIInv, DestructRawKeepsIInv,
            CopyKeepsIInv, ResetKeepsIInv
<1>2. CASE UNCHANGED vars
  <2>1. TypeOK' /\ ArgHeld' /\ InnerLifetime'
    BY <1>2 DEF IInv, vars, TypeOK, ArgHeld, InnerLifetime, InnerThere, InnerGone
  <2>2. PlaceInv'
    BY <1>2 DEF IInv, vars, PlaceInv, InQueueOnce, InQueueAlone, InHandsAlone, RawAlone, OneDeleter,
      Alive, Reached, HeldBy
  <2> QED BY <2>1, <2>2 DEF IInv
<1> QED BY <1>1, <1>2

LEMMA Invariance == Spec => []IInv
BY InitIInv, NextIInv, PTL DEF Spec

------------------------------------------------------------------------------
(* The properties.                                                         *)

\* Every variable of the pool keeps its type.
THEOREM PoolTypeCorrect == Spec => []TypeOK
<1>1. IInv => TypeOK
  BY DEF IInv
<1> QED BY <1>1, Invariance, PTL

\* An object is in one place, for any number of threads: no two clients are given
\* the same object, and none is deleted while it can be reached.
THEOREM ObjectsInOnePlace == Spec => []OnePlace
<1>1. ASSUME IInv PROVE OnePlace
  <2> USE <1>1 DEF IInv, PlaceInv
  <2>1. IsInjective(queue)
    BY DEF InQueueOnce
  <2>2. ToSet(queue) \cap (Owned \cup Deleting) = {}
    BY DEF InQueueAlone, HeldBy, Owned, Deleting
  <2>3. Owned \cap Deleting = {}
    BY DEF InHandsAlone, HeldBy, Owned, Deleting, TypeOK
  <2>4. \A c, d \in Client : c # d /\ arg[c] # None => arg[c] # arg[d]
    BY DEF OneDeleter
  <2>5. ToSet(queue) \cup Owned \cup Deleting \subseteq allocated
    BY DEF Alive, HeldBy, Owned, Deleting, TypeOK
  <2> QED BY <2>1, <2>2, <2>3, <2>4, <2>5 DEF OnePlace
<1> QED BY <1>1, Invariance, PTL

\* Nothing leaks, whoever ends the pool and whoever lets go of an object last.
THEOREM NothingLeaks == Spec => []NoLeak
<1>1. ASSUME IInv PROVE NoLeak
  BY <1>1, ObjectPoolAssumption DEF IInv, TypeOK, PlaceInv, Reached, HeldBy, NoLeak, Owned, Deleting
<1> QED BY <1>1, Invariance, PTL

\* The pool proper lives exactly as long as someone uses it.
THEOREM InnerLives == Spec => []InnerLifetime
<1>1. IInv => InnerLifetime
  BY DEF IInv
<1> QED BY <1>1, Invariance, PTL

------------------------------------------------------------------------------
(* The pool is an allocator.                                               *)

LEMMA OwnedHeld == \A o : o \in Owned <=> \E c \in Client : HeldBy(o, c)
BY DEF Owned, HeldBy

\* Objects that leave the queue for good are objects nobody owns.
LEMMA ReleaseDeletes ==
  ASSUME IInv, NEW isLast, ReleaseInner(isLast), UNCHANGED <<holders, raw>>
  PROVE  \/ \E D \in SUBSET Object : Promise!Delete(D)
         \/ UNCHANGED Promise!vars
<1>1. UNCHANGED Owned
  BY DEF Owned
<1>2. ToSet(queue) \in SUBSET Object /\ ToSet(queue) \subseteq allocated \ Owned
  BY OwnedHeld, ToSetIn DEF IInv, PlaceInv, TypeOK, InQueueAlone, Alive
<1> QED BY <1>1, <1>2 DEF ReleaseInner, Promise!Delete, Promise!vars

\* An object that its deleter puts into the queue or deletes is nobody's.
LEMMA ArgDeleted ==
  ASSUME IInv, NEW c \in Client, arg[c] # None, UNCHANGED <<holders, raw>>,
         allocated' \in {allocated, allocated \ {arg[c]}}
  PROVE  \/ \E D \in SUBSET Object : Promise!Delete(D)
         \/ UNCHANGED Promise!vars
<1>1. UNCHANGED Owned
  BY DEF Owned
<1>2. {arg[c]} \in SUBSET Object /\ {arg[c]} \subseteq allocated \ Owned
  BY OwnedHeld DEF IInv, PlaceInv, TypeOK, InHandsAlone, Alive
<1>3. CASE UNCHANGED allocated
  BY <1>1, <1>3 DEF Promise!vars
<1>4. CASE allocated' = allocated \ {arg[c]}
  BY <1>1, <1>2, <1>4 DEF Promise!Delete
<1> QED BY <1>3, <1>4

LEMMA NextRefines == IInv /\ [Next]_vars => [Promise!Next]_Promise!vars
<1> SUFFICES ASSUME IInv, [Next]_vars
             PROVE  Promise!Next \/ UNCHANGED Promise!vars
  OBVIOUS
<1>0. CASE UNCHANGED vars
  BY <1>0 DEF vars, Promise!vars, Owned
<1> SUFFICES ASSUME Next
             PROVE  Promise!Next \/ UNCHANGED Promise!vars
  BY <1>0
<1>1. ASSUME NEW c \in Client, Lock(c) \/ \E d \in Client : SharePool(c, d)
      PROVE  UNCHANGED Promise!vars
  BY <1>1 DEF Lock, SharePool, Promise!vars, Owned
<1>2. ASSUME NEW c \in Client, Push(c) \/ Delete(c)
      PROVE  Promise!Next \/ UNCHANGED Promise!vars
  <2>1. /\ arg[c] # None /\ UNCHANGED <<holders, raw>>
        /\ allocated' \in {allocated, allocated \ {arg[c]}}
    BY <1>2 DEF Push, Delete, Destruct, IInv, ArgHeld
  <2> QED BY <2>1, ArgDeleted DEF Promise!Next
<1>3. ASSUME NEW c \in Client, Unlock(c) \/ DropPool(c)
      PROVE  Promise!Next \/ UNCHANGED Promise!vars
  <2>1. (\E isLast : ReleaseInner(isLast)) /\ UNCHANGED <<holders, raw>>
    BY <1>3 DEF Unlock, DropPool
  <2> QED BY <2>1, ReleaseDeletes DEF Promise!Next
<1>4. ASSUME NEW c \in Client, NEW o, ConstructRaw(c, o) \/ ConstructWithAutoDestruct(c, o)
      PROVE  Promise!Next
  <2>1. /\ Construct(o)
        /\ \/ raw' = [raw EXCEPT ![c] = @ \cup {o}] /\ UNCHANGED holders
           \/ holders' = [holders EXCEPT ![c] = @ \cup {o}] /\ UNCHANGED raw
    BY <1>4 DEF ConstructRaw, ConstructWithAutoDestruct
  <2>2. o \in Object /\ o \notin Owned /\ allocated' = allocated \cup {o}
    BY <2>1, ConstructFresh, OwnedHeld
  <2>3. Owned' = Owned \cup {o}
    BY <2>1 DEF Owned, IInv, TypeOK
  <2> QED BY <2>2, <2>3 DEF Promise!Acquire, Promise!Next
<1>5. ASSUME NEW c \in Client, NEW o, DestructRaw(c, o)
      PROVE  Promise!Next
  <2>1. /\ o \in raw[c] /\ o \in Object /\ o \in Owned
        /\ raw' = [raw EXCEPT ![c] = @ \ {o}] /\ UNCHANGED holders
        /\ allocated' \in {allocated, allocated \ {o}}
    BY <1>5 DEF DestructRaw, Destruct, IInv, TypeOK, Owned
  <2>2. Owned' = Owned \ {o}
    BY <2>1 DEF Owned, IInv, PlaceInv, RawAlone, TypeOK
  <2> QED BY <2>1, <2>2 DEF Promise!GiveBack, Promise!Next
<1>6. ASSUME NEW c \in Client, NEW d \in Client, NEW o, Copy(c, d, o)
      PROVE  UNCHANGED Promise!vars
  <2>1. Owned' = Owned
    BY <1>6 DEF Copy, Owned, IInv, TypeOK
  <2> QED BY <1>6, <2>1 DEF Copy, Promise!vars
<1>7. ASSUME NEW c \in Client, NEW o, Reset(c, o)
      PROVE  Promise!Next \/ UNCHANGED Promise!vars
  <2>1. /\ o \in holders[c] /\ o \in Object /\ o \in Owned
        /\ holders' = [holders EXCEPT ![c] = @ \ {o}]
        /\ UNCHANGED <<allocated, raw>>
    BY <1>7 DEF Reset, IInv, TypeOK, Owned
  <2>2. CASE \E d \in Client \ {c} : o \in holders[d]
    <3>1. Owned' = Owned
      BY <2>1, <2>2 DEF Owned, IInv, TypeOK
    <3> QED BY <2>1, <3>1 DEF Promise!vars
  <2>3. CASE \A d \in Client \ {c} : o \notin holders[d]
    <3>1. Owned' = Owned \ {o}
      BY <2>1, <2>3 DEF Owned, IInv, PlaceInv, RawAlone, TypeOK
    <3> QED BY <2>1, <3>1 DEF Promise!GiveBack, Promise!Next
  <2> QED BY <2>2, <2>3
<1> QED BY <1>1, <1>2, <1>3, <1>4, <1>5, <1>6, <1>7 DEF Next, Deleter

\* What clients see of the pool is an allocator: an object has one owner at a
\* time from construct() to the last reset(), and is deleted once.
THEOREM PoolIsAllocator == Spec => AllocatorSpec
<1>1. Init => Promise!Init
  BY DEF Init, Promise!Init, Owned
<1> QED BY <1>1, Invariance, NextRefines, PTL DEF Spec, AllocatorSpec, Promise!Spec
==============================================================================
