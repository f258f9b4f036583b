----------------------------- MODULE ObjectPool -----------------------------
(***************************************************************************)
(* object_pool and object_pool_strong of common/rrpc/object_pool.hpp.      *)
(*                                                                         *)
(* An object_pool_strong holds the pool proper, inner_, by shared_ptr; its *)
(* copies share it.  An object constructed with_auto_destruct is held by   *)
(* shared_ptrs whose deleter holds inner_ by weak_ptr only: it locks it,   *)
(* gives the object back if that succeeds and deletes the object if not.   *)
(* The destructor of inner_ deletes what is in the lock-free queue.        *)
(*                                                                         *)
(* Clients are threads.  Locking a weak_ptr, letting go of a shared_ptr    *)
(* and each operation of the lock-free queue are atomic.                   *)
(***************************************************************************)
EXTENDS Naturals, FiniteSets, Sequences, SequencesExt

CONSTANTS
  Object,   \* addresses an object may have
  Client,   \* threads
  First,    \* the client that makes the pool
  None

ASSUME ObjectPoolAssumption ==
  /\ First \in Client
  /\ None \notin Object

VARIABLES
  allocated,  \* objects that are constructed and not deleted
  queue,      \* object_pool::queue_
  inner,      \* the object_pool object exists
  pools,      \* clients that hold an object_pool_strong
  holders,    \* objects a client holds a shared_ptr to
  raw,        \* objects a client has got from construct() itself
  pc,         \* where a client is in the deleter of a shared_ptr
  arg         \* the object of that deleter

vars == <<allocated, queue, inner, pools, holders, raw, pc, arg>>

Init ==
  /\ allocated = {}
  /\ queue = <<>>
  /\ inner = TRUE
  /\ pools = {First}
  /\ holders = [c \in Client |-> {}]
  /\ raw = [c \in Client |-> {}]
  /\ pc = [c \in Client |-> "idle"]
  /\ arg = [c \in Client |-> None]

Owned == UNION {holders[c] \cup raw[c] : c \in Client}

\* shared_ptrs to inner_ exist besides those of client c.
InnerReferences(c) ==
  \/ pools \ {c} # {}
  \/ \E d \in Client \ {c} : pc[d] \in {"push", "unlock"}

------------------------------------------------------------------------------
(* object_pool                                                             *)

\* Fault: the result of pop() is not looked at.
ConstructNoNew(o) ==
  /\ o = IF queue = <<>> THEN None ELSE Head(queue)
  /\ queue' = IF queue = <<>> THEN queue ELSE Tail(queue)
  /\ UNCHANGED allocated

\* construct: an object from the queue, as its last owner left it, or a new one.
Construct(o) ==
  \/ /\ queue # <<>>
     /\ o = Head(queue)
     /\ queue' = Tail(queue)
     /\ UNCHANGED allocated
  \/ /\ queue = <<>>
     /\ o \in Object \ allocated
     /\ allocated' = allocated \cup {o}
     /\ UNCHANGED queue

\* destruct: push() fails when the queue cannot get memory for its node.
Destruct(o) ==
  \/ queue' = Append(queue, o) /\ UNCHANGED allocated
  \/ allocated' = allocated \ {o} /\ UNCHANGED queue

\* Fault: ~object_pool leaves the queue as it is.
ReleaseInnerKeepsQueue(isLast) ==
  /\ inner' = (inner /\ ~isLast)
  /\ UNCHANGED <<allocated, queue>>

\* A shared_ptr to inner_ is let go.  If it was the last one, ~object_pool
\* consumes the queue.
ReleaseInner(isLast) ==
  \/ /\ isLast
     /\ inner' = FALSE
     /\ allocated' = allocated \ ToSet(queue)
     /\ queue' = <<>>
  \/ ~isLast /\ UNCHANGED <<inner, allocated, queue>>

------------------------------------------------------------------------------
(* object_pool_strong, used by client c                                    *)

SharePool(c, d) ==
  /\ c \in pools
  /\ pc[c] = "idle"
  /\ pools' = pools \cup {d}
  /\ UNCHANGED <<allocated, queue, inner, holders, raw, pc, arg>>

DropPool(c) ==
  /\ c \in pools
  /\ pc[c] = "idle"
  /\ pools' = pools \ {c}
  /\ ReleaseInner(~InnerReferences(c))
  /\ UNCHANGED <<holders, raw, pc, arg>>

ConstructRaw(c, o) ==
  /\ c \in pools
  /\ pc[c] = "idle"
  /\ Construct(o)
  /\ raw' = [raw EXCEPT ![c] = @ \cup {o}]
  /\ UNCHANGED <<inner, pools, holders, pc, arg>>

DestructRaw(c, o) ==
  /\ c \in pools
  /\ pc[c] = "idle"
  /\ o \in raw[c]
  /\ Destruct(o)
  /\ raw' = [raw EXCEPT ![c] = @ \ {o}]
  /\ UNCHANGED <<inner, pools, holders, pc, arg>>

ConstructWithAutoDestruct(c, o) ==
  /\ c \in pools
  /\ pc[c] = "idle"
  /\ Construct(o)
  /\ holders' = [holders EXCEPT ![c] = @ \cup {o}]
  /\ UNCHANGED <<inner, pools, raw, pc, arg>>

\* A shared_ptr is copied to client d.
Copy(c, d, o) ==
  /\ pc[c] = "idle"
  /\ o \in holders[c]
  /\ holders' = [holders EXCEPT ![d] = @ \cup {o}]
  /\ UNCHANGED <<allocated, queue, inner, pools, raw, pc, arg>>

\* A shared_ptr is let go; the last one runs the deleter.
Reset(c, o) ==
  /\ pc[c] = "idle"
  /\ o \in holders[c]
  /\ holders' = [holders EXCEPT ![c] = @ \ {o}]
  /\ \/ (\E d \in Client \ {c} : o \in holders[d]) /\ UNCHANGED <<pc, arg>>
     \/ /\ \A d \in Client \ {c} : o \notin holders[d]
        /\ pc' = [pc EXCEPT ![c] = "lock"]
        /\ arg' = [arg EXCEPT ![c] = o]
  /\ UNCHANGED <<allocated, queue, inner, pools, raw>>

\* Fault: the deleter has the address of the pool, as in object_pool itself,
\* and goes on as if it were there.
LockNoCheck(c) ==
  /\ pc[c] = "lock"
  /\ pc' = [pc EXCEPT ![c] = "push"]
  /\ UNCHANGED <<allocated, queue, inner, pools, holders, raw, arg>>

\* The deleter: wp.lock().
Lock(c) ==
  /\ pc[c] = "lock"
  /\ pc' = [pc EXCEPT ![c] = IF inner THEN "push" ELSE "delete"]
  /\ UNCHANGED <<allocated, queue, inner, pools, holders, raw, arg>>

\* Fault: the object is deleted whether or not the pool took it.
PushAndDelete(c) ==
  /\ pc[c] = "push"
  /\ queue' = Append(queue, arg[c])
  /\ allocated' = allocated \ {arg[c]}
  /\ pc' = [pc EXCEPT ![c] = "unlock"]
  /\ arg' = [arg EXCEPT ![c] = None]
  /\ UNCHANGED <<inner, pools, holders, raw>>

\* inner->destruct(p).
Push(c) ==
  /\ pc[c] = "push"
  /\ Destruct(arg[c])
  /\ pc' = [pc EXCEPT ![c] = "unlock"]
  /\ arg' = [arg EXCEPT ![c] = None]
  /\ UNCHANGED <<inner, pools, holders, raw>>

\* The local shared_ptr to inner_ goes out of scope.
Unlock(c) ==
  /\ pc[c] = "unlock"
  /\ pc' = [pc EXCEPT ![c] = "idle"]
  /\ ReleaseInner(~InnerReferences(c) /\ c \notin pools)
  /\ UNCHANGED <<pools, holders, raw, arg>>

\* Fault: the else branch is missing.
DeleteForgotten(c) ==
  /\ pc[c] = "delete"
  /\ pc' = [pc EXCEPT ![c] = "idle"]
  /\ arg' = [arg EXCEPT ![c] = None]
  /\ UNCHANGED <<allocated, queue, inner, pools, holders, raw>>

\* delete p, when the pool is gone.
Delete(c) ==
  /\ pc[c] = "delete"
  /\ allocated' = allocated \ {arg[c]}
  /\ pc' = [pc EXCEPT ![c] = "idle"]
  /\ arg' = [arg EXCEPT ![c] = None]
  /\ UNCHANGED <<queue, inner, pools, holders, raw>>

------------------------------------------------------------------------------
Deleter(c) == Lock(c) \/ Push(c) \/ Unlock(c) \/ Delete(c)

Next ==
  \E c \in Client :
    \/ Deleter(c)
    \/ DropPool(c)
    \/ \E d \in Client : SharePool(c, d)
    \/ \E o \in Object \cup {None} :
          \/ ConstructRaw(c, o)
          \/ DestructRaw(c, o)
          \/ ConstructWithAutoDestruct(c, o)
          \/ Reset(c, o)
          \/ \E d \in Client : Copy(c, d, o)

Spec == Init /\ [][Next]_vars

------------------------------------------------------------------------------
(* Properties.                                                             *)

TypeOK ==
  /\ allocated \in SUBSET Object
  /\ queue \in Seq(Object)
  /\ inner \in BOOLEAN
  /\ pools \in SUBSET Client
  /\ holders \in [Client -> SUBSET Object]
  /\ raw \in [Client -> SUBSET Object]
  /\ pc \in [Client -> {"idle", "lock", "push", "unlock", "delete"}]
  /\ arg \in [Client -> Object \cup {None}]

Deleting == {arg[c] : c \in Client} \ {None}

\* An object is in one place: in the queue once, in the hands of clients, or
\* in one deleter.  So no two clients get the same object from the pool, and
\* no object is deleted that someone can still reach.
OnePlace ==
  /\ IsInjective(queue)
  /\ ToSet(queue) \cap (Owned \cup Deleting) = {}
  /\ Owned \cap Deleting = {}
  /\ \A c, d \in Client : c # d /\ arg[c] # None => arg[c] # arg[d]
  /\ ToSet(queue) \cup Owned \cup Deleting \subseteq allocated

\* Every object that is not deleted can still be reached: nothing leaks, also
\* not the object whose last shared_ptr races with the end of the pool.
NoLeak == allocated \subseteq ToSet(queue) \cup Owned \cup Deleting

\* The pool is there for whoever uses it.
InnerThere ==
  \A c \in Client : c \in pools \/ pc[c] \in {"push", "unlock"} => inner

\* The pool is not kept by the objects it has made.
InnerGone ==
  pools = {} /\ (\A c \in Client : pc[c] \notin {"push", "unlock"}) => ~inner /\ queue = <<>>

\* inner_ lives exactly as long as someone uses it, whoever lets go last.
InnerLifetime == InnerThere /\ InnerGone

\* The pool is an allocator.
Promise == INSTANCE Allocator WITH owned <- Owned
AllocatorSpec == Promise!Spec
==============================================================================
