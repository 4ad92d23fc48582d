---------------------------- MODULE ObjectPool ----------------------------
(***************************************************************************)
(* ObjectPool<T>: a free list of objects behind one std::mutex.  acquire() *)
(* takes an object off the list (or allocates one) and wraps it in a       *)
(* shared_ptr whose deleter calls release(); release() runs in whichever   *)
(* thread drops the last handle.                                           *)
(*                                                                         *)
(* The steps between lock and unlock are actions of their own: the list is *)
(* tested in one and changed in another, and T's reset(), cleanup() and    *)
(* destructor run under the lock, where they may drop handles on the same  *)
(* pool.  A std::mutex is not recursive: a thread that locks it again      *)
(* while holding it never gets on (ReleaseEnter stays disabled).           *)
(*                                                                         *)
(* Left out: size(), which changes nothing, and exceptions out of the      *)
(* deleter (cleanup() or vector growth in release()), which end the        *)
(* program.                                                                *)
(***************************************************************************)
EXTENDS Integers, Sequences, FiniteSets, Functions

CONSTANTS
  Threads,      \* threads of the program
  Objs,         \* the objects of type T the heap has room for
  NoThread,     \* "the mutex is free"
  InitialSize,  \* constructor argument initialSize
  MaxSize,      \* constructor argument maxSize
  HasReset,     \* T has a reset() that takes acquire's arguments
  HasCleanup,   \* T has a cleanup()
  CallArgs,     \* the calls made: TRUE is acquire(args...), FALSE acquire()
  Faults        \* what may go wrong, a set of FaultKinds

(* "no_control_block": allocating the shared_ptr's control block throws.   *)
(* "reset_throws":     T::reset() throws.                                  *)
(* "nested":           a T has members that are handles on the same pool.  *)
(* "destroy":          the pool is destroyed while handles are out.        *)
FaultKinds == {"no_control_block", "reset_throws", "nested", "destroy"}

ASSUME PoolAssumption ==
  /\ IsFiniteSet(Objs)
  /\ InitialSize \in Nat /\ MaxSize \in Nat
  /\ NoThread \notin Threads
  /\ Threads \cap Objs = {}
  /\ HasReset \in BOOLEAN /\ HasCleanup \in BOOLEAN
  /\ CallArgs \subseteq BOOLEAN
  /\ Faults \subseteq FaultKinds

VARIABLES
  pool,    \* m_pool, its back() last
  mutex,   \* the thread that holds m_mutex, or NoThread
  pc,      \* where each thread is
  hand,    \* hand[t]: raw pointers in local variables of thread t
  held,    \* held[o]: who holds a shared_ptr on o, threads or objects
  heap,    \* objects allocated and not deleted
  dirty,   \* objects that carry data of an earlier user
  alive    \* the pool itself has not been destroyed

vars == <<pool, mutex, pc, hand, held, heap, dirty, alive>>

Holders == Threads \cup Objs
Pooled  == Range(pool)
Places  == {"idle", "pop", "new", "reset", "wrap", "release", "push", "delete"}

(* The constructor fills the list with initialSize objects, whatever       *)
(* maxSize is.                                                             *)
Init ==
  /\ pool \in [1..InitialSize -> Objs] /\ IsInjective(pool)
  /\ mutex = NoThread
  /\ pc = [t \in Threads |-> "idle"]
  /\ hand = [t \in Threads |-> {}]
  /\ held = [o \in Objs |-> {}]
  /\ heap = Range(pool)
  /\ dirty = {}
  /\ alive = TRUE

---------------------------------------------------------------------------
Locks(t) == mutex = NoThread /\ mutex' = t
StaysLocked == UNCHANGED mutex  \* seeded fault: an exit path without unlock
Unlocks  == mutex' = NoThread

(* A call that holds the lock returns or throws. *)
Leaves(t) ==
  /\ Unlocks
  /\ pc' = [pc EXCEPT ![t] = "idle"]
  /\ hand' = [hand EXCEPT ![t] = {}]

(* release() keeps an object only while the list is below maxSize. *)
RoomUnchecked == TRUE  \* seeded fault: the list grows without limit
HasRoom == Len(pool) < MaxSize

(* T::reset() is called only when acquire() has arguments and T a reset()  *)
(* that takes them; otherwise the object is handed out as it is.           *)
NeverReset(args) == "wrap"  \* seeded fault: reset() is never called
AfterTake(args) == IF args /\ HasReset THEN "reset" ELSE "wrap"

(* Objects that become unreferenced when the objects in S are wiped or     *)
(* destroyed, and the handles that remain then.                            *)
LastMembers(S)    == {m \in Objs : held[m] # {} /\ held[m] \subseteq S}
WithoutHolders(S) == [m \in Objs |-> held[m] \ S]

(* Thread t, in the middle of wiping or destroying the objects in S, drops *)
(* the last handle on a member: its deleter calls release() in t.          *)
NestedRelease(t, S) ==
  \E m \in LastMembers(S) :
    /\ held' = [held EXCEPT ![m] = {}]
    /\ hand' = [hand EXCEPT ![t] = @ \cup {m}]
    /\ pc' = [pc EXCEPT ![t] = "release"]

---------------------------------------------------------------------------
(* acquire(): lock and look at the list. *)
EagerEnter(t) ==  \* seeded fault: allocates with one object still on the list
  /\ pc[t] = "idle" /\ alive
  /\ Locks(t)
  /\ pc' = [pc EXCEPT ![t] = IF Len(pool) <= 1 THEN "new" ELSE "pop"]
  /\ UNCHANGED <<pool, hand, held, heap, dirty, alive>>
AcquireEnter(t) ==
  /\ pc[t] = "idle" /\ alive
  /\ Locks(t)
  /\ pc' = [pc EXCEPT ![t] = IF pool = <<>> THEN "new" ELSE "pop"]
  /\ UNCHANGED <<pool, hand, held, heap, dirty, alive>>

(* back().release() and pop_back(). *)
LooksAtBack(t) ==  \* seeded fault: the object stays on the list
  hand' = [hand EXCEPT ![t] = {pool[Len(pool)]}] /\ UNCHANGED pool
TakesBack(t) ==
  /\ hand' = [hand EXCEPT ![t] = {pool[Len(pool)]}]
  /\ pool' = SubSeq(pool, 1, Len(pool) - 1)

AcquirePop(t) ==
  /\ pc[t] = "pop"
  /\ TakesBack(t)
  /\ \E args \in CallArgs : pc' = [pc EXCEPT ![t] = AfterTake(args)]
  /\ UNCHANGED <<mutex, held, heap, dirty, alive>>

(* new T(). *)
AcquireNew(t) ==
  /\ pc[t] = "new"
  /\ \E o \in Objs \ heap :
       /\ hand' = [hand EXCEPT ![t] = {o}]
       /\ heap' = heap \cup {o}
       /\ dirty' = dirty \ {o}
  /\ \E args \in CallArgs : pc' = [pc EXCEPT ![t] = AfterTake(args)]
  /\ UNCHANGED <<pool, mutex, held, alive>>

(* new T() throws: there is no memory, or T's constructor throws, and the  *)
(* memory is given back.                                                   *)
AcquireNoMemory(t) ==
  /\ pc[t] = "new"
  /\ Leaves(t)
  /\ UNCHANGED <<pool, held, heap, dirty, alive>>

(* raw->reset(args...), which overwrites every member of the object. *)
AcquireReset(t) ==
  /\ pc[t] = "reset"
  /\ LastMembers(hand[t]) = {}
  /\ held' = WithoutHolders(hand[t])
  /\ dirty' = dirty \ hand[t]
  /\ pc' = [pc EXCEPT ![t] = "wrap"]
  /\ UNCHANGED <<pool, mutex, hand, heap, alive>>

(* reset() throws: lock_guard unlocks, and nobody owns the raw pointer. *)
AcquireResetThrows(t) ==
  /\ "reset_throws" \in Faults
  /\ pc[t] = "reset"
  /\ Leaves(t)
  /\ UNCHANGED <<pool, held, heap, dirty, alive>>

(* The shared_ptr is built and returned, the lock given up. *)
AcquireWrap(t) ==
  /\ pc[t] = "wrap"
  /\ \E o \in hand[t] : held' = [held EXCEPT ![o] = {t}]
  /\ Leaves(t)
  /\ UNCHANGED <<pool, heap, dirty, alive>>

(* shared_ptr's constructor throws after calling the deleter: release()    *)
(* runs while this acquire() still holds the lock.                         *)
AcquireNoControlBlock(t) ==
  /\ "no_control_block" \in Faults
  /\ pc[t] = "wrap"
  /\ pc' = [pc EXCEPT ![t] = "release"]
  /\ UNCHANGED <<pool, mutex, hand, held, heap, dirty, alive>>

---------------------------------------------------------------------------
(* The callers: what code that holds handles does with them. *)

(* t changes the object. *)
Use(t, o) ==
  /\ pc[t] = "idle" /\ t \in held[o]
  /\ dirty' = dirty \cup {o}
  /\ UNCHANGED <<pool, mutex, pc, hand, held, heap, alive>>

(* t gives another thread a copy of its handle, or stores one in an object *)
(* it holds.                                                               *)
Share(t, h, o) ==
  /\ pc[t] = "idle" /\ t \in held[o] /\ h \notin held[o]
  /\ h \in Objs => "nested" \in Faults /\ t \in held[h]
  /\ held' = [held EXCEPT ![o] = @ \cup {h}]
  /\ dirty' = dirty \cup ({h} \cap Objs)
  /\ UNCHANGED <<pool, mutex, pc, hand, heap, alive>>

(* t destroys a handle on o, its own or one stored in an object it holds;  *)
(* the deleter of the last one calls release(), whose null check passes.   *)
DropHandle(t, h, o) ==
  /\ pc[t] = "idle" /\ h \in held[o]
  /\ h = t \/ (h \in Objs /\ t \in held[h])
  /\ held' = [held EXCEPT ![o] = @ \ {h}]
  /\ IF held[o] = {h}
     THEN /\ hand' = [hand EXCEPT ![t] = {o}]
          /\ pc' = [pc EXCEPT ![t] = "release"]
     ELSE UNCHANGED <<hand, pc>>
  /\ UNCHANGED <<pool, mutex, heap, dirty, alive>>

---------------------------------------------------------------------------
(* release(): lock and compare sizes.  Locking the mutex of a destroyed    *)
(* pool is undefined; the model lets the thread stop there.                *)
WaitForRoom(t) ==  \* seeded fault: a full list makes the caller wait
  /\ pc[t] = "release" /\ alive /\ HasRoom
  /\ Locks(t)
  /\ pc' = [pc EXCEPT ![t] = "push"]
  /\ UNCHANGED <<pool, hand, held, heap, dirty, alive>>
ReleaseEnter(t) ==
  /\ pc[t] = "release" /\ alive
  /\ Locks(t)
  /\ pc' = [pc EXCEPT ![t] = IF HasRoom THEN "push" ELSE "delete"]
  /\ UNCHANGED <<pool, hand, held, heap, dirty, alive>>

(* cleanup() if T has one, then push_back. *)
NotCleaned(t) == UNCHANGED <<held, dirty>>  \* seeded fault: no cleanup()
Cleaned(t) ==
  IF HasCleanup
  THEN /\ LastMembers(hand[t]) = {}
       /\ held' = WithoutHolders(hand[t])
       /\ dirty' = dirty \ hand[t]
  ELSE UNCHANGED <<held, dirty>>

ReleasePush(t) ==
  /\ pc[t] = "push"
  /\ Cleaned(t)
  /\ \E o \in hand[t] : pool' = Append(pool, o)
  /\ Leaves(t)
  /\ UNCHANGED <<heap, alive>>

(* delete obj. *)
Forgets(S) == UNCHANGED <<held, heap>>  \* seeded fault: no delete
Deletes(S) ==
  /\ LastMembers(S) = {}
  /\ held' = WithoutHolders(S)
  /\ heap' = heap \ S

ReleaseDelete(t) ==
  /\ pc[t] = "delete"
  /\ Deletes(hand[t])
  /\ Leaves(t)
  /\ UNCHANGED <<pool, dirty, alive>>

(* reset(), cleanup() or the destructor, run under the lock, drops the     *)
(* last handle on another object of this pool.                             *)
WipeReenters(t) ==
  /\ pc[t] \in {"reset", "delete"} \/ (pc[t] = "push" /\ HasCleanup)
  /\ NestedRelease(t, hand[t])
  /\ UNCHANGED <<pool, mutex, heap, dirty, alive>>

(* The objects on the list are destroyed, by clear() or ~ObjectPool(). *)
KeepDeleted  == Deletes(Pooled) /\ UNCHANGED pool  \* seeded fault
DeletePooled == Deletes(Pooled) /\ pool' = <<>>

(* clear(). *)
Clear(t) ==
  /\ pc[t] = "idle" /\ alive
  /\ mutex = NoThread
  /\ \/ DeletePooled /\ UNCHANGED <<mutex, pc, hand>>
     \/ NestedRelease(t, Pooled) /\ mutex' = t /\ UNCHANGED <<pool, heap>>
  /\ UNCHANGED <<dirty, alive>>

(* ~ObjectPool(), while no call is inside.  m_mutex is declared after      *)
(* m_pool and so is destroyed before the objects are.                      *)
Destroy(t) ==
  /\ "destroy" \in Faults
  /\ pc[t] = "idle" /\ alive
  /\ mutex = NoThread
  /\ alive' = FALSE
  /\ \/ DeletePooled /\ UNCHANGED <<pc, hand>>
     \/ NestedRelease(t, Pooled) /\ UNCHANGED <<pool, heap>>
  /\ UNCHANGED <<mutex, dirty>>

---------------------------------------------------------------------------
Acquire(t) ==
  \/ AcquireEnter(t) \/ AcquirePop(t) \/ AcquireNew(t) \/ AcquireNoMemory(t)
  \/ AcquireReset(t) \/ AcquireResetThrows(t)
  \/ AcquireWrap(t) \/ AcquireNoControlBlock(t)

Release(t) ==
  ReleaseEnter(t) \/ ReleasePush(t) \/ ReleaseDelete(t) \/ WipeReenters(t)

Client(t) ==
  \E o \in Objs :
    Use(t, o) \/ \E h \in Holders : Share(t, h, o) \/ DropHandle(t, h, o)

Next ==
  \E t \in Threads :
    Acquire(t) \/ Release(t) \/ Client(t) \/ Clear(t) \/ Destroy(t)

(* A thread inside a call keeps running.  Nothing forces a call to be      *)
(* made, and std::mutex is not fair: weak fairness of ReleaseEnter only    *)
(* says that a free lock nobody else takes is taken.                       *)
InsideStep(t) ==
  \/ AcquirePop(t) \/ AcquireNew(t) \/ AcquireNoMemory(t)
  \/ AcquireReset(t) \/ AcquireWrap(t)
  \/ Release(t)

Spec     == Init /\ [][Next]_vars
FairSpec == Spec /\ \A t \in Threads : WF_vars(InsideStep(t))

---------------------------------------------------------------------------
(* The variables have their types, and the list stays within the larger of *)
(* the two sizes the constructor is given.                                 *)
TypeOK ==
  /\ pool \in Seq(Objs)
  /\ Len(pool) <= InitialSize \/ Len(pool) <= MaxSize
  /\ mutex \in Threads \cup {NoThread}
  /\ pc \in [Threads -> Places]
  /\ hand \in [Threads -> SUBSET Objs]
  /\ held \in [Objs -> SUBSET Holders]
  /\ heap \in SUBSET Objs
  /\ dirty \in SUBSET Objs
  /\ alive \in BOOLEAN

(* No object is in two places: on the list twice, on the list and in use,  *)
(* in use and on its way back, or on its way through two threads; and no   *)
(* place refers to a deleted object.  Double release and use after free    *)
(* are what acquire() and release() must exclude.                          *)
UniqueOwner ==
  /\ IsInjective(pool)
  /\ \A o \in Pooled : o \in heap /\ held[o] = {}
  /\ \A t \in Threads, o \in Objs :
       o \in hand[t] =>
         /\ o \in heap /\ o \notin Pooled /\ held[o] = {}
         /\ \A u \in Threads \ {t} : o \notin hand[u]
  /\ \A o \in Objs : held[o] # {} => o \in heap

(* Every allocated object is on the list, in use, or in the hands of a     *)
(* thread that is handing it out or back: acquire() and release() lose     *)
(* none (true as long as reset() does not throw).                          *)
NoLeak ==
  heap = Pooled \cup {o \in Objs : held[o] # {}} \cup UNION {hand[t] : t \in Threads}

(* A thread comes to wait in release() for the lock it holds itself        *)
(* (memory_pool.hpp:60) only in a step that runs the deleter under the     *)
(* lock: a control block that cannot be allocated, or the wiping of an     *)
(* object that has the last handle on another.  No handle dropped outside  *)
(* the pool does it, whichever way the thread left the pool before.        *)
SelfLocked(t) == pc[t] = "release" /\ mutex = t
SelfLockHasCause ==
  [][\A t \in Threads :
       ~SelfLocked(t) /\ SelfLocked(t)' =>
         \/ "no_control_block" \in Faults /\ pc[t] = "wrap"
         \/ \E m \in LastMembers(hand[t]) \cup LastMembers(Pooled) : m \in hand'[t]]_vars

(* An object that acquire() hands out carries nothing of an earlier user   *)
(* (true if T has a cleanup(), or if each call passes arguments that T's   *)
(* reset() takes).                                                         *)
FreshHandout ==
  [][\A o \in Objs : held[o] = {} /\ held'[o] # {} => o \notin dirty]_vars

(* Seen by its callers the pool is a lease of objects to holders. *)
Lease == INSTANCE ObjectLease WITH users <- held
LeaseSpec == Lease!Spec

(* The lock is always given up again, on every path out of acquire(),      *)
(* release() and clear().                                                  *)
MutexFreed == \A t \in Threads : mutex = t ~> mutex = NoThread

(* A thread that returns an object is kept waiting only by others that     *)
(* take the lock again and again.                                          *)
ReturnGetsThrough ==
  \A t \in Threads :
    []<>(pc[t] # "release") \/ []<>(mutex # NoThread)

(* The object of a dropped handle goes back: "monster otomatik olarak      *)
(* pool'a geri doner" (memory_pool.hpp:165), for a thread that has the     *)
(* lock to itself.                                                         *)
Returned == \A t \in Threads : pc[t] = "release" ~> pc[t] = "idle"
=============================================================================
