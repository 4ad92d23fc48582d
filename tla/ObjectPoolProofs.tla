------------------------- MODULE ObjectPoolProofs -------------------------
(* Theorems about ObjectPool, for any threads, objects, sizes and faults. *)
EXTENDS MCObjectPool, SequenceTheorems, FiniteSetTheorems, TLAPS

---------------------------------------------------------------------------
(* Facts about the list.                                                   *)

(* push_back adds one object to those on the list. *)
LEMMA AppendFacts ==
  ASSUME NEW S, NEW s \in Seq(S), NEW x \in S
  PROVE  /\ Append(s, x) \in Seq(S)
         /\ Len(Append(s, x)) = Len(s) + 1
         /\ Range(Append(s, x)) = Range(s) \cup {x}
         /\ IsInjective(s) /\ x \notin Range(s) => IsInjective(Append(s, x))
<1> DEFINE a == Append(s, x)
<1>1. /\ a \in Seq(S) /\ Len(a) = Len(s) + 1
      /\ \A i \in 1..Len(s) : a[i] = s[i]
      /\ a[Len(s) + 1] = x
  BY AppendProperties
<1>2. DOMAIN a = 1..(Len(s) + 1) /\ DOMAIN s = 1..Len(s) /\ Len(s) \in Nat
  BY <1>1, LenProperties
<1>3. Range(a) = Range(s) \cup {x}
  <2>1. Range(a) \subseteq Range(s) \cup {x}
    BY <1>1, <1>2 DEF Range
  <2>2. Range(s) \subseteq Range(a)
    BY <1>1, <1>2 DEF Range
  <2>3. x \in Range(a)
    <3>1. Len(s) + 1 \in DOMAIN a
      BY <1>2
    <3> QED BY <3>1, <1>1 DEF Range
  <2> QED BY <2>1, <2>2, <2>3
<1>4. IsInjective(s) /\ x \notin Range(s) => IsInjective(a)
  BY <1>1, <1>2 DEF Range, IsInjective
<1> QED BY <1>1, <1>3, <1>4

(* back() and pop_back() split the list into its last object and the rest. *)
LEMMA BackFacts ==
  ASSUME NEW S, NEW s \in Seq(S), s # <<>>
  PROVE  LET f == SubSeq(s, 1, Len(s) - 1) IN
         /\ f \in Seq(S)
         /\ Len(f) = Len(s) - 1
         /\ s[Len(s)] \in S /\ s[Len(s)] \in Range(s)
         /\ Range(f) \subseteq Range(s)
         /\ IsInjective(s) => IsInjective(f) /\ s[Len(s)] \notin Range(f)
<1> DEFINE f == SubSeq(s, 1, Len(s) - 1)
<1>1. Len(s) \in Nat /\ Len(s) > 0 /\ DOMAIN s = 1..Len(s)
  BY EmptySeq, LenProperties
<1>2. s[Len(s)] \in S /\ s[Len(s)] \in Range(s)
  BY <1>1, ElementOfSeq DEF Range
<1>3. /\ f \in Seq(S) /\ Len(f) = Len(s) - 1
      /\ \A i \in 1..(Len(s) - 1) : f[i] = s[i]
  BY <1>1, SubSeqProperties
<1>4. DOMAIN f = 1..(Len(s) - 1)
  BY <1>3, LenProperties
<1>5. Range(f) \subseteq Range(s)
  BY <1>1, <1>3, <1>4 DEF Range
<1>6. IsInjective(s) => IsInjective(f) /\ s[Len(s)] \notin Range(f)
  BY <1>1, <1>3, <1>4 DEF Range, IsInjective
<1> QED BY <1>2, <1>3, <1>5, <1>6
---------------------------------------------------------------------------
(* The inductive invariant.  UniqueOwner alone is not inductive: that a    *)
(* popped or pushed object is in no other place follows from where each    *)
(* thread is (HandInv), that the list is still as it was tested from the   *)
(* lock (LockInv, ListInv), and that a wiped object takes only dead        *)
(* holders with it from MembersAlive.                                      *)

Inside == {"pop", "new", "reset", "wrap", "push", "delete"}

(* Only the thread that holds the lock is between lock and unlock. *)
LockInv ==
  \A t \in Threads :
    /\ pc[t] \in Inside => mutex = t
    /\ pc[t] = "idle" => mutex # t

(* What was seen of the list when the lock was taken is still true. *)
ListInv ==
  \A t \in Threads :
    /\ pc[t] = "pop" => pool # <<>>
    /\ pc[t] = "push" => Len(pool) < MaxSize

(* A thread has one object in hand while it hands it out or back. *)
HandInv ==
  \A t \in Threads :
    /\ pc[t] \in {"idle", "pop", "new"} => hand[t] = {}
    /\ \/ pc[t] \in {"reset", "wrap", "push", "delete"}
       \/ pc[t] = "release" /\ mutex # t
       => \E o \in Objs : hand[t] = {o}

(* Objects that hold handles exist. *)
MembersAlive == \A o \in Objs : held[o] \cap Objs \subseteq heap

IInv == TypeOK /\ LockInv /\ ListInv /\ HandInv /\ UniqueOwner /\ MembersAlive

(* The constructor establishes the inductive invariant.                    *)
LEMMA InitIInv == Init => IInv
<1> SUFFICES ASSUME Init PROVE IInv
  OBVIOUS
<1> USE PoolAssumption DEF Init
<1>1. pool \in Seq(Objs) /\ Len(pool) = InitialSize
  OBVIOUS
<1>2. Range(pool) \subseteq Objs
  BY <1>1 DEF Range
<1>3. TypeOK
  BY <1>1, <1>2 DEF TypeOK, Places, Holders
<1>4. LockInv /\ ListInv /\ HandInv /\ MembersAlive
  BY DEF LockInv, ListInv, HandInv, MembersAlive, Inside
<1>5. UniqueOwner
  BY <1>2 DEF UniqueOwner, Pooled
<1> QED BY <1>3, <1>4, <1>5 DEF IInv

(* clear() and the destructor leave an empty list. *)
LEMMA DeletePooledKeepsIInv ==
  ASSUME IInv, DeletePooled, mutex = NoThread,
         UNCHANGED <<mutex, pc, hand, dirty>>, alive' \in BOOLEAN
  PROVE  IInv'
<1> USE DEF IInv, DeletePooled, Deletes, WithoutHolders
<1>1. /\ pool' \in Seq(Objs) /\ Len(pool') = 0
      /\ IsInjective(pool') /\ Pooled' = {}
  <2>1. pool' = <<>>
    OBVIOUS
  <2> QED BY <2>1 DEF IsInjective, Pooled, Range
<1>2. TypeOK'
  <2>1. 0 <= MaxSize
    BY PoolAssumption
  <2> QED BY <1>1, <2>1 DEF TypeOK
<1>3. LockInv' /\ ListInv' /\ HandInv'
  BY PoolAssumption DEF TypeOK, LockInv, ListInv, HandInv, Inside
<1>4. UniqueOwner' /\ MembersAlive'
  BY <1>1 DEF TypeOK, HandInv, UniqueOwner, MembersAlive
<1> QED BY <1>2, <1>3, <1>4

(* Every step of acquire(), release(), clear(), the destructor and the     *)
(* callers keeps it.                                                       *)
LEMMA NextIInv == IInv /\ [Next]_vars => IInv'
<1> SUFFICES ASSUME IInv, [Next]_vars PROVE IInv'
  OBVIOUS
<1> USE PoolAssumption DEF IInv
<1>1. ASSUME NEW t \in Threads, AcquireEnter(t) PROVE IInv'
  <2> USE <1>1 DEF AcquireEnter, Locks
  <2>1. TypeOK'
    BY DEF TypeOK, Places, Holders
  <2>2. LockInv' /\ ListInv' /\ HandInv'
    BY DEF TypeOK, LockInv, ListInv, HandInv, Inside, Places
  <2>3. UniqueOwner' /\ MembersAlive'
    BY DEF TypeOK, HandInv, UniqueOwner, MembersAlive, Pooled
  <2> QED BY <2>1, <2>2, <2>3
<1>2. ASSUME NEW t \in Threads, AcquirePop(t) PROVE IInv'
  <2> USE <1>2 DEF AcquirePop, TakesBack, AfterTake
  <2> DEFINE o == pool[Len(pool)]
  <2>0. /\ pool' \in Seq(Objs) /\ Len(pool') = Len(pool) - 1
        /\ o \in Objs /\ o \in Pooled
        /\ Pooled' \subseteq Pooled
        /\ IsInjective(pool') /\ o \notin Pooled'
    <3>1. pool \in Seq(Objs) /\ pool # <<>> /\ IsInjective(pool)
      BY DEF TypeOK, ListInv, UniqueOwner
    <3> QED BY <3>1, BackFacts DEF Pooled
  <2>1. TypeOK'
    <3>1. Len(pool) \in Nat
      BY LenProperties DEF TypeOK
    <3> QED BY <2>0, <3>1 DEF TypeOK, Places, Holders
  <2>2. LockInv' /\ ListInv' /\ HandInv'
    BY <2>0 DEF TypeOK, LockInv, ListInv, HandInv, Inside, Places
  <2>3. UniqueOwner' /\ MembersAlive'
    BY <2>0 DEF TypeOK, HandInv, UniqueOwner, MembersAlive
  <2> QED BY <2>1, <2>2, <2>3
<1>3. ASSUME NEW t \in Threads, AcquireNew(t) PROVE IInv'
  <2> USE <1>3 DEF AcquireNew, AfterTake
  <2>1. TypeOK'
    BY DEF TypeOK, Places, Holders
  <2>2. LockInv' /\ ListInv' /\ HandInv'
    BY DEF TypeOK, LockInv, ListInv, HandInv, Inside, Places
  <2>3. UniqueOwner' /\ MembersAlive'
    BY DEF TypeOK, HandInv, UniqueOwner, MembersAlive, Pooled
  <2> QED BY <2>1, <2>2, <2>3
<1>4. ASSUME NEW t \in Threads, AcquireNoMemory(t) PROVE IInv'
  <2> USE <1>4 DEF AcquireNoMemory, Leaves, Unlocks
  <2>1. TypeOK'
    BY DEF TypeOK, Places, Holders
  <2>2. LockInv' /\ ListInv' /\ HandInv'
    BY DEF TypeOK, LockInv, ListInv, HandInv, Inside, Places
  <2>3. UniqueOwner' /\ MembersAlive'
    BY DEF TypeOK, HandInv, UniqueOwner, MembersAlive, Pooled
  <2> QED BY <2>1, <2>2, <2>3
<1>5. ASSUME NEW t \in Threads, AcquireReset(t) PROVE IInv'
  <2> USE <1>5 DEF AcquireReset, WithoutHolders
  <2>1. TypeOK'
    BY DEF TypeOK, Places, Holders
  <2>2. LockInv' /\ ListInv' /\ HandInv'
    BY DEF TypeOK, LockInv, ListInv, HandInv, Inside, Places
  <2>3. UniqueOwner' /\ MembersAlive'
    BY DEF TypeOK, HandInv, UniqueOwner, MembersAlive, Pooled
  <2> QED BY <2>1, <2>2, <2>3
<1>6. ASSUME NEW t \in Threads, AcquireResetThrows(t) PROVE IInv'
  <2> USE <1>6 DEF AcquireResetThrows, Leaves, Unlocks
  <2>1. TypeOK'
    BY DEF TypeOK, Places, Holders
  <2>2. LockInv' /\ ListInv' /\ HandInv'
    BY DEF TypeOK, LockInv, ListInv, HandInv, Inside, Places
  <2>3. UniqueOwner' /\ MembersAlive'
    BY DEF TypeOK, HandInv, UniqueOwner, MembersAlive, Pooled
  <2> QED BY <2>1, <2>2, <2>3
<1>7. ASSUME NEW t \in Threads, AcquireWrap(t) PROVE IInv'
  <2> USE <1>7 DEF AcquireWrap, Leaves, Unlocks
  <2>1. TypeOK'
    BY DEF TypeOK, Places, Holders
  <2>2. LockInv' /\ ListInv' /\ HandInv'
    BY DEF TypeOK, LockInv, ListInv, HandInv, Inside, Places
  <2>3. UniqueOwner' /\ MembersAlive'
    BY DEF TypeOK, HandInv, UniqueOwner, MembersAlive, Pooled
  <2> QED BY <2>1, <2>2, <2>3
<1>8. ASSUME NEW t \in Threads, AcquireNoControlBlock(t) PROVE IInv'
  <2> USE <1>8 DEF AcquireNoControlBlock
  <2>1. TypeOK'
    BY DEF TypeOK, Places, Holders
  <2>2. LockInv' /\ ListInv' /\ HandInv'
    BY DEF TypeOK, LockInv, ListInv, HandInv, Inside, Places
  <2>3. UniqueOwner' /\ MembersAlive'
    BY DEF TypeOK, HandInv, UniqueOwner, MembersAlive, Pooled
  <2> QED BY <2>1, <2>2, <2>3
<1>9. ASSUME NEW t \in Threads, ReleaseEnter(t) PROVE IInv'
  <2> USE <1>9 DEF ReleaseEnter, Locks, HasRoom
  <2>1. TypeOK'
    BY DEF TypeOK, Places, Holders
  <2>2. LockInv' /\ ListInv' /\ HandInv'
    BY DEF TypeOK, LockInv, ListInv, HandInv, Inside, Places
  <2>3. UniqueOwner' /\ MembersAlive'
    BY DEF TypeOK, HandInv, UniqueOwner, MembersAlive, Pooled
  <2> QED BY <2>1, <2>2, <2>3
<1>10. ASSUME NEW t \in Threads, ReleasePush(t) PROVE IInv'
  <2> USE <1>10 DEF ReleasePush, Cleaned, WithoutHolders, Leaves, Unlocks
  <2> PICK o \in Objs : hand[t] = {o}
    BY DEF HandInv
  <2>0. /\ pool' \in Seq(Objs) /\ Len(pool') = Len(pool) + 1
        /\ Pooled' = Pooled \cup {o}
        /\ IsInjective(pool')
    <3>1. /\ pool \in Seq(Objs) /\ IsInjective(pool)
          /\ o \notin Range(pool) /\ pool' = Append(pool, o)
      BY DEF TypeOK, UniqueOwner, Pooled
    <3> QED BY <3>1, AppendFacts DEF Pooled
  <2>1. TypeOK'
    <3>1. Len(pool) \in Nat /\ Len(pool) < MaxSize
      BY LenProperties DEF TypeOK, ListInv
    <3> QED BY <2>0, <3>1 DEF TypeOK, Places, Holders
  <2>2. LockInv' /\ ListInv' /\ HandInv'
    BY DEF TypeOK, LockInv, ListInv, HandInv, Inside, Places
  <2>3. UniqueOwner' /\ MembersAlive'
    BY <2>0 DEF TypeOK, HandInv, UniqueOwner, MembersAlive
  <2> QED BY <2>1, <2>2, <2>3
<1>11. ASSUME NEW t \in Threads, ReleaseDelete(t) PROVE IInv'
  <2> USE <1>11 DEF ReleaseDelete, Deletes, WithoutHolders, Leaves, Unlocks
  <2>1. TypeOK'
    BY DEF TypeOK, Places, Holders
  <2>2. LockInv' /\ ListInv' /\ HandInv'
    BY DEF TypeOK, LockInv, ListInv, HandInv, Inside, Places
  <2>3. UniqueOwner' /\ MembersAlive'
    BY DEF TypeOK, HandInv, UniqueOwner, MembersAlive, Pooled
  <2> QED BY <2>1, <2>2, <2>3
<1>12. ASSUME NEW t \in Threads, WipeReenters(t) PROVE IInv'
  <2> USE <1>12 DEF WipeReenters, NestedRelease, LastMembers
  <2>1. TypeOK'
    BY DEF TypeOK, Places, Holders
  <2>2. LockInv' /\ ListInv' /\ HandInv'
    BY DEF TypeOK, LockInv, ListInv, HandInv, Inside, Places
  <2>3. UniqueOwner' /\ MembersAlive'
    BY DEF TypeOK, HandInv, UniqueOwner, MembersAlive, Pooled
  <2> QED BY <2>1, <2>2, <2>3
<1>13. ASSUME NEW t \in Threads, NEW o \in Objs, Use(t, o)
     PROVE  IInv'
  <2> USE <1>13 DEF Use
  <2>1. TypeOK'
    BY DEF TypeOK, Places, Holders
  <2>2. LockInv' /\ ListInv' /\ HandInv'
    BY DEF TypeOK, LockInv, ListInv, HandInv, Inside, Places
  <2>3. UniqueOwner' /\ MembersAlive'
    BY DEF TypeOK, HandInv, UniqueOwner, MembersAlive, Pooled
  <2> QED BY <2>1, <2>2, <2>3
<1>14. ASSUME NEW t \in Threads, NEW h \in Holders, NEW o \in Objs, Share(t, h, o)
     PROVE  IInv'
  <2> USE <1>14 DEF Share, Holders
  <2>1. TypeOK'
    BY DEF TypeOK, Places, Holders
  <2>2. LockInv' /\ ListInv' /\ HandInv'
    BY DEF TypeOK, LockInv, ListInv, HandInv, Inside, Places
  <2>3. UniqueOwner' /\ MembersAlive'
    BY DEF TypeOK, HandInv, UniqueOwner, MembersAlive, Pooled
  <2> QED BY <2>1, <2>2, <2>3
<1>15. ASSUME NEW t \in Threads, NEW h \in Holders, NEW o \in Objs, DropHandle(t, h, o)
     PROVE  IInv'
  <2> USE <1>15 DEF DropHandle, Holders
  <2>1. TypeOK'
    BY DEF TypeOK, Places, Holders
  <2>2. LockInv' /\ ListInv' /\ HandInv'
    BY DEF TypeOK, LockInv, ListInv, HandInv, Inside, Places
  <2>3. UniqueOwner' /\ MembersAlive'
    BY DEF TypeOK, HandInv, UniqueOwner, MembersAlive, Pooled
  <2> QED BY <2>1, <2>2, <2>3
<1>16. ASSUME NEW t \in Threads, Clear(t) PROVE IInv'
  <2>1. CASE DeletePooled /\ UNCHANGED <<mutex, pc, hand>>
    <3>1. UNCHANGED <<mutex, pc, hand, dirty>> /\ alive' \in BOOLEAN
      BY <1>16, <2>1 DEF Clear, TypeOK
    <3> QED BY <1>16, <2>1, <3>1, DeletePooledKeepsIInv DEF Clear
  <2>2. CASE NestedRelease(t, Pooled) /\ mutex' = t /\ UNCHANGED <<pool, heap>>
    <3>0. /\ pc[t] = "idle" /\ mutex' \in {mutex, t} /\ mutex = NoThread
          /\ dirty' = dirty /\ alive' \in BOOLEAN
      BY <1>16, <2>2 DEF Clear, TypeOK
    <3> USE <2>2, <3>0 DEF NestedRelease, LastMembers
    <3>1. TypeOK'
      BY DEF TypeOK, Places, Holders
    <3>2. LockInv' /\ ListInv' /\ HandInv'
      BY DEF TypeOK, LockInv, ListInv, HandInv, Inside, Places
    <3>3. UniqueOwner' /\ MembersAlive'
      BY DEF TypeOK, HandInv, UniqueOwner, MembersAlive, Pooled
    <3> QED BY <3>1, <3>2, <3>3
  <2> QED BY <1>16, <2>1, <2>2 DEF Clear
<1>17. ASSUME NEW t \in Threads, Destroy(t) PROVE IInv'
  <2>1. CASE DeletePooled /\ UNCHANGED <<pc, hand>>
    <3>1. UNCHANGED <<mutex, pc, hand, dirty>> /\ alive' \in BOOLEAN
      BY <1>17, <2>1 DEF Destroy, TypeOK
    <3> QED BY <1>17, <2>1, <3>1, DeletePooledKeepsIInv DEF Destroy
  <2>2. CASE NestedRelease(t, Pooled) /\ UNCHANGED <<pool, heap>>
    <3>0. /\ pc[t] = "idle" /\ mutex' \in {mutex, t} /\ mutex = NoThread
          /\ dirty' = dirty /\ alive' \in BOOLEAN
      BY <1>17, <2>2 DEF Destroy, TypeOK
    <3> USE <2>2, <3>0 DEF NestedRelease, LastMembers
    <3>1. TypeOK'
      BY DEF TypeOK, Places, Holders
    <3>2. LockInv' /\ ListInv' /\ HandInv'
      BY DEF TypeOK, LockInv, ListInv, HandInv, Inside, Places
    <3>3. UniqueOwner' /\ MembersAlive'
      BY DEF TypeOK, HandInv, UniqueOwner, MembersAlive, Pooled
    <3> QED BY <3>1, <3>2, <3>3
  <2> QED BY <1>17, <2>1, <2>2 DEF Destroy
<1>18. ASSUME UNCHANGED vars PROVE IInv'
  BY <1>18 DEF vars, TypeOK, LockInv, ListInv, HandInv, UniqueOwner,
     MembersAlive, Pooled
<1> QED
  BY <1>1, <1>2, <1>3, <1>4, <1>5, <1>6, <1>7, <1>8, <1>9, <1>10, <1>11, <1>12,
     <1>13, <1>14, <1>15, <1>16, <1>17, <1>18
     DEF Next, Acquire, Release, Client

(* So it holds in every state the pool can reach.                          *)
THEOREM SpecIInv == Spec => []IInv
<1>1. Init => IInv
  BY InitIInv
<1>2. IInv /\ [Next]_vars => IInv'
  BY NextIInv
<1> QED BY <1>1, <1>2, PTL DEF Spec

(* TypeOK and the bound on the list hold in every reachable state. *)
THEOREM TypeCorrect == Spec => []TypeOK
BY SpecIInv, PTL DEF IInv

(* acquire() and release() never have one object in two places, whatever   *)
(* exceptions, nested handles or early destruction they meet.              *)
THEOREM UniqueOwnership == Spec => []UniqueOwner
BY SpecIInv, PTL DEF IInv

---------------------------------------------------------------------------
(* Seen by its callers the pool only leases objects that nobody holds.     *)

(* A new pool has leased nothing.                                          *)
LEMMA LeaseInit == Init => Lease!Init
BY DEF Init, Lease!Init

(* What a step of the pool does to the handles is a step of ObjectLease,   *)
(* or nothing.                                                             *)
LEMMA LeaseStep == IInv /\ [Next]_vars => [Lease!Next]_held
<1> SUFFICES ASSUME IInv, [Next]_vars PROVE [Lease!Next]_held
  OBVIOUS
<1> USE DEF IInv
(* A step that only removes dead objects from the sets of holders. *)
<1>1. ASSUME NEW dead \in SUBSET Objs, \A q \in dead : held[q] = {},
             held' \in [Objs -> SUBSET Holders],
             \A o \in Objs : held'[o] \subseteq held[o] /\ held[o] \subseteq held'[o] \cup dead
      PROVE  Lease!Next
  BY <1>1 DEF Lease!Next, Lease!Reclaim, Lease!Holders, Holders
<1>2. ASSUME NEW dead \in SUBSET Objs, \A q \in dead : held[q] = {},
             held' = WithoutHolders(dead)
      PROVE  Lease!Next
  <2>1. held' \in [Objs -> SUBSET Holders]
    BY <1>2 DEF TypeOK, WithoutHolders
  <2>2. \A o \in Objs : held'[o] \subseteq held[o] /\ held[o] \subseteq held'[o] \cup dead
    BY <1>2 DEF WithoutHolders
  <2> QED BY <1>1, <1>2, <2>1, <2>2
<1>3. ASSUME NEW dead \in SUBSET Objs, \A q \in dead : held[q] = {},
             NEW t \in Threads, NestedRelease(t, dead)
      PROVE  Lease!Next
  <2>1. PICK m \in LastMembers(dead) : held' = [held EXCEPT ![m] = {}]
    BY <1>3 DEF NestedRelease
  <2>2. m \in Objs /\ held[m] \subseteq dead
    BY <2>1 DEF LastMembers
  <2>3. held' \in [Objs -> SUBSET Holders]
    BY <2>1, <2>2 DEF TypeOK
  <2>4. \A o \in Objs : held'[o] \subseteq held[o] /\ held[o] \subseteq held'[o] \cup dead
    BY <2>1, <2>2 DEF TypeOK
  <2> QED BY <1>1, <1>3, <2>3, <2>4
<1>4. \A t \in Threads : hand[t] \subseteq Objs /\ \A q \in hand[t] : held[q] = {}
  BY DEF TypeOK, UniqueOwner
<1>5. Pooled \subseteq Objs /\ \A q \in Pooled : held[q] = {}
  <2>1. Pooled \subseteq heap
    BY DEF UniqueOwner
  <2> QED BY <2>1 DEF TypeOK, UniqueOwner
<1>6. ASSUME NEW t \in Threads, Acquire(t) PROVE [Lease!Next]_held
  <2>1. CASE AcquireWrap(t)
    <3>1. PICK o \in hand[t] : held' = [held EXCEPT ![o] = {t}]
      BY <2>1 DEF AcquireWrap
    <3>2. Lease!Lease(t, o) /\ o \in Objs
      BY <1>4, <3>1 DEF Lease!Lease
    <3> QED BY <3>2 DEF Lease!Next
  <2>2. CASE AcquireReset(t)
    BY <1>2, <1>4, <2>2 DEF AcquireReset
  <2>3. CASE UNCHANGED held
    BY <2>3
  <2> QED
    BY <1>6, <2>1, <2>2, <2>3 DEF Acquire, AcquireEnter, AcquirePop, AcquireNew,
       AcquireNoMemory, AcquireResetThrows, AcquireNoControlBlock
<1>7. ASSUME NEW t \in Threads, Release(t) PROVE [Lease!Next]_held
  <2>1. CASE ReleaseEnter(t)
    BY <2>1 DEF ReleaseEnter
  <2>2. CASE ReleasePush(t)
    BY <1>2, <1>4, <2>2 DEF ReleasePush, Cleaned
  <2>3. CASE ReleaseDelete(t)
    BY <1>2, <1>4, <2>3 DEF ReleaseDelete, Deletes
  <2>4. CASE WipeReenters(t)
    BY <1>3, <1>4, <2>4 DEF WipeReenters
  <2> QED BY <1>7, <2>1, <2>2, <2>3, <2>4 DEF Release
<1>8. ASSUME NEW t \in Threads, Client(t) PROVE [Lease!Next]_held
  <2> PICK o \in Objs : Use(t, o) \/ \E h \in Holders : Share(t, h, o) \/ DropHandle(t, h, o)
    BY <1>8 DEF Client
  <2>1. CASE Use(t, o)
    BY <2>1 DEF Use
  <2>2. ASSUME NEW h \in Holders, Share(t, h, o) PROVE Lease!Next
    <3>1. Lease!Share(h, o)
      BY <2>2 DEF Share, Lease!Share
    <3> QED BY <3>1 DEF Lease!Next, Lease!Holders, Holders
  <2>3. ASSUME NEW h \in Holders, DropHandle(t, h, o) PROVE Lease!Next
    <3>1. Lease!Return(h, o)
      BY <2>3 DEF DropHandle, Lease!Return
    <3> QED BY <3>1 DEF Lease!Next, Lease!Holders, Holders
  <2> QED BY <2>1, <2>2, <2>3
<1>9. ASSUME NEW t \in Threads, Clear(t) \/ Destroy(t) PROVE [Lease!Next]_held
  <2>1. DeletePooled \/ NestedRelease(t, Pooled)
    BY <1>9 DEF Clear, Destroy
  <2> QED BY <1>2, <1>3, <1>5, <2>1 DEF DeletePooled, Deletes
<1>10. CASE UNCHANGED vars
  BY <1>10 DEF vars
<1> QED BY <1>6, <1>7, <1>8, <1>9, <1>10 DEF Next

(* The pool implements ObjectLease: no second acquire() is handed an       *)
(* object before its last handle is gone.                                  *)
THEOREM PoolImplementsLease == Spec => LeaseSpec
<1>1. Init => Lease!Init
  BY LeaseInit
<1>2. IInv /\ [Next]_vars => [Lease!Next]_held
  BY LeaseStep
<1> QED BY <1>1, <1>2, SpecIInv, PTL DEF Spec, LeaseSpec, Lease!Spec

---------------------------------------------------------------------------
(* The lock.  A thread outside the pool does not hold it (LockInv), so the *)
(* deleter runs under the lock only where the pool itself calls it.        *)

(* No step but these two puts a thread in front of the lock it holds.      *)
LEMMA SelfLockStep ==
  ASSUME IInv, [Next]_vars, NEW t \in Threads, ~SelfLocked(t), SelfLocked(t)'
  PROVE  \/ "no_control_block" \in Faults /\ pc[t] = "wrap"
         \/ \E m \in LastMembers(hand[t]) \cup LastMembers(Pooled) : m \in hand'[t]
<1> DEFINE Cause == \/ "no_control_block" \in Faults /\ pc[t] = "wrap"
                    \/ \E m \in LastMembers(hand[t]) \cup LastMembers(Pooled) : m \in hand'[t]
<1>1. /\ pc \in [Threads -> Places] /\ hand \in [Threads -> SUBSET Objs]
      /\ pc[t] = "idle" => mutex # t
      /\ t # NoThread
  BY PoolAssumption DEF IInv, TypeOK, LockInv
<1>2. pc'[t] = "release" /\ mutex' = t /\ ~(pc[t] = "release" /\ mutex = t)
  BY DEF SelfLocked
(* A nested release by t of one of the last members in S. *)
<1>3. ASSUME NEW S, NestedRelease(t, S)
      PROVE  \E m \in LastMembers(S) : m \in hand'[t]
  BY <1>1, <1>3 DEF NestedRelease
<1>4. ASSUME NEW u \in Threads, Acquire(u) PROVE Cause
  BY <1>1, <1>2, <1>4 DEF Acquire, AcquireEnter, AcquirePop, AcquireNew, AfterTake,
     AcquireNoMemory, AcquireReset, AcquireResetThrows, AcquireWrap,
     AcquireNoControlBlock, Leaves, Unlocks, Locks
<1>5. ASSUME NEW u \in Threads, WipeReenters(u) PROVE Cause
  <2>1. CASE u = t
    BY <1>3, <1>5, <2>1 DEF WipeReenters
  <2>2. CASE u # t
    BY <1>1, <1>2, <1>5, <2>2 DEF WipeReenters, NestedRelease
  <2> QED BY <2>1, <2>2
<1>6. ASSUME NEW u \in Threads, ReleaseEnter(u) \/ ReleasePush(u) \/ ReleaseDelete(u)
      PROVE  Cause
  BY <1>1, <1>2, <1>6 DEF ReleaseEnter, ReleasePush, ReleaseDelete, Leaves, Unlocks, Locks
<1>7. ASSUME NEW u \in Threads, Client(u) PROVE Cause
  BY <1>1, <1>2, <1>7 DEF Client, Use, Share, DropHandle
<1>8. ASSUME NEW u \in Threads, Clear(u) PROVE Cause
  <2>1. CASE UNCHANGED <<mutex, pc, hand>>
    BY <1>2, <2>1
  <2>2. CASE NestedRelease(u, Pooled) /\ mutex' = u
    <3>1. u = t
      BY <1>2, <2>2
    <3> QED BY <1>3, <2>2, <3>1
  <2> QED BY <1>8, <2>1, <2>2 DEF Clear
<1>9. ASSUME NEW u \in Threads, Destroy(u) PROVE Cause
  BY <1>1, <1>2, <1>9 DEF Destroy
<1>10. CASE UNCHANGED vars
  BY <1>2, <1>10 DEF vars
<1> QED BY <1>4, <1>5, <1>6, <1>7, <1>8, <1>9, <1>10 DEF Next, Release

(* In every pool, whatever goes wrong in it, a thread comes to wait for    *)
(* the lock it holds only where the pool runs the deleter under the lock;  *)
(* every way out of acquire(), release() and clear() has given it up.      *)
THEOREM SelfLockOnlyByDeleter == Spec => SelfLockHasCause
<1>1. IInv /\ [Next]_vars =>
        [\A t \in Threads :
           ~SelfLocked(t) /\ SelfLocked(t)' =>
             \/ "no_control_block" \in Faults /\ pc[t] = "wrap"
             \/ \E m \in LastMembers(hand[t]) \cup LastMembers(Pooled) : m \in hand'[t]]_vars
  BY SelfLockStep
<1> QED BY <1>1, SpecIInv, PTL DEF Spec, SelfLockHasCause

---------------------------------------------------------------------------
(* What acquire() hands out.  With a cleanup() the objects on the list are *)
(* clean; with a reset() in each acquire() they are clean when wrapped.    *)

Wiped == HasCleanup \/ (HasReset /\ CallArgs \subseteq {TRUE})

CleanInv ==
  /\ HasCleanup => Pooled \cap dirty = {}
  /\ \A t \in Threads :
       /\ pc[t] = "wrap" => hand[t] \cap dirty = {}
       /\ HasCleanup /\ pc[t] = "reset" => hand[t] \cap dirty = {}

(* No step puts a used object on the list, or gets one ready for handing   *)
(* out, without wiping it.                                                 *)
LEMMA CleanStep ==
  ASSUME Wiped
  PROVE  IInv /\ IInv' /\ CleanInv /\ [Next]_vars => CleanInv'
<1> SUFFICES ASSUME IInv, IInv', CleanInv, [Next]_vars PROVE CleanInv'
  OBVIOUS
<1> USE DEF CleanInv, IInv
<1>1. /\ TypeOK /\ HandInv /\ UniqueOwner
      /\ \A t \in Threads : hand[t] \subseteq Objs
  BY DEF TypeOK
<1>2. ASSUME NEW t \in Threads, AcquirePop(t) PROVE CleanInv'
  <2>1. pool \in Seq(Objs) /\ pool # <<>>
    BY <1>2 DEF TypeOK, ListInv, AcquirePop
  <2>2. pool[Len(pool)] \in Pooled /\ Pooled' \subseteq Pooled
    BY <1>2, <2>1, BackFacts DEF AcquirePop, TakesBack, Pooled
  <2>3. PICK args \in CallArgs : pc' = [pc EXCEPT ![t] = AfterTake(args)]
    BY <1>2 DEF AcquirePop
  <2>4. AfterTake(args) = "wrap" => HasCleanup
    BY DEF AfterTake, Wiped
  <2>5. hand' = [hand EXCEPT ![t] = {pool[Len(pool)]}] /\ UNCHANGED dirty
    BY <1>2 DEF AcquirePop, TakesBack
  <2>6. HasCleanup => Pooled' \cap dirty = {} /\ {pool[Len(pool)]} \cap dirty = {}
    BY <2>2
  <2> QED BY <2>3, <2>4, <2>5, <2>6 DEF TypeOK
<1>3. ASSUME NEW t \in Threads, ReleasePush(t) PROVE CleanInv'
  <2>1. PICK o \in Objs : hand[t] = {o}
    BY <1>3 DEF HandInv, ReleasePush
  <2>2. Pooled' = Pooled \cup {o}
    BY <1>3, <2>1, AppendFacts DEF ReleasePush, Pooled, TypeOK
  <2>3. HasCleanup => o \notin dirty'
    BY <1>3, <2>1 DEF ReleasePush, Cleaned
  <2>4. dirty' \subseteq dirty
    BY <1>3 DEF ReleasePush, Cleaned
  <2> QED BY <1>3, <2>2, <2>3, <2>4 DEF ReleasePush, Leaves, TypeOK
<1>4. ASSUME NEW t \in Threads, NEW o \in Objs, Use(t, o) PROVE CleanInv'
  BY <1>4 DEF Use, UniqueOwner, Pooled
<1>5. ASSUME NEW t \in Threads, NEW o \in Objs, NEW h \in Holders, Share(t, h, o)
      PROVE  CleanInv'
  BY <1>5 DEF Share, UniqueOwner, Pooled
<1>6. ASSUME NEW t \in Threads, Clear(t) \/ Destroy(t) PROVE CleanInv'
  <2>1. Pooled' \subseteq Pooled
    BY <1>6 DEF Clear, Destroy, DeletePooled, Pooled, Range
  <2>2. dirty' = dirty /\ \A u \in Threads : pc'[u] # "release" => pc'[u] = pc[u] /\ hand'[u] = hand[u]
    BY <1>6 DEF Clear, Destroy, NestedRelease, DeletePooled, Deletes, TypeOK
  <2> QED BY <2>1, <2>2
<1>7. ASSUME NEW t \in Threads,
             \/ AcquireEnter(t) \/ AcquireNew(t) \/ AcquireNoMemory(t)
             \/ AcquireReset(t) \/ AcquireResetThrows(t)
             \/ AcquireWrap(t) \/ AcquireNoControlBlock(t)
      PROVE  CleanInv'
  BY <1>7 DEF AcquireEnter, AcquireNew, AcquireNoMemory, AcquireReset,
     AcquireResetThrows, AcquireWrap, AcquireNoControlBlock, AfterTake, Leaves,
     TypeOK, Pooled, Wiped
<1>8. ASSUME NEW t \in Threads,
             \/ ReleaseEnter(t) \/ ReleaseDelete(t) \/ WipeReenters(t)
             \/ \E o \in Objs, h \in Holders : DropHandle(t, h, o)
      PROVE  CleanInv'
  BY <1>8 DEF ReleaseEnter, ReleaseDelete, WipeReenters, NestedRelease, DropHandle,
     Leaves, TypeOK, Pooled
<1>9. CASE UNCHANGED vars
  BY <1>9 DEF vars, Pooled
<1> QED
  BY <1>2, <1>3, <1>4, <1>5, <1>6, <1>7, <1>8, <1>9
     DEF Next, Acquire, Release, Client

(* What comes out of acquire() carries nothing of an earlier user, if T    *)
(* has a cleanup() or every call passes what T's reset() takes.            *)
THEOREM HandoutIsFresh ==
  ASSUME Wiped
  PROVE  Spec => FreshHandout
<1> DEFINE Fresh == \A o \in Objs : held[o] = {} /\ held'[o] # {} => o \notin dirty
<1>1. Init => CleanInv
  BY DEF Init, CleanInv, Pooled
<1>2. IInv /\ IInv' /\ CleanInv /\ [Next]_vars => CleanInv'
  BY CleanStep
<1>3. IInv /\ CleanInv /\ [Next]_vars => [Fresh]_vars
  <2> SUFFICES ASSUME IInv, CleanInv, [Next]_vars, NEW o \in Objs,
                      held[o] = {}, held'[o] # {}
               PROVE  o \notin dirty
    OBVIOUS
  <2>1. PICK t \in Threads : AcquireWrap(t)
    BY DEF IInv, TypeOK, Next, vars, Acquire, Release, Client, AcquireEnter, AcquirePop,
       AcquireNew, AcquireNoMemory, AcquireReset, AcquireResetThrows,
       AcquireNoControlBlock, Use, Share, DropHandle, ReleaseEnter, ReleasePush, Cleaned,
       ReleaseDelete, Deletes, WipeReenters, NestedRelease, LastMembers,
       WithoutHolders, Clear, Destroy, DeletePooled
  <2>2. o \in hand[t]
    BY <2>1 DEF AcquireWrap, IInv, TypeOK
  <2> QED BY <2>1, <2>2 DEF AcquireWrap, CleanInv
<1> QED BY <1>1, <1>2, <1>3, SpecIInv, PTL DEF Spec, FreshHandout

---------------------------------------------------------------------------
(* Every allocated object is accounted for.                                *)

InHands == UNION {hand[t] : t \in Threads}
HeldObjs == {o \in Objs : held[o] # {}}

(* The handles dropped with dead objects that are no one's last members.   *)
LEMMA WithoutKeepsInUse ==
  ASSUME TypeOK, NEW S \in SUBSET Objs, LastMembers(S) = {},
         held' = WithoutHolders(S)
  PROVE  HeldObjs' = HeldObjs
<1> SUFFICES ASSUME NEW o \in Objs PROVE held'[o] # {} <=> held[o] # {}
  BY DEF HeldObjs
<1> QED BY DEF TypeOK, LastMembers, WithoutHolders

(* A handle dropped by a dying object moves its object from the objects in *)
(* use to those in the hands of the thread.                                *)
LEMMA NestedMovesToHand ==
  ASSUME TypeOK, NEW t \in Threads, NEW S, NestedRelease(t, S)
  PROVE  HeldObjs' \cup InHands' = HeldObjs \cup InHands
<1> PICK m \in Objs : /\ held[m] # {}
                      /\ held' = [held EXCEPT ![m] = {}]
                      /\ hand' = [hand EXCEPT ![t] = @ \cup {m}]
  BY DEF NestedRelease, LastMembers
<1>1. HeldObjs' = HeldObjs \ {m} /\ m \in HeldObjs
  BY DEF TypeOK, HeldObjs
<1>2. InHands' = InHands \cup {m}
  BY DEF TypeOK, InHands
<1> QED BY <1>1, <1>2

(* No step of a pool whose reset() does not throw loses an object.         *)
LEMMA LeakStep ==
  ASSUME "reset_throws" \notin Faults
  PROVE  IInv /\ NoLeak /\ [Next]_vars => NoLeak'
<1> SUFFICES ASSUME IInv, heap = Pooled \cup HeldObjs \cup InHands, [Next]_vars
             PROVE  heap' = Pooled' \cup HeldObjs' \cup InHands'
  BY DEF NoLeak, HeldObjs, InHands
<1> DEFINE Kept == heap' = Pooled' \cup HeldObjs' \cup InHands'
<1>1. TypeOK /\ HandInv /\ UniqueOwner
  BY DEF IInv
<1>2. Pooled \subseteq Objs /\ \A t \in Threads : hand[t] \subseteq Objs
  BY <1>1 DEF TypeOK, UniqueOwner
(* What a thread's hand being filled or emptied does to the whole.         *)
<1>filled. ASSUME NEW t \in Threads, NEW o \in Objs, hand[t] = {},
             hand' = [hand EXCEPT ![t] = {o}]
      PROVE  InHands' = InHands \cup {o}
  <2>1. \A u \in Threads : hand'[u] = IF u = t THEN {o} ELSE hand[u]
    BY <1>1, <1>filled DEF TypeOK
  <2> QED BY <1>filled, <2>1 DEF InHands
<1>emptied. ASSUME NEW t \in Threads, hand' = [hand EXCEPT ![t] = {}]
      PROVE  InHands' = InHands \ hand[t] /\ hand[t] \subseteq InHands
  <2>1. \A u \in Threads : u # t => hand[u] \cap hand[t] = {}
    BY <1>1, <1>2 DEF UniqueOwner
  <2>2. \A u \in Threads : hand'[u] = IF u = t THEN {} ELSE hand[u]
    BY <1>1, <1>emptied DEF TypeOK
  <2> QED BY <2>1, <2>2 DEF InHands
<1>4. ASSUME NEW t \in Threads, AcquirePop(t) PROVE Kept
  <2> DEFINE o == pool[Len(pool)]
  <2>1. pool \in Seq(Objs) /\ pool # <<>> /\ hand[t] = {}
    BY <1>4 DEF IInv, TypeOK, ListInv, HandInv, AcquirePop
  <2>2. Pooled = Pooled' \cup {o} /\ o \in Objs
    <3>1. Len(pool) \in Nat /\ Len(pool) > 0 /\ DOMAIN pool = 1..Len(pool)
      BY <2>1, EmptySeq, LenProperties
    <3>2. /\ pool' = SubSeq(pool, 1, Len(pool) - 1)
          /\ DOMAIN pool' = 1..(Len(pool) - 1)
          /\ \A i \in 1..(Len(pool) - 1) : pool'[i] = pool[i]
      BY <1>4, <2>1, <3>1, SubSeqProperties DEF AcquirePop, TakesBack
    <3>3. \A i \in DOMAIN pool : i = Len(pool) \/ i \in DOMAIN pool'
      BY <3>1, <3>2
    <3>4. Len(pool) \in DOMAIN pool /\ DOMAIN pool' \subseteq DOMAIN pool
      BY <3>1, <3>2
    <3>5. \A i \in DOMAIN pool' : pool'[i] = pool[i]
      BY <3>2
    <3>6. Pooled = Pooled' \cup {o}
      BY <3>3, <3>4, <3>5 DEF Pooled, Range
    <3> QED BY <1>2, <3>6
  <2>3. InHands' = InHands \cup {o}
    BY <1>filled, <1>4, <2>1, <2>2 DEF AcquirePop, TakesBack
  <2> QED BY <1>4, <2>2, <2>3 DEF AcquirePop, HeldObjs
<1>5. ASSUME NEW t \in Threads, AcquireNew(t) PROVE Kept
  <2> PICK o \in Objs \ heap : hand' = [hand EXCEPT ![t] = {o}] /\ heap' = heap \cup {o}
    BY <1>5 DEF AcquireNew
  <2>1. InHands' = InHands \cup {o}
    BY <1>1, <1>filled, <1>5 DEF AcquireNew, HandInv
  <2> QED BY <1>5, <2>1 DEF AcquireNew, Pooled, HeldObjs
<1>6. ASSUME NEW t \in Threads, AcquireNoMemory(t) PROVE Kept
  <2>1. InHands' = InHands
    <3>1. hand[t] = {} /\ hand' = [hand EXCEPT ![t] = {}]
      BY <1>1, <1>6 DEF AcquireNoMemory, Leaves, HandInv
    <3> QED BY <1>emptied, <3>1
  <2> QED BY <1>6, <2>1 DEF AcquireNoMemory, Pooled, HeldObjs
<1>7. ASSUME NEW t \in Threads, AcquireReset(t) PROVE Kept
  <2>1. HeldObjs' = HeldObjs
    BY <1>1, <1>2, <1>7, WithoutKeepsInUse DEF AcquireReset
  <2> QED BY <1>7, <2>1 DEF AcquireReset, Pooled, InHands
<1>8. ASSUME NEW t \in Threads, AcquireWrap(t) PROVE Kept
  <2> PICK o \in Objs : hand[t] = {o}
    BY <1>1, <1>8 DEF HandInv, AcquireWrap
  <2>1. HeldObjs' = HeldObjs \cup {o}
    BY <1>1, <1>8 DEF AcquireWrap, TypeOK, HeldObjs
  <2>2. InHands' = InHands \ {o} /\ o \in InHands
    BY <1>emptied, <1>8 DEF AcquireWrap, Leaves
  <2> QED BY <1>8, <2>1, <2>2 DEF AcquireWrap, Pooled
<1>9. ASSUME NEW t \in Threads, ReleasePush(t) PROVE Kept
  <2> PICK o \in Objs : hand[t] = {o}
    BY <1>1, <1>9 DEF HandInv, ReleasePush
  <2>1. Pooled' = Pooled \cup {o}
    BY <1>1, <1>9, AppendFacts DEF ReleasePush, Pooled, TypeOK
  <2>2. HeldObjs' = HeldObjs
    <3>1. (held' = WithoutHolders(hand[t]) /\ LastMembers(hand[t]) = {}) \/ held' = held
      BY <1>9 DEF ReleasePush, Cleaned
    <3> QED BY <1>1, <1>2, <3>1, WithoutKeepsInUse DEF HeldObjs
  <2>3. InHands' = InHands \ {o} /\ o \in InHands
    BY <1>emptied, <1>9 DEF ReleasePush, Leaves
  <2> QED BY <1>9, <2>1, <2>2, <2>3 DEF ReleasePush
<1>10. ASSUME NEW t \in Threads, ReleaseDelete(t) PROVE Kept
  <2>1. HeldObjs' = HeldObjs
    BY <1>1, <1>2, <1>10, WithoutKeepsInUse DEF ReleaseDelete, Deletes
  <2>2. InHands' = InHands \ hand[t] /\ hand[t] \subseteq InHands
    BY <1>emptied, <1>10 DEF ReleaseDelete, Leaves
  <2>3. \A o \in hand[t] : o \notin Pooled /\ o \notin HeldObjs
    BY <1>1, <1>2 DEF UniqueOwner, HeldObjs
  <2> QED BY <1>10, <2>1, <2>2, <2>3 DEF ReleaseDelete, Deletes, Pooled
<1>11. ASSUME NEW t \in Threads, WipeReenters(t) PROVE Kept
  <2>1. HeldObjs' \cup InHands' = HeldObjs \cup InHands
    BY <1>1, <1>11, NestedMovesToHand DEF WipeReenters
  <2> QED BY <1>11, <2>1 DEF WipeReenters, Pooled
<1>12. ASSUME NEW t \in Threads, NEW h \in Holders, NEW o \in Objs, Share(t, h, o)
       PROVE  Kept
  <2>1. HeldObjs' = HeldObjs
    BY <1>1, <1>12 DEF Share, TypeOK, HeldObjs
  <2> QED BY <1>12, <2>1 DEF Share, Pooled, InHands
<1>13. ASSUME NEW t \in Threads, NEW h \in Holders, NEW o \in Objs, DropHandle(t, h, o)
       PROVE  Kept
  <2>1. CASE held[o] = {h}
    <3>1. HeldObjs' = HeldObjs \ {o} /\ o \in HeldObjs
      BY <1>1, <1>13, <2>1 DEF DropHandle, TypeOK, HeldObjs
    <3>2. InHands' = InHands \cup {o}
      BY <1>1, <1>filled, <1>13, <2>1 DEF DropHandle, HandInv
    <3> QED BY <1>13, <3>1, <3>2 DEF DropHandle, Pooled
  <2>2. CASE held[o] # {h}
    <3>1. HeldObjs' = HeldObjs
      BY <1>1, <1>13, <2>2 DEF DropHandle, TypeOK, HeldObjs
    <3> QED BY <1>13, <2>2, <3>1 DEF DropHandle, Pooled, InHands
  <2> QED BY <2>1, <2>2
<1>14. ASSUME NEW t \in Threads, Clear(t) \/ Destroy(t) PROVE Kept
  <2>1. CASE DeletePooled /\ UNCHANGED hand
    <3>1. Pooled' = {} /\ heap' = heap \ Pooled
      <4>1. pool' = <<>> /\ heap' = heap \ Pooled
        BY <2>1 DEF DeletePooled, Deletes
      <4> QED BY <4>1 DEF Pooled, Range
    <3>2. HeldObjs' = HeldObjs
      BY <1>1, <1>2, <2>1, WithoutKeepsInUse DEF DeletePooled, Deletes
    <3>3. HeldObjs \cap Pooled = {} /\ InHands \cap Pooled = {}
      BY <1>1, <1>2 DEF UniqueOwner, HeldObjs, InHands
    <3> QED BY <2>1, <3>1, <3>2, <3>3 DEF InHands
  <2>2. CASE NestedRelease(t, Pooled) /\ UNCHANGED <<pool, heap>>
    <3>1. HeldObjs' \cup InHands' = HeldObjs \cup InHands
      BY <1>1, <2>2, NestedMovesToHand
    <3> QED BY <2>2, <3>1 DEF Pooled
  <2> QED BY <1>14, <2>1, <2>2 DEF Clear, Destroy
<1>15. ASSUME NEW t \in Threads, NEW o \in Objs, Use(t, o) PROVE Kept
  BY <1>15 DEF Use, Pooled, HeldObjs, InHands
<1>16. CASE UNCHANGED vars
  BY <1>16 DEF vars, Pooled, HeldObjs, InHands
<1>17. ASSUME NEW t \in Threads, AcquireEnter(t) \/ AcquireNoControlBlock(t) \/ ReleaseEnter(t)
       PROVE  Kept
  BY <1>17 DEF AcquireEnter, AcquireNoControlBlock, ReleaseEnter, Pooled, HeldObjs, InHands
<1> QED
  BY <1>4, <1>5, <1>6, <1>7, <1>8, <1>9, <1>10, <1>11, <1>12, <1>13, <1>14, <1>15,
     <1>16, <1>17 DEF Next, Acquire, AcquireResetThrows, Release, Client

(* Unless a reset() throws, no allocated object is ever lost: it is on the *)
(* list, in use, or on its way between the two.                            *)
THEOREM NothingLeaks ==
  ASSUME "reset_throws" \notin Faults
  PROVE  Spec => []NoLeak
<1>1. Init => NoLeak
  BY DEF Init, NoLeak, Pooled
<1>2. IInv /\ NoLeak /\ [Next]_vars => NoLeak'
  BY LeakStep
<1> QED BY <1>1, <1>2, SpecIInv, PTL DEF Spec

---------------------------------------------------------------------------
(* How many objects the pool comes to hold.  An allocation finds the list  *)
(* empty, so that, when nothing leaks, every object is in use after it.    *)
AllocatesWhenEmpty == \A t \in Threads : pc[t] = "new" => pool = <<>>

LEMMA EmptyStep == IInv /\ AllocatesWhenEmpty /\ [Next]_vars => AllocatesWhenEmpty'
<1> SUFFICES ASSUME IInv, AllocatesWhenEmpty, [Next]_vars, NEW u \in Threads, pc'[u] = "new"
             PROVE  pool' = <<>>
  BY DEF AllocatesWhenEmpty
<1>1. pc \in [Threads -> Places] /\ mutex \in Threads \cup {NoThread} /\ NoThread \notin Threads
  BY PoolAssumption DEF IInv, TypeOK
<1>2. \A t \in Threads : pc[t] \in Inside => mutex = t
  BY DEF IInv, LockInv
<1>3. CASE pc[u] = "new"
  <2>1. pool = <<>> /\ mutex = u
    BY <1>2, <1>3 DEF AllocatesWhenEmpty, Inside
  <2>2. ASSUME NEW t \in Threads, AcquirePop(t) \/ ReleasePush(t) PROVE FALSE
    <3>1. pc[t] \in {"pop", "push"}
      BY <2>2 DEF AcquirePop, ReleasePush
    <3>2. mutex = t
      BY <1>2, <3>1 DEF Inside
    <3> QED BY <1>3, <2>1, <3>1, <3>2
  <2>3. pool' = pool \/ pool' = <<>>
    BY <2>2 DEF Next, Acquire, Release, Client, vars, AcquireEnter, AcquireNew,
       AcquireNoMemory, AcquireReset, AcquireResetThrows, AcquireWrap, AcquireNoControlBlock,
       ReleaseEnter, ReleaseDelete, WipeReenters, Use, Share, DropHandle, Clear, Destroy,
       DeletePooled
  <2> QED BY <2>1, <2>3
<1>4. CASE pc[u] # "new"
  <2>1. PICK t \in Threads : AcquireEnter(t)
    BY <1>1, <1>4 DEF Next, Acquire, Release, Client, vars, AcquirePop, AcquireNew,
       AcquireNoMemory, AcquireReset, AcquireResetThrows, AcquireWrap, AcquireNoControlBlock,
       ReleaseEnter, ReleasePush, ReleaseDelete, WipeReenters, Use, Share, DropHandle, Clear,
       Destroy, NestedRelease, Leaves, AfterTake
  <2>2. pool' = pool /\ (pool = <<>> \/ pc' = [pc EXCEPT ![t] = "pop"])
    BY <2>1 DEF AcquireEnter
  <2> QED BY <1>1, <1>4, <2>2
<1> QED BY <1>3, <1>4

(* Only an allocation adds to the heap. *)
LEMMA HeapGrows ==
  [Next]_vars => heap' \subseteq heap \/ \E t \in Threads : AcquireNew(t)
BY DEF Next, Acquire, Release, Client, vars, AcquireEnter, AcquirePop,
   AcquireNoMemory, AcquireReset, AcquireResetThrows, AcquireWrap, AcquireNoControlBlock,
   ReleaseEnter, ReleasePush, ReleaseDelete, WipeReenters, Use, Share, DropHandle, Clear,
   Destroy, DeletePooled, Deletes

LEMMA MaxOfTwo ==
  ASSUME NEW a \in Int, NEW b \in Int
  PROVE  Max({a, b}) = IF a >= b THEN a ELSE b
BY DEF Max

LEMMA CountsObjs ==
  ASSUME NEW S \in SUBSET Objs
  PROVE  Cardinality(S) \in Nat
BY FS_Subset, FS_CardinalityType, PoolAssumption

DemandInv == peak \in Nat /\ Cardinality(heap) <= Max({InitialSize, peak})

LEMMA InitDemand == MCInit => DemandInv
<1> SUFFICES ASSUME Init, peak = 0 PROVE DemandInv
  BY DEF MCInit
<1>1. pool \in [1..InitialSize -> Objs] /\ heap = Range(pool) /\ InitialSize \in Nat
  BY PoolAssumption DEF Init
<1>2. pool \in Surjection(1..InitialSize, heap)
  BY <1>1 DEF Surjection, Range
<1>3. Cardinality(heap) <= InitialSize
  BY <1>1, <1>2, FS_SurjCardinalityBound DEF ExistsSurjection
<1>4. Max({InitialSize, peak}) = InitialSize
  BY <1>1, MaxOfTwo
<1> QED BY <1>3, <1>4 DEF DemandInv

LEMMA DemandStep ==
  ASSUME "reset_throws" \notin Faults
  PROVE  IInv /\ NoLeak /\ AllocatesWhenEmpty /\ DemandInv /\ [MCNext]_<<vars, peak>> => DemandInv'
<1> SUFFICES ASSUME IInv, NoLeak, AllocatesWhenEmpty, DemandInv, [MCNext]_<<vars, peak>>
             PROVE  DemandInv'
  OBVIOUS
<1>1. [Next]_vars /\ IInv' /\ NoLeak'
  <2>1. [Next]_vars
    BY DEF MCNext, vars
  <2> QED BY <2>1, NextIInv, LeakStep
<1>2. heap \in SUBSET Objs /\ heap' \in SUBSET Objs /\ InUse' \in SUBSET Objs
  BY <1>1 DEF IInv, TypeOK, InUse
<1>3. Cardinality(heap) \in Nat /\ Cardinality(heap') \in Nat /\ Cardinality(InUse') \in Nat
  BY <1>2, CountsObjs
<1>4. peak \in Nat /\ InitialSize \in Nat /\ Cardinality(heap) <= Max({InitialSize, peak})
  BY PoolAssumption DEF DemandInv
<1>5. CASE UNCHANGED <<vars, peak>>
  BY <1>5 DEF DemandInv, vars
<1>6. CASE MCNext
  <2>1. peak' = Max({peak, Cardinality(InUse')})
    BY <1>6 DEF MCNext
  <2>2. peak' \in Nat /\ peak' >= peak /\ peak' >= Cardinality(InUse')
    BY <1>3, <1>4, <2>1, MaxOfTwo
  <2>3. Max({InitialSize, peak'}) >= Max({InitialSize, peak}) /\ Max({InitialSize, peak'}) >= peak'
    BY <1>4, <2>2, MaxOfTwo
  <2>4. /\ Max({InitialSize, peak'}) \in Nat /\ Max({InitialSize, peak}) \in Nat
    BY <1>4, <2>2, MaxOfTwo
  <2>5. Cardinality(heap') <= Cardinality(heap) \/ Cardinality(heap') <= Cardinality(InUse')
    <3>1. CASE heap' \subseteq heap
      <4>1. IsFiniteSet(heap)
        BY <1>2, FS_Subset, PoolAssumption
      <4> QED BY <3>1, <4>1, FS_Subset
    <3>2. ASSUME NEW t \in Threads, AcquireNew(t)
          PROVE  Cardinality(heap') = Cardinality(InUse')
      <4>1. pool' = <<>>
        BY <3>2 DEF AcquireNew, AllocatesWhenEmpty
      <4>2. Pooled' = {}
        BY <4>1 DEF Pooled, Range
      <4>3. heap' = InUse'
        BY <1>1, <4>2 DEF NoLeak, InUse
      <4> QED BY <4>3
    <3> QED BY <1>1, <1>3, <3>1, <3>2, HeapGrows
  <2>6. Cardinality(heap') <= Max({InitialSize, peak'})
    BY <1>3, <1>4, <2>2, <2>3, <2>4, <2>5
  <2> QED BY <2>2, <2>6 DEF DemandInv
<1> QED BY <1>5, <1>6

(* However long it runs, the pool holds no more objects than it was built  *)
(* with or than were ever out of the list at once, unless a reset() throws.*)
THEOREM HoldsWhatWasNeeded ==
  ASSUME "reset_throws" \notin Faults
  PROVE  MCSpec => []DemandBound
<1> DEFINE Inv == IInv /\ NoLeak /\ AllocatesWhenEmpty /\ DemandInv
<1>1. MCInit => Inv
  <2>1. MCInit => IInv /\ NoLeak /\ DemandInv
    BY InitIInv, InitDemand DEF MCInit, Init, NoLeak, Pooled
  <2>2. MCInit => AllocatesWhenEmpty
    BY DEF MCInit, Init, AllocatesWhenEmpty
  <2> QED BY <2>1, <2>2
<1>2. Inv /\ [MCNext]_<<vars, peak>> => Inv'
  <2> SUFFICES ASSUME Inv, [MCNext]_<<vars, peak>> PROVE Inv'
    OBVIOUS
  <2>1. [Next]_vars
    BY DEF MCNext, vars
  <2> QED BY <2>1, NextIInv, LeakStep, EmptyStep, DemandStep
<1>3. Inv => DemandBound
  BY DEF DemandInv, DemandBound
<1> QED BY <1>1, <1>2, <1>3, PTL DEF MCSpec
=============================================================================
