------------------------ MODULE LazySingletonProofs ------------------------
(* Theorems about LazySingleton and MCLazySingleton, for any threads and   *)
(* objects.                                                                *)
EXTENDS MCLazySingleton, TLAPS

(* What makes call_once work: the flag is "running" as long as a thread is *)
(* in the lambda, and "done" while one is behind call_once, so no thread   *)
(* builds while another reads m_instance or uses the object.               *)
FlagInv ==
  /\ \A t \in Threads : pc[t] = "build" => initFlag = "running"
  /\ \A t \in Threads : pc[t] \in {"deref", "use"} => initFlag = "done"

IInv == TypeOK /\ FlagInv /\ ReferencesLive

---------------------------------------------------------------------------
LEMMA InitIInv == Init => IInv
BY DEF Init, IInv, TypeOK, FlagInv, ReferencesLive

(* Every step keeps the invariant. *)
LEMMA NextIInv == IInv /\ [Next]_vars => IInv'
<1> SUFFICES ASSUME IInv, [Next]_vars PROVE IInv'
  OBVIOUS
<1> USE DEF IInv, TypeOK, FlagInv, ReferencesLive, Goto
<1>1. ASSUME NEW t \in Threads, CallOnce(t) PROVE IInv'
  BY <1>1 DEF CallOnce
<1>2. ASSUME NEW t \in Threads, Build(t) PROVE IInv'
  <2>1. \A u \in Threads : pc[u] \notin {"deref", "use"}
    BY <1>2 DEF Build
  <2> QED BY <1>2, <2>1 DEF Build
<1>3. ASSUME NEW t \in Threads, BuildThrows(t) PROVE IInv'
  BY <1>3 DEF BuildThrows
<1>4. ASSUME NEW t \in Threads, Deref(t) PROVE IInv'
  BY <1>4 DEF Deref
<1>5. ASSUME NEW t \in Threads, Leave(t) PROVE IInv'
  BY <1>5 DEF Leave
<1>6. CASE Destroy
  BY <1>6 DEF Destroy
<1>7. CASE UNCHANGED vars
  BY <1>7 DEF vars
<1> QED BY <1>1, <1>2, <1>3, <1>4, <1>5, <1>6, <1>7 DEF Next

LEMMA SpecIInv == Spec => []IInv
BY InitIInv, NextIInv, PTL DEF Spec

---------------------------------------------------------------------------
(* Type correctness; of any number of threads that call getInstance() for  *)
(* the first time, one at most runs the lambda.                            *)
THEOREM OneBuilder == Spec => []TypeOK
<1>1. IInv => TypeOK
  BY DEF IInv
<1> QED BY <1>1, SpecIInv, PTL

(* A reference that getInstance() has returned stays the one to the object *)
(* in m_instance for as long as it is used: no racing call, and none after *)
(* a constructor that threw, deletes or replaces it.                       *)
THEOREM ReferencesStayLive == Spec => []ReferencesLive
<1>1. IInv => ReferencesLive
  BY DEF IInv
<1> QED BY <1>1, SpecIInv, PTL

---------------------------------------------------------------------------
(* Until something is destroyed, a flag that is set means that there is an *)
(* object: a constructor that throws takes the flag back.                  *)
FirstLifeInv == ~destroyed => (initFlag = "done" => instance # None)

LEMMA NextFirstLifeInv == IInv /\ FirstLifeInv /\ [MCNext]_<<vars, destroyed>> => FirstLifeInv'
<1> SUFFICES ASSUME IInv, FirstLifeInv, [MCNext]_<<vars, destroyed>>, ~destroyed', initFlag' = "done"
             PROVE  instance' # None
  BY DEF FirstLifeInv
<1>1. CASE UNCHANGED <<vars, destroyed>>
  BY <1>1 DEF FirstLifeInv, vars
<1>2. CASE MCNext
  <2>1. ~destroyed /\ (instance # None => instance' # None)
    BY <1>2 DEF MCNext
  <2>2. ASSUME NEW t \in Threads, Build(t) PROVE instance' # None
    BY <2>2, SingletonAssumption DEF Build
  <2>3. initFlag = "done" \/ \E t \in Threads : Build(t)
    BY <1>2 DEF MCNext, Next, CallOnce, BuildThrows, Deref, Leave, Destroy
  <2> QED BY <2>1, <2>2, <2>3 DEF FirstLifeInv
<1> QED BY <1>1, <1>2

(* In its first life the singleton is there whenever call_once returns, in *)
(* however many threads, and after however many constructors that threw.   *)
THEOREM FirstLifeHasInstance == MCSpec => []HasFirstInstance
<1>1. MCInit => IInv /\ FirstLifeInv
  BY InitIInv DEF MCInit, Init, FirstLifeInv
<1>2. IInv /\ [MCNext]_<<vars, destroyed>> => IInv'
  BY NextIInv DEF MCNext, vars
<1>3. IInv /\ FirstLifeInv => HasFirstInstance
  BY DEF IInv, FlagInv, FirstLifeInv, HasFirstInstance, HasInstance
<1> QED BY <1>1, <1>2, <1>3, NextFirstLifeInv, PTL DEF MCSpec
=============================================================================
