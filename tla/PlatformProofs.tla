--------------------------- MODULE PlatformProofs ---------------------------
(* Theorems about Platform and MCPlatform, for any game threads, platform  *)
(* objects and activities.                                                 *)
EXTENDS MCPlatform, TLAPS

(* What each place says of the thread that is there.  Only the Java thread *)
(* initializes the platform, and only game threads call through it.        *)
CreatePlaces  == {"create", "new", "result"}
JavaPlaces    == {"out", "ref", "vm", "activity", "running"} \cup CreatePlaces
BeforePlaces  == {"out", "store", "deref"} \cup CreatePlaces
CallPlaces    == {"url", "env", "test", "class", "invoke", "copy", "height", "return", "end"}

PlacesInv ==
  /\ pc[Java] \in JavaPlaces
  /\ \A t \in Game : pc[t] \in BeforePlaces \cup {"in"} \cup CallPlaces

(* destroy() waits until the game threads are out, so a pointer read       *)
(* non-null in create() or getPlatform() stays non-null, and a platform    *)
(* once held stays allocated.                                              *)
PointerInv ==
  /\ \A t \in Threads : pc[t] = "result" => g # None
  /\ \A t \in Game : pc[t] = "deref" => g # None
  /\ \A t \in Game : pc[t] \in {"store", "in"} \cup CallPlaces => plat[t] \in live
  /\ \A t \in Game : pc[t] \in {"out"} \cup CreatePlaces => plat[t] = None
  /\ pc[Java] \in {"ref", "vm", "activity", "running"} => plat[Java] \in live

(* Every activity a platform points to is a reference that exists; what    *)
(* nativeInitPlatform() has set stays set until the next one.              *)
ActivityInv ==
  /\ \A p \in Plats : activity[p] \in refs \cup {None}
  /\ pc[Java] \in {"vm", "activity"} => ref \in refs
  /\ pc[Java] \in {"activity", "running"} => plat[Java] \in vm
  /\ pc[Java] = "running" => activity[plat[Java]] = ref
  /\ \A t \in Game : pc[t] \in {"class", "invoke"} /\ call[t] # "screen" =>
       activity[plat[t]] # None

(* The kinds of call that come to each place. *)
CallInv ==
  \A t \in Game :
    /\ pc[t] \in {"url", "end"} => call[t] = "url"
    /\ pc[t] = "test" => call[t] # "screen"
    /\ pc[t] = "copy" => call[t] = "string"
    /\ pc[t] \in CallPlaces => call[t] \in Kinds

(* The local references of a thread, by its place: openURL() holds the one *)
(* of its string around the inner call, that call the one of the class.    *)
LocalsInv ==
  \A t \in Game :
    LET outer == IF call[t] = "url" THEN {"url"} ELSE {}
    IN  /\ pc[t] \in BeforePlaces \cup {"in", "url"} => locals[t] = {}
        /\ pc[t] \in {"env", "test", "class", "end"} => locals[t] = outer
        /\ pc[t] \in {"invoke", "height", "return"} => locals[t] = outer \cup {"class"}
        /\ pc[t] = "copy" => locals[t] \ {"string"} = {"class"}

IInv == TypeOK /\ PlacesInv /\ PointerInv /\ ActivityInv /\ CallInv /\ LocalsInv

(* While no two threads have been in "new" together, a thread there is     *)
(* alone and the pointer it tested is still null, so it makes the only     *)
(* platform.                                                               *)
AloneInv ==
  ~raced =>
    /\ \A t \in Threads : pc[t] = "new" => g = None
    /\ \A t, u \in Threads : pc[t] = "new" /\ pc[u] = "new" => t = u
    /\ live \subseteq {g}
    /\ \A t \in Threads : plat[t] \in {g, None}

MCIInv == IInv /\ AloneInv

---------------------------------------------------------------------------
LEMMA InitIInv == Init => IInv
BY PlatformAssumption DEF Init, IInv, TypeOK, PlacesInv, PointerInv, ActivityInv, CallInv, LocalsInv,
   CreatePlaces, JavaPlaces, BeforePlaces, CallPlaces, Threads, Places

(* Every step keeps the invariant. *)
LEMMA NextIInv == IInv /\ [Next]_vars => IInv'
<1> SUFFICES ASSUME IInv, [Next]_vars PROVE IInv'
  OBVIOUS
<1> USE DEF IInv, TypeOK, PlacesInv, PointerInv, ActivityInv, CallInv, LocalsInv, CreatePlaces,
            JavaPlaces, BeforePlaces, CallPlaces, Goto, Threads, Kinds, Places, shared, jni
<1> USE PlatformAssumption
<1>1. ASSUME NEW t \in Threads, CreateTest(t) PROVE IInv'
  BY <1>1 DEF CreateTest
<1>2. ASSUME NEW t \in Threads, CreateNew(t) PROVE IInv'
  BY <1>2 DEF CreateNew
<1>3. ASSUME NEW t \in Threads, CreateReturns(t) PROVE IInv'
  BY <1>3 DEF CreateReturns
<1>4. ASSUME NEW t \in Game, GetPlatform(t) PROVE IInv'
  BY <1>4 DEF GetPlatform
<1>5. ASSUME NEW t \in Game, Store(t) PROVE IInv'
  BY <1>5 DEF Store
<1>6. ASSUME NEW t \in Game, Deref(t) PROVE IInv'
  BY <1>6 DEF Deref
<1>7. ASSUME NEW t \in Game, Leave(t) PROVE IInv'
  BY <1>7 DEF Leave
<1>8. ASSUME NEW t \in Game, NEW kind \in Kinds, StartCall(t, kind) PROVE IInv'
  BY <1>8 DEF StartCall
<1>9. ASSUME NEW t \in Game, OpenURL(t) PROVE IInv'
  <2>1. CASE HasEnv(t) /\ AddLocal(t, "url") /\ Goto(t, "env") /\ UNCHANGED call
    <3>1. locals' = [locals EXCEPT ![t] = {"url"}]
      BY <1>9, <2>1 DEF OpenURL, AddLocal
    <3>2. LocalsInv'
      BY <1>9, <2>1, <3>1 DEF OpenURL
    <3> QED BY <1>9, <2>1, <3>1, <3>2 DEF OpenURL, HasEnv
  <2>2. CASE NoEnv(t) /\ EndCall(t) /\ UNCHANGED locals
    BY <1>9, <2>2 DEF OpenURL, NoEnv, EndCall
  <2> QED BY <1>9, <2>1, <2>2 DEF OpenURL
<1>10. ASSUME NEW t \in Game, GetEnv(t) PROVE IInv'
  BY <1>10 DEF GetEnv, HasEnv, NoEnv, Return, EndCall
<1>11. ASSUME NEW t \in Game, TestActivity(t) PROVE IInv'
  BY <1>11 DEF TestActivity, Return, EndCall
<1>12. ASSUME NEW t \in Game, GetClass(t) PROVE IInv'
  BY <1>12 DEF GetClass, AddLocal
<1>13. ASSUME NEW t \in Game, Invoke(t) PROVE IInv'
  <2>1. call[t] = "string" => locals[t] = {"class"}
    BY <1>13 DEF Invoke
  <2>2. locals' \in [Game -> SUBSET {"class", "string", "url"}]
    BY <1>13 DEF Invoke, AddLocal
  <2>3. \A u \in Game : \/ locals'[u] = locals[u]
                       \/ (u = t /\ call[t] = "string" /\ locals'[u] = {"class", "string"})
    BY <1>13, <2>1 DEF Invoke, AddLocal
  <2>4. pc' = [pc EXCEPT ![t] = AfterInvoke(t)] /\ UNCHANGED call
    BY <1>13 DEF Invoke
  <2>5. LocalsInv'
    BY <1>13, <2>1, <2>2, <2>3, <2>4 DEF Invoke, AfterInvoke
  <2> QED BY <1>13, <2>2, <2>5 DEF Invoke, AfterInvoke
<1>14. ASSUME NEW t \in Game, InvokeHeight(t) PROVE IInv'
  BY <1>14 DEF InvokeHeight
<1>15. ASSUME NEW t \in Game, CopyString(t) PROVE IInv'
  BY <1>15 DEF CopyString, DropLocal
<1>16. ASSUME NEW t \in Game, CallReturns(t) PROVE IInv'
  <2>1. locals' = [locals EXCEPT ![t] = IF call[t] = "url" THEN {"url"} ELSE {}]
    BY <1>16 DEF CallReturns, DropLocal
  <2>2. CASE call[t] = "url"
    <3>1. pc' = [pc EXCEPT ![t] = "end"] /\ locals' = [locals EXCEPT ![t] = {"url"}] /\ UNCHANGED call
      BY <1>16, <2>1, <2>2 DEF CallReturns, Return
    <3> QED BY <1>16, <2>2, <3>1 DEF CallReturns
  <2>3. CASE call[t] # "url"
    <3>1. /\ pc' = [pc EXCEPT ![t] = "in"] /\ locals' = [locals EXCEPT ![t] = {}]
          /\ call' = [call EXCEPT ![t] = None]
      BY <1>16, <2>1, <2>3 DEF CallReturns, Return, EndCall
    <3> QED BY <1>16, <2>3, <3>1 DEF CallReturns
  <2> QED BY <2>2, <2>3
<1>17. ASSUME NEW t \in Game, OpenURLReturns(t) PROVE IInv'
  BY <1>17 DEF OpenURLReturns, DropLocal, EndCall
<1>18. CASE NativeInit
  BY <1>18 DEF NativeInit
<1>19. CASE NewGlobalRef
  BY <1>19 DEF NewGlobalRef
<1>20. CASE SetVM
  BY <1>20 DEF SetVM
<1>21. CASE SetActivity
  BY <1>21 DEF SetActivity
<1>22. CASE Destroy
  BY <1>22 DEF Destroy, DestroyPlatform, Deletes
<1>23. CASE UNCHANGED vars
  BY <1>23 DEF vars
<1> HIDE DEF IInv, TypeOK, PlacesInv, PointerInv, ActivityInv, CallInv, LocalsInv, CreatePlaces,
             JavaPlaces, BeforePlaces, CallPlaces, Goto, Threads, Kinds, Places, shared, jni
<1> QED BY <1>1, <1>2, <1>3, <1>4, <1>5, <1>6, <1>7, <1>8, <1>9, <1>10, <1>11, <1>12, <1>13,
           <1>14, <1>15, <1>16, <1>17, <1>18, <1>19, <1>20, <1>21, <1>22, <1>23
        DEF Next, Create, Call

LEMMA SpecIInv == Spec => []IInv
BY InitIInv, NextIInv, PTL DEF Spec

---------------------------------------------------------------------------
(* The same with the history variable. *)
LEMMA InitMCIInv == MCInit => MCIInv
BY InitIInv DEF MCInit, MCIInv, AloneInv, Init, Threads

LEMMA NextMCIInv == MCIInv /\ [MCNext]_<<vars, raced>> => MCIInv'
<1> SUFFICES ASSUME MCIInv, [MCNext]_<<vars, raced>> PROVE MCIInv'
  OBVIOUS
<1>1. IInv /\ IInv' /\ [Next]_vars
  BY NextIInv DEF MCIInv, MCNext
<1>2. CASE UNCHANGED <<vars, raced>>
  BY <1>1, <1>2 DEF MCIInv, AloneInv, vars
<1>3. CASE MCNext /\ raced'
  BY <1>1, <1>3 DEF MCIInv, AloneInv
<1>4. CASE MCNext /\ ~raced'
  <2>1. ~raced /\ \A t, u \in Threads : pc'[t] = "new" /\ pc'[u] = "new" => t = u
    BY <1>4 DEF MCNext
  <2>2. /\ \A t \in Threads : pc[t] = "new" => g = None
        /\ live \subseteq {g} /\ \A t \in Threads : plat[t] \in {g, None}
    BY <2>1 DEF MCIInv, AloneInv
  <2> DEFINE Alone == /\ \A t \in Threads : pc[t] = "new" => g = None
                      /\ live \subseteq {g}
                      /\ \A t \in Threads : plat[t] \in {g, None}
  <2>3. Alone'
    <3> USE PlatformAssumption DEF IInv, TypeOK, PlacesInv, PointerInv, CreatePlaces, JavaPlaces,
                                   BeforePlaces, CallPlaces, Goto, Threads, shared
    <3>1. ASSUME NEW t \in Threads, Create(t) PROVE Alone'
      <4>1. CASE CreateTest(t)
        BY <1>1, <2>1, <2>2, <4>1 DEF CreateTest
      <4>2. CASE CreateNew(t)
        <5>1. g = None /\ live = {}
          BY <1>1, <2>2, <4>2 DEF CreateNew
        <5>2. \A u \in Threads : u # t => pc'[u] # "new"
          BY <1>1, <4>2, <2>1, <5>1 DEF CreateNew, MCIInv, AloneInv
        <5> QED BY <1>1, <2>2, <4>2, <5>1, <5>2 DEF CreateNew
      <4>3. CASE CreateReturns(t)
        BY <1>1, <2>1, <2>2, <4>3 DEF CreateReturns
      <4> QED BY <3>1, <4>1, <4>2, <4>3 DEF Create
    <3>2. ASSUME NEW t \in Game, GetPlatform(t) \/ Store(t) \/ Deref(t) \/ Leave(t) PROVE Alone'
      BY <1>1, <2>1, <2>2, <3>2 DEF GetPlatform, Store, Deref, Leave
    <3>3. ASSUME NEW t \in Game, Call(t) PROVE Alone'
      BY <1>1, <2>1, <2>2, <3>3 DEF Call, StartCall, OpenURL, GetEnv, TestActivity, GetClass, Invoke,
        InvokeHeight, CopyString, CallReturns, OpenURLReturns, Return, EndCall, AfterInvoke
    <3>4. CASE NativeInit \/ NewGlobalRef \/ SetVM \/ SetActivity
      BY <1>1, <2>1, <2>2, <3>4 DEF NativeInit, NewGlobalRef, SetVM, SetActivity
    <3>5. CASE Destroy
      BY <1>1, <2>1, <2>2, <3>5 DEF Destroy, DestroyPlatform, Deletes
    <3> QED BY <1>4, <3>1, <3>2, <3>3, <3>4, <3>5 DEF MCNext, Next
  <2> QED BY <1>1, <2>1, <2>3 DEF MCIInv, AloneInv
<1> QED BY <1>2, <1>3, <1>4

LEMMA MCSpecMCIInv == MCSpec => []MCIInv
BY InitMCIInv, NextMCIInv, PTL DEF MCSpec

---------------------------------------------------------------------------
(* Type correctness; g_androidPlatform is null or points to a platform     *)
(* that has not been deleted, however many were made.                      *)
THEOREM PointerIsLive == Spec => []TypeOK
<1>1. IInv => TypeOK
  BY DEF IInv
<1> QED BY <1>1, SpecIInv, PTL

(* A platform stays allocated for as long as a game thread calls through   *)
(* it, and m_activity is a reference that exists whenever a call uses it,  *)
(* also while nativeInitPlatform() replaces it.                            *)
THEOREM CallsFindPlatform == Spec => []InUseIsValid
<1>1. IInv => InUseIsValid
  BY DEF IInv, TypeOK, PlacesInv, PointerInv, ActivityInv, InUseIsValid,
    BeforePlaces, CallPlaces, CreatePlaces, Threads
<1> QED BY <1>1, SpecIInv, PTL

(* Whichever way a call ends, the local references it made are deleted. *)
THEOREM CallsReturnLocals == Spec => []LocalsReturned
<1>1. IInv => LocalsReturned
  BY DEF IInv, LocalsInv, LocalsReturned, BeforePlaces
<1> QED BY <1>1, SpecIInv, PTL

(* Without a race in create() there is one platform and everybody has it. *)
THEOREM OnlyRaceMakesTwo == MCSpec => []OnePlatform
<1>1. MCIInv => OnePlatform
  BY DEF MCIInv, AloneInv, OnePlatform
<1> QED BY <1>1, MCSpecMCIInv, PTL

(* Without a race in create() the platform that game threads get is the    *)
(* one nativeInitPlatform() gave the VM and the newest activity.           *)
THEOREM GamesGetTheActivity == MCSpec => []ActivityReachesAll
<1>1. MCIInv => ActivityReachesAll
  BY PlatformAssumption
     DEF MCIInv, IInv, TypeOK, PointerInv, ActivityInv, AloneInv, ActivityReachesAll, Threads
<1> QED BY <1>1, MCSpecMCIInv, PTL
=============================================================================
