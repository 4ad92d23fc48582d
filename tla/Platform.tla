------------------------------ MODULE Platform ------------------------------
(***************************************************************************)
(* The Android platform layer: one global AndroidPlatform, made by whoever *)
(* needs it first (PlatformFactory::create() without a lock), initialized  *)
(* by the Java thread when an activity starts, and used by game threads,   *)
(* whose calls go through JNI.  Each read and write of the shared pointers *)
(* is a step of its own.                                                   *)
(*                                                                         *)
(* Java methods, the VM and the callers of destroy() are not in the        *)
(* repository.  Methods may throw; the JNI calls that a thread then makes  *)
(* all the same are undefined, and the model stops the thread there.  The  *)
(* Java class and its methods exist.  destroy() is called by the Java      *)
(* thread, when no game thread is using the platform.                      *)
(***************************************************************************)
CONSTANTS
  Game,        \* game threads
  Java,        \* the thread that runs the activity
  Plats,       \* AndroidPlatform objects the heap has room for
  Activities,  \* bound: global references made to activities
  None         \* a null pointer

ASSUME PlatformAssumption ==
  /\ Java \notin Game
  /\ None \notin Plats \cup Activities

VARIABLES
  g,         \* g_androidPlatform
  live,      \* objects allocated and not deleted
  vm,        \* those with m_javaVM set
  activity,  \* m_activity of each
  refs,      \* global references that exist
  pc,        \* where each thread is
  plat,      \* plat[t]: the platform thread t has a pointer to
  ref,       \* the global reference nativeInitPlatform() has just made
  call,      \* call[t]: kind of the call t is in, or None
  attached,  \* game threads attached to the VM
  locals,    \* locals[t]: JNI local references t has
  thrown     \* threads with a Java exception pending

shared == <<g, live, vm, activity, refs, ref>>
jni    == <<call, attached, locals, thrown>>
vars   == <<g, live, vm, activity, refs, pc, plat, ref, call, attached, locals, thrown>>

Threads == Game \cup {Java}
(* A call with a result of a plain type or none; one that returns a string *)
(* (getDataPath ...); openURL(), which passes one; getScreenSize(), which  *)
(* needs no activity.                                                      *)
Kinds == {"plain", "string", "url", "screen"}
Places ==
  {"out", "create", "new", "result", "store", "deref",  \* create(), getPlatform()
   "ref", "vm", "activity", "running",                  \* nativeInitPlatform()
   "in", "url", "env", "test", "class", "invoke", "copy", "height", "return", "end"}

Goto(t, place) == pc' = [pc EXCEPT ![t] = place]

Init ==
  /\ g = None /\ live = {} /\ vm = {}
  /\ activity = [p \in Plats |-> None]
  /\ refs = {} /\ ref = None
  /\ pc = [t \in Threads |-> "out"]
  /\ plat = [t \in Threads |-> None]
  /\ call = [t \in Game |-> None]
  /\ attached = {} /\ thrown = {}
  /\ locals = [t \in Game |-> {}]

---------------------------------------------------------------------------
(* PlatformFactory::create(): test, allocate and assign, read once more.   *)
CreateAlways(t) ==  \* seeded fault: no test, getPlatform() has made one
  /\ pc[t] = "create"
  /\ Goto(t, "new")
  /\ UNCHANGED <<shared, plat, jni>>
CreateTest(t) ==
  /\ pc[t] = "create"
  /\ Goto(t, IF g = None THEN "new" ELSE "result")
  /\ UNCHANGED <<shared, plat, jni>>

CreateNew(t) ==
  /\ pc[t] = "new"
  /\ \E p \in Plats \ live :
       /\ g' = p
       /\ live' = live \cup {p}
  /\ Goto(t, "result")
  /\ UNCHANGED <<vm, activity, refs, ref, plat, jni>>

CreateReturns(t) ==
  /\ pc[t] = "result"
  /\ plat' = [plat EXCEPT ![t] = g]
  /\ Goto(t, IF t = Java THEN "ref" ELSE "store")
  /\ UNCHANGED <<shared, jni>>

(* getPlatform(): test, assign what create() returned, read once more.     *)
GetPlatform(t) ==
  /\ pc[t] = "out" /\ t \in Game
  /\ Goto(t, IF g = None THEN "create" ELSE "deref")
  /\ UNCHANGED <<shared, plat, jni>>

Store(t) ==
  /\ pc[t] = "store"
  /\ g' = plat[t]
  /\ Goto(t, "deref")
  /\ UNCHANGED <<live, vm, activity, refs, ref, plat, jni>>

Deref(t) ==
  /\ pc[t] = "deref" /\ g # None
  /\ plat' = [plat EXCEPT ![t] = g]
  /\ Goto(t, "in")
  /\ UNCHANGED <<shared, jni>>

(* The game thread is done with its reference. *)
Leave(t) ==
  /\ pc[t] = "in"
  /\ plat' = [plat EXCEPT ![t] = None]
  /\ Goto(t, "out")
  /\ UNCHANGED <<shared, jni>>

---------------------------------------------------------------------------
(* nativeInitPlatform(), for each activity: create(), NewGlobalRef(), and  *)
(* the two assignments of initialize().  Nothing deletes a global          *)
(* reference.                                                              *)
NativeInit ==
  /\ pc[Java] \in {"out", "running"}
  /\ Goto(Java, "create")
  /\ UNCHANGED <<shared, plat, jni>>

ReplacesRef ==  \* seeded fault: the reference to the last activity is deleted first
  /\ pc[Java] = "ref"
  /\ \E a \in Activities \ refs : ref' = a /\ refs' = (refs \ {ref}) \cup {a}
  /\ Goto(Java, "vm")
  /\ UNCHANGED <<g, live, vm, activity, plat, jni>>
NewGlobalRef ==
  /\ pc[Java] = "ref"
  /\ \E a \in Activities \ refs : ref' = a /\ refs' = refs \cup {a}
  /\ Goto(Java, "vm")
  /\ UNCHANGED <<g, live, vm, activity, plat, jni>>

SetVM ==
  /\ pc[Java] = "vm"
  /\ vm' = vm \cup {plat[Java]}
  /\ Goto(Java, "activity")
  /\ UNCHANGED <<g, live, activity, refs, ref, plat, jni>>

SetOnce ==  \* seeded fault: a platform that has an activity keeps it
  /\ pc[Java] = "activity"
  /\ activity' = [activity EXCEPT ![plat[Java]] = IF @ = None THEN ref ELSE @]
  /\ Goto(Java, "running")
  /\ UNCHANGED <<g, live, vm, refs, ref, plat, jni>>
SetActivity ==
  /\ pc[Java] = "activity"
  /\ activity' = [activity EXCEPT ![plat[Java]] = ref]
  /\ Goto(Java, "running")
  /\ UNCHANGED <<g, live, vm, refs, ref, plat, jni>>

(* destroy() deletes the platform it is given only if it is the global one.*)
Deletes(p) ==
  /\ live' = live \ {p}
  /\ vm' = vm \ {p}
  /\ activity' = [activity EXCEPT ![p] = None]

KeepsPointer(p) ==  \* seeded fault: the global pointer is not cleared
  IF p = g THEN Deletes(p) /\ UNCHANGED g ELSE UNCHANGED <<g, live, vm, activity>>
DestroyPlatform(p) ==
  IF p = g THEN Deletes(p) /\ g' = None ELSE UNCHANGED <<g, live, vm, activity>>

Destroy ==
  /\ pc[Java] = "running" /\ \A t \in Game : pc[t] = "out"
  /\ DestroyPlatform(plat[Java])
  /\ plat' = [plat EXCEPT ![Java] = None]
  /\ Goto(Java, "out")
  /\ UNCHANGED <<refs, ref, jni>>

---------------------------------------------------------------------------
(* Calls.  A JNI call with an exception pending is undefined.              *)
MayCallJava(t) == t \notin thrown

AddLocal(t, r)  == locals' = [locals EXCEPT ![t] = @ \cup {r}]
DropLocal(t, r) == locals' = [locals EXCEPT ![t] = @ \ {r}]

StartCall(t, kind) ==
  /\ pc[t] = "in"
  /\ call' = [call EXCEPT ![t] = kind]
  /\ Goto(t, IF kind = "url" THEN "url" ELSE "env")
  /\ UNCHANGED <<shared, plat, attached, locals, thrown>>

(* getJNIEnv(): no VM yet, or the thread is attached, if it was not, and   *)
(* attaching may fail.                                                     *)
HasEnv(t) == plat[t] \in vm /\ attached' = attached \cup {t}
NoEnv(t)  == (plat[t] \in vm => t \notin attached) /\ UNCHANGED attached

EndCall(t) == Goto(t, "in") /\ call' = [call EXCEPT ![t] = None]
(* callJavaMethod() returns, to openURL() or to the game. *)
Return(t) == IF call[t] = "url" THEN Goto(t, "end") /\ UNCHANGED call ELSE EndCall(t)

(* openURL(): getJNIEnv(), NewStringUTF().                                 *)
OpenURL(t) ==
  /\ pc[t] = "url"
  /\ \/ /\ HasEnv(t) /\ MayCallJava(t)
        /\ AddLocal(t, "url") /\ Goto(t, "env") /\ UNCHANGED call
     \/ NoEnv(t) /\ EndCall(t) /\ UNCHANGED locals
  /\ UNCHANGED <<shared, plat, thrown>>

GetEnv(t) ==
  /\ pc[t] = "env"
  /\ \/ /\ HasEnv(t)
        /\ Goto(t, IF call[t] = "screen" THEN "class" ELSE "test")
        /\ UNCHANGED call
     \/ NoEnv(t) /\ Return(t)
  /\ UNCHANGED <<shared, plat, locals, thrown>>

TestActivity(t) ==
  /\ pc[t] = "test"
  /\ IF activity[plat[t]] = None
     THEN Return(t)
     ELSE Goto(t, "class") /\ UNCHANGED call
  /\ UNCHANGED <<shared, plat, attached, locals, thrown>>

(* GetObjectClass() or FindClass(), and the method's id. *)
GetClass(t) ==
  /\ pc[t] = "class" /\ MayCallJava(t)
  /\ AddLocal(t, "class")
  /\ Goto(t, "invoke")
  /\ UNCHANGED <<shared, plat, call, attached, thrown>>

(* The call, of getScreenWidth() in getScreenSize(); a method that throws  *)
(* returns nothing.                                                        *)
AfterInvoke(t) ==
  CASE call[t] = "string" -> "copy"
    [] call[t] = "screen" -> "height"
    [] OTHER -> "return"

Invoke(t) ==
  /\ pc[t] = "invoke"
  /\ Goto(t, AfterInvoke(t))
  /\ \/ /\ IF call[t] = "string" THEN AddLocal(t, "string") ELSE UNCHANGED locals
        /\ UNCHANGED thrown
     \/ thrown' = thrown \cup {t} /\ UNCHANGED locals
  /\ UNCHANGED <<shared, plat, call, attached>>

(* getScreenHeight(): the second call of getScreenSize(). *)
InvokeHeight(t) ==
  /\ pc[t] = "height" /\ MayCallJava(t)
  /\ thrown' \in {thrown, thrown \cup {t}}
  /\ Goto(t, "return")
  /\ UNCHANGED <<shared, plat, call, attached, locals>>

(* The string is copied and its reference deleted. *)
KeepsString(t) ==  \* seeded fault: DeleteLocalRef(jstr) forgotten
  /\ pc[t] = "copy" /\ MayCallJava(t)
  /\ Goto(t, "return")
  /\ UNCHANGED <<shared, plat, jni>>
CopyString(t) ==
  /\ pc[t] = "copy" /\ MayCallJava(t)
  /\ DropLocal(t, "string")
  /\ Goto(t, "return")
  /\ UNCHANGED <<shared, plat, call, attached, thrown>>

(* DeleteLocalRef(), the one call that is allowed with an exception        *)
(* pending: of the class, and by openURL() of the string.                  *)
CallReturns(t) ==
  /\ pc[t] = "return"
  /\ DropLocal(t, "class")
  /\ Return(t)
  /\ UNCHANGED <<shared, plat, attached, thrown>>

OpenURLReturns(t) ==
  /\ pc[t] = "end"
  /\ DropLocal(t, "url")
  /\ EndCall(t)
  /\ UNCHANGED <<shared, plat, attached, thrown>>

---------------------------------------------------------------------------
Create(t) == CreateTest(t) \/ CreateNew(t) \/ CreateReturns(t)

Call(t) ==
  \/ \E kind \in Kinds : StartCall(t, kind)
  \/ OpenURL(t) \/ GetEnv(t) \/ TestActivity(t) \/ GetClass(t) \/ Invoke(t)
  \/ InvokeHeight(t) \/ CopyString(t) \/ CallReturns(t) \/ OpenURLReturns(t)

Next ==
  \/ \E t \in Threads : Create(t)
  \/ \E t \in Game : GetPlatform(t) \/ Store(t) \/ Deref(t) \/ Leave(t) \/ Call(t)
  \/ NativeInit \/ NewGlobalRef \/ SetVM \/ SetActivity \/ Destroy

Spec == Init /\ [][Next]_vars

---------------------------------------------------------------------------
(* The variables have their types, and g_androidPlatform points to no      *)
(* deleted object.                                                         *)
TypeOK ==
  /\ live \subseteq Plats /\ vm \subseteq Plats
  /\ g \in live \cup {None}
  /\ activity \in [Plats -> Activities \cup {None}]
  /\ refs \subseteq Activities /\ ref \in Activities \cup {None}
  /\ pc \in [Threads -> Places]
  /\ plat \in [Threads -> Plats \cup {None}]
  /\ call \in [Game -> Kinds \cup {None}]
  /\ attached \subseteq Game /\ thrown \subseteq Game
  /\ locals \in [Game -> SUBSET {"class", "string", "url"}]

(* A game thread in the middle of a call has a platform that exists, and   *)
(* the activity it calls through JNI, read three times from m_activity,    *)
(* is a reference that exists, also while the activity is replaced.        *)
InUseIsValid ==
  \A t \in Game :
    /\ pc[t] \notin {"out", "create", "new", "result", "store", "deref"} => plat[t] \in live
    /\ pc[t] \in {"class", "invoke"} /\ call[t] # "screen" => activity[plat[t]] \in refs

(* A thread between two calls has no local references left, whichever way  *)
(* its calls ended: on a thread that stays attached they would add up.     *)
LocalsReturned == \A t \in Game : pc[t] \in {"out", "in"} => locals[t] = {}

(* "Global platform instance" (platform.hpp:135): there is one. *)
GlobalInstance == \A p, q \in live : p = q
=============================================================================
