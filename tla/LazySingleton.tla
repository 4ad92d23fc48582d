--------------------------- MODULE LazySingleton ---------------------------
(***************************************************************************)
(* LazySingleton<T>: getInstance() builds the object under std::call_once  *)
(* and returns *m_instance; destroy() empties m_instance.  The once flag   *)
(* is the library's: one caller runs the lambda while the others wait, and *)
(* a lambda that throws leaves the flag as it was.  Threads call destroy() *)
(* when none is using the object, the only time it can be right.           *)
(***************************************************************************)
CONSTANTS Threads,
          Objs,     \* objects of type T
          None      \* the null pointer

ASSUME SingletonAssumption == None \notin Objs

VARIABLES
  initFlag,  \* m_initFlag: "unset", "running", "done"
  instance,  \* m_instance
  pc,        \* "out", "build" in the lambda, "deref" after call_once, "use"
  got        \* got[t]: the object thread t has a reference to

vars == <<initFlag, instance, pc, got>>

Goto(t, place) == pc' = [pc EXCEPT ![t] = place]

Init ==
  /\ initFlag = "unset" /\ instance = None
  /\ pc = [t \in Threads |-> "out"]
  /\ got = [t \in Threads |-> None]

(* call_once: run the lambda, or go on if it has been run. *)
TestsPointer(t) ==  \* seeded fault: "if (!m_instance)" in place of call_once
  /\ pc[t] = "out"
  /\ Goto(t, IF instance = None THEN "build" ELSE "deref")
  /\ UNCHANGED <<initFlag, instance, got>>
CallOnce(t) ==
  /\ pc[t] = "out"
  /\ \/ initFlag = "unset" /\ initFlag' = "running" /\ Goto(t, "build")
     \/ initFlag = "done" /\ UNCHANGED initFlag /\ Goto(t, "deref")
  /\ UNCHANGED <<instance, got>>

(* m_instance = make_unique<T>(), which deletes what m_instance had. *)
Build(t) ==
  /\ pc[t] = "build"
  /\ \E o \in Objs \ {instance} : instance' = o
  /\ initFlag' = "done"
  /\ Goto(t, "deref")
  /\ UNCHANGED got

(* T's constructor throws. *)
DoneAnyway(t) ==  \* seeded fault: the flag is set though nothing was built
  /\ pc[t] = "build"
  /\ initFlag' = "done"
  /\ Goto(t, "out")
  /\ UNCHANGED <<instance, got>>
BuildThrows(t) ==
  /\ pc[t] = "build"
  /\ initFlag' = "unset"
  /\ Goto(t, "out")
  /\ UNCHANGED <<instance, got>>

(* *m_instance; null is undefined, and the model stops the thread there. *)
Deref(t) ==
  /\ pc[t] = "deref" /\ instance # None
  /\ got' = [got EXCEPT ![t] = instance]
  /\ Goto(t, "use")
  /\ UNCHANGED <<initFlag, instance>>

Leave(t) ==
  /\ pc[t] = "use"
  /\ got' = [got EXCEPT ![t] = None]
  /\ Goto(t, "out")
  /\ UNCHANGED <<initFlag, instance>>

Destroy ==
  /\ \A t \in Threads : pc[t] = "out"
  /\ instance' = None
  /\ UNCHANGED <<initFlag, pc, got>>

Next ==
  \/ \E t \in Threads :
       CallOnce(t) \/ Build(t) \/ BuildThrows(t) \/ Deref(t) \/ Leave(t)
  \/ Destroy

Spec == Init /\ [][Next]_vars

---------------------------------------------------------------------------
(* The variables have their types, and one thread at most is building. *)
TypeOK ==
  /\ initFlag \in {"unset", "running", "done"}
  /\ instance \in Objs \cup {None}
  /\ pc \in [Threads -> {"out", "build", "deref", "use"}]
  /\ got \in [Threads -> Objs \cup {None}]
  /\ \A t, u \in Threads : pc[t] = "build" /\ pc[u] = "build" => t = u

(* Every reference that getInstance() has given out is to the one object   *)
(* there is: a second one, built by a racing caller or by one that comes   *)
(* after an exception, would have deleted it.                              *)
ReferencesLive == \A t \in Threads : pc[t] = "use" => got[t] = instance

(* getInstance() has an object to return when call_once is over.  True     *)
(* until the first destroy(), which leaves the flag set.                   *)
HasInstance == \A t \in Threads : pc[t] = "deref" => instance # None
=============================================================================
