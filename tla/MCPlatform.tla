----------------------------- MODULE MCPlatform -----------------------------
(* Platform for TLC: game threads, objects and references are alike, and a *)
(* history variable tells of the race in create().                         *)
EXTENDS Platform, TLC

Same == Permutations(Game) \cup Permutations(Plats) \cup Permutations(Activities)

VARIABLE raced  \* two threads have been in "new" at the same time

MCInit == Init /\ raced = FALSE
MCNext ==
  /\ Next
  /\ raced' = (raced \/ \E t, u \in Threads : t # u /\ pc'[t] = "new" /\ pc'[u] = "new")

MCSpec == MCInit /\ [][MCNext]_<<vars, raced>>

(* Unless two threads find the pointer null at the same time there is one  *)
(* platform, and it is everybody's ...                                     *)
OnePlatform == ~raced => live \subseteq {g} /\ \A t \in Threads : plat[t] \in {g, None}

(* ... and once nativeInitPlatform() has run it has the VM and the newest  *)
(* activity, even if a game thread made it before.                         *)
ActivityReachesAll == ~raced /\ pc[Java] = "running" => g \in vm /\ activity[g] = ref
=============================================================================
