-------------------------- MODULE MCLazySingleton --------------------------
(* LazySingleton for TLC, with a history variable for destroy(). *)
EXTENDS LazySingleton

VARIABLE destroyed  \* an object has been destroyed

MCInit == Init /\ destroyed = FALSE
MCNext ==
  /\ Next
  /\ destroyed' = (destroyed \/ (instance # None /\ instance' = None))

MCSpec == MCInit /\ [][MCNext]_<<vars, destroyed>>

(* In its first life the singleton is always there when call_once returns, *)
(* also after constructors that threw.                                     *)
HasFirstInstance == ~destroyed => HasInstance
=============================================================================
