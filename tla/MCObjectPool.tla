--------------------------- MODULE MCObjectPool ---------------------------
(* ObjectPool for TLC, with a history variable for the demand it has met. *)
EXTENDS ObjectPool, FiniteSetsExt

VARIABLE peak  \* most objects ever out of the list at the same time

InUse == {o \in Objs : held[o] # {}} \cup UNION {hand[t] : t \in Threads}

MCInit == Init /\ peak = 0
MCNext == Next /\ peak' = Max({peak, Cardinality(InUse')})

MCSpec ==
  /\ MCInit /\ [][MCNext]_<<vars, peak>>
  /\ \A t \in Threads : WF_vars(InsideStep(t))

(* The pool never allocates while an object lies idle on the list, and     *)
(* gets every object back: it holds no more objects than it was built with *)
(* or than were ever needed at once, however long it runs.                 *)
DemandBound == Cardinality(heap) <= Max({InitialSize, peak})
=============================================================================
