------------------------------ MODULE EventBus ------------------------------
(***************************************************************************)
(* What EventManager (src/core/include/metin2/core/event_system.hpp)       *)
(* promises its callers.  A subscription gets an id never given before and *)
(* is appended to its event type's list; publish() takes the list as it is *)
(* at one moment and calls exactly those handlers, each once, in           *)
(* subscription order and one after the other, whatever happens to the     *)
(* list meanwhile; a handler may publish itself.  Only a handler that      *)
(* throws ends a publish() early.  There are no locks at this level.       *)
(***************************************************************************)
EXTENDS SequencesExt

CONSTANTS Threads, Types, Ids

VARIABLES
  subs,    \* subs[e]: ids of the subscriptions to events of type e
  issued,  \* ids used up so far, by subscriptions made or failed
  calls    \* calls[t]: each publish() that thread t is in, the innermost
           \* first: the handlers it has still to call, and whether one of
           \* its handlers is running

vars == <<subs, issued, calls>>

Innermost(t) == Head(calls[t])
InHandler(t) == calls[t] # <<>> /\ Innermost(t).inside
InLoop(t)    == calls[t] # <<>> /\ ~Innermost(t).inside
Replace(t, c) == calls' = [calls EXCEPT ![t] = <<c>> \o Tail(@)]
Leave(t)      == calls' = [calls EXCEPT ![t] = Tail(@)]

Init ==
  /\ subs = [e \in Types |-> <<>>]
  /\ issued = {}
  /\ calls = [t \in Threads |-> <<>>]

Subscribe(e, id) ==
  /\ id \notin issued
  /\ issued' = issued \cup {id}
  /\ subs' = [subs EXCEPT ![e] = Append(@, id)]
  /\ UNCHANGED calls

(* A subscription fails; its id is never given again. *)
SubscribeFails(id) ==
  /\ id \notin issued
  /\ issued' = issued \cup {id}
  /\ UNCHANGED <<subs, calls>>

Unsubscribe(id) ==
  /\ subs' = [e \in Types |-> RemoveFirst(subs[e], id)]
  /\ UNCHANGED <<issued, calls>>

Clear ==
  /\ subs' = [e \in Types |-> <<>>]
  /\ UNCHANGED <<issued, calls>>

Publish(t, e) ==
  /\ ~InLoop(t)
  /\ calls' = [calls EXCEPT ![t] = <<[todo |-> subs[e], inside |-> FALSE]>> \o @]
  /\ UNCHANGED <<subs, issued>>

Call(t) ==
  /\ InLoop(t) /\ Innermost(t).todo # <<>>
  /\ Replace(t, [todo |-> Tail(Innermost(t).todo), inside |-> TRUE])
  /\ UNCHANGED <<subs, issued>>

Return(t) ==
  /\ InHandler(t)
  /\ Replace(t, [Innermost(t) EXCEPT !.inside = FALSE])
  /\ UNCHANGED <<subs, issued>>

Throw(t) ==
  /\ InHandler(t)
  /\ Leave(t)
  /\ UNCHANGED <<subs, issued>>

Finish(t) ==
  /\ InLoop(t) /\ Innermost(t).todo = <<>>
  /\ Leave(t)
  /\ UNCHANGED <<subs, issued>>

Next ==
  \/ \E e \in Types, id \in Ids : Subscribe(e, id)
  \/ \E id \in Ids : SubscribeFails(id) \/ Unsubscribe(id)
  \/ Clear
  \/ \E t \in Threads :
       \/ Call(t) \/ Return(t) \/ Throw(t) \/ Finish(t)
       \/ \E e \in Types : Publish(t, e)

Spec == Init /\ [][Next]_vars
=============================================================================
