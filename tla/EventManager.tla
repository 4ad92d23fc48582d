--------------------------- MODULE EventManager ---------------------------
(***************************************************************************)
(* EventManager: subscriptions per event type behind m_mutex, and a queue  *)
(* of deferred events behind m_queueMutex.  publish() copies the handlers  *)
(* of one type under the lock and calls the copies after it has given the  *)
(* lock up, so a handler may itself subscribe, unsubscribe, publish or     *)
(* queue.                                                                  *)
(*                                                                         *)
(* Critical sections of several statements are several actions.  Those of  *)
(* m_queueMutex are one statement long and never overlap another lock, so  *)
(* they are single actions and the mutex itself is not a variable.  The    *)
(* copy constructors that run where a std::function is copied under        *)
(* m_mutex are taken to use no EventManager; they may throw.               *)
(* unsubscribe(), processQueue() and clear() are only declared; they are   *)
(* modelled from their comments, with every liberty those leave.           *)
(***************************************************************************)
EXTENDS Integers, SequencesExt

CONSTANTS
  Threads,   \* threads of the program
  Types,     \* event types
  NoThread,  \* "the mutex is free"
  MaxId,     \* bound: subscriptions made in a run
  MaxEvents  \* bound: events being published or waiting, when one is added

ASSUME EventAssumption ==
  /\ NoThread \notin Threads
  /\ MaxId \in Nat /\ MaxEvents \in Nat

VARIABLES
  handlers,  \* m_handlers: per type the ids of its HandlerPairs, in order
  nextId,    \* m_nextId
  mutex,     \* the thread that holds m_mutex, or NoThread
  queue,     \* m_eventQueue: the types of the waiting events
  pc,        \* where each thread is
  drawn,     \* drawn[t]: type and id of the subscription t is making
  stack      \* stack[t]: the publish() calls t is in, innermost first

vars == <<handlers, nextId, mutex, queue, pc, drawn, stack>>

(* "user": code outside this class, a handler if the stack is not empty;   *)
(* "add": in subscribe(), id drawn; "copy": in publish(), copying under    *)
(* the lock; "loop": in publish()'s loop of calls; "batch": in             *)
(* processQueue(), between two events.                                     *)
Places == {"user", "add", "copy", "loop", "batch"}

Ids == 1..MaxId

(* A publish(): the event's type, the copied handlers not called yet, and  *)
(* the events processQueue() took and has still to publish after this one. *)
Frame(e, todo, rest) == [ev |-> e, todo |-> todo, rest |-> rest]
Frames == [ev : Types, todo : Seq(Ids), rest : Seq(Types)]

Top(t)     == Head(stack[t])
SetTop(t, f) == stack' = [stack EXCEPT ![t] = <<f>> \o Tail(@)]
Push(t, f) == stack' = [stack EXCEPT ![t] = <<f>> \o @]
Goto(t, place) == pc' = [pc EXCEPT ![t] = place]

(* The bound on nesting and queue together: a publish() and each event not *)
(* published yet count as one.                                             *)
Taken(s)   == FoldFunction(LAMBDA f, n : n + 1 + Len(f.rest), 0, s)
MoreEvents ==
  Len(queue) + FoldFunction(+, 0, [t \in Threads |-> Taken(stack[t])]) < MaxEvents

Init ==
  /\ handlers = [e \in Types |-> <<>>]
  /\ nextId = 1
  /\ mutex = NoThread
  /\ queue = <<>>
  /\ pc = [t \in Threads |-> "user"]
  /\ drawn = [t \in Threads |-> <<>>]
  /\ stack = [t \in Threads |-> <<>>]

---------------------------------------------------------------------------
NoLock(t) == UNCHANGED mutex  \* seeded fault: lock_guard forgotten
Locks(t) == mutex = NoThread /\ mutex' = t
KeepsLock(t) == UNCHANGED mutex  \* seeded fault: no unlock on the way out
Unlocks(t) == mutex' = NoThread

(* subscribe(): lock, then id = m_nextId++. *)
SubscribeEnter(t, e) ==
  /\ pc[t] = "user" /\ nextId <= MaxId
  /\ Locks(t)
  /\ drawn' = [drawn EXCEPT ![t] = <<e, nextId>>]
  /\ nextId' = nextId + 1
  /\ Goto(t, "add")
  /\ UNCHANGED <<handlers, queue, stack>>

(* emplace_back and return. *)
SubscribeAdd(t) ==
  /\ pc[t] = "add"
  /\ handlers' = [handlers EXCEPT ![drawn[t][1]] = Append(@, drawn[t][2])]
  /\ drawn' = [drawn EXCEPT ![t] = <<>>]
  /\ Unlocks(t)
  /\ Goto(t, "user")
  /\ UNCHANGED <<nextId, queue, stack>>

(* emplace_back, or the map's operator[] before it, throws: the id drawn   *)
(* is used up.                                                             *)
SubscribeThrows(t) ==
  /\ pc[t] = "add"
  /\ drawn' = [drawn EXCEPT ![t] = <<>>]
  /\ Unlocks(t)
  /\ Goto(t, "user")
  /\ UNCHANGED <<handlers, nextId, queue, stack>>

(* unsubscribe(id): the subscription goes from whichever list has it. *)
Unsubscribe(t, id) ==
  /\ pc[t] = "user" /\ mutex = NoThread /\ id < nextId
  /\ handlers' = [e \in Types |-> RemoveFirst(handlers[e], id)]
  /\ UNCHANGED <<nextId, mutex, queue, pc, drawn, stack>>

(* clear(): all handlers go. *)
Clear(t) ==
  /\ pc[t] = "user" /\ mutex = NoThread
  /\ handlers' = [e \in Types |-> <<>>]
  /\ UNCHANGED <<nextId, mutex, queue, pc, drawn, stack>>

---------------------------------------------------------------------------
(* An exception leaves the innermost publish(): the copies not called yet  *)
(* are lost with its locals, and so are the events taken by a              *)
(* processQueue() that does not catch what it throws.                      *)
LeavesPublish(t) ==
  \/ /\ stack' = [stack EXCEPT ![t] = Tail(@)]
     /\ Goto(t, "user")
  \/ /\ Top(t).rest # <<>>
     /\ Goto(t, "batch")
     /\ UNCHANGED stack

(* publish(): lock and find the list. *)
PublishEnter(t, e) ==
  /\ pc[t] = "user" /\ MoreEvents
  /\ Locks(t)
  /\ Push(t, Frame(e, <<>>, <<>>))
  /\ Goto(t, "copy")
  /\ UNCHANGED <<handlers, nextId, queue, drawn>>

(* One turn of the copying loop. *)
PublishCopy(t) ==
  /\ pc[t] = "copy"
  /\ LET f == Top(t)  list == handlers[f.ev]  n == Len(f.todo) IN
       /\ n < Len(list)
       /\ SetTop(t, [f EXCEPT !.todo = Append(@, list[n + 1])])
  /\ UNCHANGED <<handlers, nextId, mutex, queue, pc, drawn>>

(* find(), reserve() or the copy of a std::function throws. *)
PublishCopyThrows(t) ==
  /\ pc[t] = "copy"
  /\ Top(t).todo = <<>> \/ Len(Top(t).todo) < Len(handlers[Top(t).ev])
  /\ Unlocks(t)
  /\ LeavesPublish(t)
  /\ UNCHANGED <<handlers, nextId, queue, drawn>>

(* The loop is done: unlock. *)
UnlocksEarly(t) ==  \* seeded fault: the last handler is not copied
  /\ pc[t] = "copy"
  /\ Len(Top(t).todo) + 1 >= Len(handlers[Top(t).ev])
  /\ Unlocks(t)
  /\ Goto(t, "loop")
  /\ UNCHANGED <<handlers, nextId, queue, drawn, stack>>
PublishUnlock(t) ==
  /\ pc[t] = "copy"
  /\ Len(Top(t).todo) >= Len(handlers[Top(t).ev])
  /\ Unlocks(t)
  /\ Goto(t, "loop")
  /\ UNCHANGED <<handlers, nextId, queue, drawn, stack>>

(* handler(event) is called ... *)
CallHandler(t) ==
  /\ pc[t] = "loop"
  /\ LET f == Top(t) IN
       /\ f.todo # <<>>
       /\ SetTop(t, [f EXCEPT !.todo = Tail(@)])
  /\ Goto(t, "user")
  /\ UNCHANGED <<handlers, nextId, mutex, queue, drawn>>

(* ... and returns. *)
HandlerReturns(t) ==
  /\ pc[t] = "user" /\ stack[t] # <<>>
  /\ Goto(t, "loop")
  /\ UNCHANGED <<handlers, nextId, mutex, queue, drawn, stack>>

(* ... or throws. *)
HandlerThrows(t) ==
  /\ pc[t] = "user" /\ stack[t] # <<>>
  /\ LeavesPublish(t)
  /\ UNCHANGED <<handlers, nextId, mutex, queue, drawn>>

(* All copies called: publish() returns, to its caller or to processQueue. *)
DropsBatch(t) ==  \* seeded fault: the events still to publish are lost
  /\ pc[t] = "loop" /\ Top(t).todo = <<>>
  /\ stack' = [stack EXCEPT ![t] = Tail(@)]
  /\ Goto(t, IF Top(t).rest = <<>> THEN "user" ELSE "batch")
  /\ UNCHANGED <<handlers, nextId, mutex, queue, drawn>>
PublishReturns(t) ==
  /\ pc[t] = "loop" /\ Top(t).todo = <<>>
  /\ IF Top(t).rest = <<>>
     THEN /\ stack' = [stack EXCEPT ![t] = Tail(@)]
          /\ Goto(t, "user")
     ELSE Goto(t, "batch") /\ UNCHANGED stack
  /\ UNCHANGED <<handlers, nextId, mutex, queue, drawn>>

---------------------------------------------------------------------------
(* queueEvent(). *)
QueueEvent(t, e) ==
  /\ pc[t] = "user" /\ MoreEvents
  /\ queue' = Append(queue, e)
  /\ UNCHANGED <<handlers, nextId, mutex, pc, drawn, stack>>

(* processQueue() takes the queue, or any first part of it ... *)
ProcessQueue(t) ==
  /\ pc[t] = "user"
  /\ \E n \in 1..Len(queue) :
       /\ Push(t, Frame(queue[1], <<>>, SubSeq(queue, 1, n)))
       /\ queue' = SubSeq(queue, n + 1, Len(queue))
  /\ Goto(t, "batch")
  /\ UNCHANGED <<handlers, nextId, mutex, drawn>>

(* ... and publishes the events it took one after the other. *)
PublishNext(t) ==
  /\ pc[t] = "batch"
  /\ Locks(t)
  /\ SetTop(t, Frame(Head(Top(t).rest), <<>>, Tail(Top(t).rest)))
  /\ Goto(t, "copy")
  /\ UNCHANGED <<handlers, nextId, queue, drawn>>

---------------------------------------------------------------------------
Next ==
  \E t \in Threads :
    \/ \E e \in Types : SubscribeEnter(t, e) \/ PublishEnter(t, e) \/ QueueEvent(t, e)
    \/ \E id \in Ids : Unsubscribe(t, id)
    \/ SubscribeAdd(t) \/ SubscribeThrows(t) \/ Clear(t)
    \/ PublishCopy(t) \/ PublishCopyThrows(t) \/ PublishUnlock(t)
    \/ CallHandler(t) \/ HandlerReturns(t) \/ HandlerThrows(t) \/ PublishReturns(t)
    \/ ProcessQueue(t) \/ PublishNext(t)

(* A thread that holds the lock keeps running. *)
LockedStep(t) ==
  \/ SubscribeAdd(t) \/ SubscribeThrows(t)
  \/ PublishCopy(t) \/ PublishCopyThrows(t) \/ PublishUnlock(t)

Spec     == Init /\ [][Next]_vars
FairSpec == Spec /\ \A t \in Threads : WF_vars(LockedStep(t))

---------------------------------------------------------------------------
(* The variables have their types, and a thread that is told to copy, call *)
(* or go on with a batch is in a publish() that has one.                   *)
TypeOK ==
  /\ handlers \in [Types -> Seq(Ids)]
  /\ nextId \in 1..(MaxId + 1)
  /\ mutex \in Threads \cup {NoThread}
  /\ queue \in Seq(Types)
  /\ pc \in [Threads -> Places]
  /\ drawn \in [Threads -> (Types \X Ids) \cup {<<>>}]
  /\ stack \in [Threads -> Seq(Frames)]
  /\ \A t \in Threads :
       /\ pc[t] = "add" => drawn[t] \in Types \X Ids
       /\ pc[t] \in {"copy", "loop", "batch"} => stack[t] # <<>>

Strictly(s) == \A i, j \in DOMAIN s : i < j => s[i] < s[j]

(* Ids identify subscriptions: the lists of all types hold only ids that   *)
(* have been drawn, no id is in two lists or in one twice, and every list  *)
(* is in the order the ids were drawn, which is the order publish() calls  *)
(* in.  Needs m_nextId++ and emplace_back under one lock.                  *)
IdsIdentify ==
  \A e \in Types :
    /\ Strictly(handlers[e])
    /\ \A i \in DOMAIN handlers[e] : handlers[e][i] < nextId
    /\ \A d \in Types \ {e} :
         \A i \in DOMAIN handlers[e], j \in DOMAIN handlers[d] :
           handlers[e][i] # handlers[d][j]

(* "Lock disinda callback'leri cagir (deadlock onleme)"                    *)
(* (event_system.hpp:71): a thread in a handler, or in any other code of   *)
(* the caller, does not hold m_mutex, so no call it makes can wait for     *)
(* itself.  (The copy constructors of what the handlers captured are the   *)
(* exception: they run at line 66, under the lock.)                        *)
NoLockInHandler == \A t \in Threads : pc[t] \in {"user", "loop", "batch"} => mutex # t

(* m_mutex is always given up again. *)
MutexFreed == \A t \in Threads : mutex = t ~> mutex = NoThread

(* The locks make publish() and subscribe() atomic: what callers see is an *)
(* event bus, in which every publish() calls the handlers subscribed at    *)
(* one moment, each once and in order, up to one that throws, or none if   *)
(* the list could not be copied.                                           *)
Calls(t) ==
  LET shown == IF pc[t] \in {"copy", "batch"} THEN Tail(stack[t]) ELSE stack[t]
  IN  [i \in DOMAIN shown |->
         [todo |-> shown[i].todo, inside |-> i > 1 \/ pc[t] # "loop"]]

Bus == INSTANCE EventBus WITH
  subs   <- handlers,
  issued <- (1..(nextId - 1)) \ {drawn[t][2] : t \in {u \in Threads : pc[u] = "add"}},
  calls  <- [t \in Threads |-> Calls(t)]
BusSpec == Bus!Spec

=============================================================================
