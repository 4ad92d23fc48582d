---------------------------- MODULE ObjectLease ----------------------------
(***************************************************************************)
(* What ObjectPool<T> (src/core/include/metin2/core/memory_pool.hpp)       *)
(* promises to the code that calls acquire(): an object is handed out only *)
(* while nobody holds a handle on it, it has one holder when it is handed  *)
(* out, handles spread only from holders, and an object whose last handle  *)
(* is gone may be handed out again.  Locks, the free list and the          *)
(* allocator are not visible at this level.                                *)
(***************************************************************************)
CONSTANTS Threads,  \* threads that hold handles
          Objs      \* objects, which may hold handles as data members

VARIABLE users      \* users[o]: the holders of a handle on object o

Holders == Threads \cup Objs

Init == users = [o \in Objs |-> {}]

(* acquire() returned a handle on o to thread t. *)
Lease(t, o) ==
  /\ users[o] = {}
  /\ users' = [users EXCEPT ![o] = {t}]

(* A handle on o is copied by somebody who has one. *)
Share(h, o) ==
  /\ users[o] # {}
  /\ users' = [users EXCEPT ![o] = @ \cup {h}]

(* A handle on o is destroyed. *)
Return(h, o) ==
  /\ h \in users[o]
  /\ users' = [users EXCEPT ![o] = @ \ {h}]

(* Objects that nobody holds any more give up handles they hold as members.*)
Reclaim(dead) ==
  /\ \A q \in dead : users[q] = {}
  /\ users' \in [Objs -> SUBSET Holders]
  /\ \A o \in Objs : users'[o] \subseteq users[o] /\ users[o] \subseteq users'[o] \cup dead

Next ==
  \/ \E t \in Threads, o \in Objs : Lease(t, o)
  \/ \E h \in Holders, o \in Objs : Share(h, o) \/ Return(h, o)
  \/ \E dead \in SUBSET Objs : Reclaim(dead)

Spec == Init /\ [][Next]_users
=============================================================================
