--------------------------- MODULE PlainMembers ---------------------------
(***************************************************************************)
(* Data members that threads read and write through inline functions, with *)
(* neither a lock nor an atomic.  C++ leaves such an access undefined once *)
(* another thread's store is not ordered before it.  What builds do with   *)
(* it: every load gives a value that was stored, no thread goes back to an *)
(* older one, and a thread may go on with a value it holds in a register   *)
(* until an atomic it reads, or code outside, orders it after the store.   *)
(***************************************************************************)
EXTENDS Integers, Sequences, SequencesExt

CONSTANTS
  Threads,
  MaxStores  \* bound: stores to all the members when an operation starts

VARIABLES
  stores,  \* stores[m]: the values stored in member m, oldest first
  view,    \* view[t][m]: which of them is the oldest that t may still read
  raced    \* members with an access not ordered after every store before it

plainVars == <<stores, view, raced>>

PlainInit(members, v) ==
  /\ stores = [m \in members |-> <<v>>]
  /\ view = [t \in Threads |-> [m \in members |-> 1]]
  /\ raced = {}

Latest(m)    == Last(stores[m])
Later(v, w)  == [m \in DOMAIN stores |-> IF v[m] < w[m] THEN w[m] ELSE v[m]]
InOrder(t, m) == view[t][m] = Len(stores[m])

(* Thread t reads the i-th value of m; stores v in m; is ordered after     *)
(* whatever w shows.                                                       *)
Load(t, m, i) ==
  /\ i \in view[t][m]..Len(stores[m])
  /\ view' = [view EXCEPT ![t][m] = i]
  /\ UNCHANGED stores

Stored   == FoldFunction(LAMBDA s, n : n + Len(s) - 1, 0, stores)
MayStore == Stored < MaxStores
Store(t, m, v) ==
  /\ stores' = [stores EXCEPT ![m] = Append(@, v)]
  /\ view' = [view EXCEPT ![t][m] = Len(stores[m]) + 1]

Acquire(t, w) ==
  /\ view' = [view EXCEPT ![t] = Later(@, w)]
  /\ UNCHANGED stores

NotesRace(t, m) == raced' = IF InOrder(t, m) THEN raced ELSE raced \cup {m}

(* Code outside these classes orders u after t: a mutex, a queue, a join. *)
HandOver(t, u) == Acquire(u, view[t]) /\ UNCHANGED raced

PlainTypeOK ==
  /\ DOMAIN view = Threads
  /\ \A t \in Threads, m \in DOMAIN stores : view[t][m] \in 1..Len(stores[m])
  /\ raced \subseteq DOMAIN stores
=============================================================================
