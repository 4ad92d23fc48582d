------------------------------ MODULE Session ------------------------------
(***************************************************************************)
(* The player id of a Session, a plain member, next to its state, an       *)
(* atomic: threads set and get them in any order.                          *)
(***************************************************************************)
EXTENDS PlainMembers

SessionState == {"Disconnected", "Connecting", "Connected", "Authenticated", "InGame"}

VARIABLES
  state,    \* m_state: its value, what its store makes visible, and ...
  setId,    \* setId[t]: which store of m_playerId was t's own last one
  seenId,   \* seenId[t]: newest setId of the threads whose states t has read
  gotId     \* gotId[t]: the store t read since then in getPlayerId(), or 0

sessionVars == <<state, setId, seenId, gotId>>

SessionMembers == {"playerId"}

SessionInit ==
  /\ state = [val |-> "Disconnected", view |-> [m \in SessionMembers |-> 1], id |-> 1]
  /\ setId = [t \in Threads |-> 1]
  /\ seenId = [t \in Threads |-> 1]
  /\ gotId = [t \in Threads |-> 0]

SetPlayerId(t) ==
  /\ MayStore
  /\ Store(t, "playerId", Len(stores.playerId))
  /\ setId' = [setId EXCEPT ![t] = Len(stores.playerId) + 1]
  /\ UNCHANGED <<state, seenId, gotId, raced>>

GetPlayerId(t) ==
  /\ \E i \in 1..Len(stores.playerId) :
       Load(t, "playerId", i) /\ gotId' = [gotId EXCEPT ![t] = i]
  /\ UNCHANGED <<state, setId, seenId, raced>>

(* A store to an atomic shows what its thread knows to those that read it. *)
SetState(t, s) ==
  /\ state' = [val |-> s, view |-> view[t], id |-> setId[t]]
  /\ UNCHANGED <<setId, seenId, gotId, stores, view, raced>>

PlainState(t) ==  \* seeded fault: m_state is not an atomic
  /\ seenId' = [seenId EXCEPT ![t] = IF @ < state.id THEN state.id ELSE @]
  /\ gotId' = [gotId EXCEPT ![t] = 0]
  /\ UNCHANGED <<state, setId, stores, view, raced>>
GetState(t) ==
  /\ Acquire(t, state.view)
  /\ seenId' = [seenId EXCEPT ![t] = IF @ < state.id THEN state.id ELSE @]
  /\ gotId' = [gotId EXCEPT ![t] = 0]
  /\ UNCHANGED <<state, setId, raced>>

SessionNext ==
  \E t \in Threads :
    \/ SetPlayerId(t) \/ GetPlayerId(t) \/ GetState(t)
    \/ \E s \in SessionState : SetState(t, s)

SessionSpec ==
  /\ PlainInit(SessionMembers, 0) /\ SessionInit
  /\ [][SessionNext]_<<plainVars, sessionVars>>

---------------------------------------------------------------------------
SessionTypeOK ==
  /\ state.val \in SessionState
  /\ \A t \in Threads :
       /\ setId[t] \in 1..Len(stores.playerId) /\ seenId[t] \in 1..Len(stores.playerId)
       /\ gotId[t] \in 0..Len(stores.playerId)

(* A thread that has read the state of a session, Authenticated say, gets  *)
(* a player id no older than the one that the thread which set this state  *)
(* had set before it, whatever states it reads later.                      *)
LoginSeen == \A t \in Threads : gotId[t] # 0 => gotId[t] >= seenId[t]
=============================================================================
