-------------------------- MODULE PlayerCharacter --------------------------
(***************************************************************************)
(* The counters of a PlayerCharacter: addPlayTime(), addStatPoint() and    *)
(* addSkillPoint() load, add and store; nothing limits the sums, which     *)
(* wrap at the width of the member.                                        *)
(***************************************************************************)
EXTENDS PlainMembers

CONSTANTS
  Width16,  \* 2^16
  Points    \* what is added at a time

ASSUME PlayerAssumption == Width16 \in Nat \ {0} /\ Points \subseteq Nat

VARIABLES
  adding,  \* adding[t]: the addition t is in: member, loaded value, points
  added    \* added[m]: all that was added to m

playerVars == <<adding, added>>

Width == [playTime |-> Width16 * Width16, statPoint |-> Width16, skillPoint |-> Width16]
PlayerMembers == DOMAIN Width

PlayerInit ==
  /\ adding = [t \in Threads |-> <<>>]
  /\ added = [m \in PlayerMembers |-> 0]

(* getPlayTime() and the others: a read that races loses no addition, so   *)
(* that it is not noted.                                                   *)
GetCounter(t, m) ==
  /\ adding[t] = <<>>
  /\ \E i \in 1..Len(stores[m]) : Load(t, m, i)
  /\ UNCHANGED <<raced, playerVars>>

(* The argument has the width of the member. *)
AddLoad(t, m, points) ==
  /\ adding[t] = <<>> /\ MayStore /\ points < Width[m]
  /\ \E i \in 1..Len(stores[m]) :
       Load(t, m, i) /\ adding' = [adding EXCEPT ![t] = <<m, stores[m][i], points>>]
  /\ NotesRace(t, m)
  /\ UNCHANGED added

Wide(t) == adding[t][2] + adding[t][3]  \* seeded fault: kept in a wider type
Narrow(t) ==  \* seeded fault: every counter wraps at 16 bits
  (adding[t][2] + adding[t][3]) % Width16
Sum(t) == (adding[t][2] + adding[t][3]) % Width[adding[t][1]]

AddStore(t) ==
  /\ adding[t] # <<>>
  /\ LET m == adding[t][1] IN
       /\ Store(t, m, Sum(t))
       /\ NotesRace(t, m)
       /\ added' = [added EXCEPT ![m] = @ + adding[t][3]]
  /\ adding' = [adding EXCEPT ![t] = <<>>]

PlayerHandOver(t, u) ==
  /\ adding[t] = <<>> /\ adding[u] = <<>> /\ view[u] # Later(view[u], view[t])
  /\ HandOver(t, u)
  /\ UNCHANGED playerVars

PlayerNext ==
  \/ \E t \in Threads :
       \/ \E m \in PlayerMembers, points \in Points : AddLoad(t, m, points)
       \/ \E m \in PlayerMembers : GetCounter(t, m)
       \/ AddStore(t)
  \/ \E t, u \in Threads : PlayerHandOver(t, u)

PlayerSpec ==
  /\ PlainInit(PlayerMembers, 0) /\ PlayerInit
  /\ [][PlayerNext]_<<plainVars, playerVars>>

---------------------------------------------------------------------------
PlayerTypeOK ==
  /\ \A m \in PlayerMembers : \A i \in DOMAIN stores[m] : stores[m][i] \in 0..(Width[m] - 1)
  /\ \A t \in Threads :
       adding[t] # <<>> => adding[t][1] \in PlayerMembers /\ adding[t][3] \in Points

(* As long as the additions to a counter are ordered, by the same thread   *)
(* or by a hand-over from one to the next, none is lost: the counter is    *)
(* the sum of all that was added to it, modulo its own width, whoever      *)
(* reads it meanwhile and whatever is lost by races on the other counters. *)
CountersAdd == \A m \in PlayerMembers \ raced : Latest(m) = added[m] % Width[m]
=============================================================================
