--------------------------- MODULE UnlockedProofs ---------------------------
(* Theorems about the classes whose members threads share without a lock,  *)
(* Session, PlayerCharacter, Item and Logger: each alone, and all of them  *)
(* as MCUnlocked puts them together.                                       *)
EXTENDS MCUnlocked, FiniteSetTheorems, TLAPS

---------------------------------------------------------------------------
(* What holds of the members of every class: their values, and that every  *)
(* thread knows a store that has happened.                                 *)
PlainInv(members, values) ==
  /\ stores \in [members -> Seq(values)]
  /\ view \in [Threads -> [members -> Nat]]
  /\ \A t \in Threads, m \in members : 1 <= view[t][m] /\ view[t][m] <= Len(stores[m])
  /\ raced \subseteq members

LEMMA PlainInitInv ==
  ASSUME NEW members, NEW values, NEW v \in values, PlainInit(members, v)
  PROVE  PlainInv(members, values)
<1>1. <<v>> \in Seq(values) /\ Len(<<v>>) = 1
  OBVIOUS
<1>2. stores \in [members -> Seq(values)] /\ \A m \in members : Len(stores[m]) = 1
  BY <1>1 DEF PlainInit
<1>3. view \in [Threads -> [members -> Nat]] /\ \A t \in Threads, m \in members : view[t][m] = 1
  BY DEF PlainInit
<1>4. raced \subseteq members
  BY DEF PlainInit
<1>5. \A t \in Threads, m \in members : 1 <= view[t][m] /\ view[t][m] <= Len(stores[m])
  <2> SUFFICES ASSUME NEW t \in Threads, NEW m \in members
               PROVE  1 <= view[t][m] /\ view[t][m] <= Len(stores[m])
    OBVIOUS
  <2>1. view[t][m] = 1 /\ Len(stores[m]) = 1
    BY <1>2, <1>3
  <2> QED BY <2>1
<1> QED BY <1>2, <1>3, <1>4, <1>5 DEF PlainInv

LEMMA LoadKeeps ==
  ASSUME NEW members, NEW values, PlainInv(members, values), raced' \in SUBSET members,
         NEW t \in Threads, NEW m \in members, NEW i, Load(t, m, i)
  PROVE  /\ PlainInv(members, values)'
         /\ i \in 1..Len(stores[m]) /\ view'[t][m] = i
         /\ \A n \in members : n # m => view'[t][n] = view[t][n]
         /\ \A u \in Threads : u # t => view'[u] = view[u]
<1>1. Len(stores[m]) \in Nat /\ i \in Nat /\ 1 <= i /\ i <= Len(stores[m])
  BY DEF Load, PlainInv
<1> QED BY <1>1 DEF Load, PlainInv

LEMMA StoreKeeps ==
  ASSUME NEW members, NEW values, PlainInv(members, values), raced' \in SUBSET members,
         NEW t \in Threads, NEW m \in members, NEW v \in values, Store(t, m, v)
  PROVE  /\ PlainInv(members, values)'
         /\ Latest(m)' = v /\ Len(stores'[m]) = Len(stores[m]) + 1
         /\ stores'[m] = Append(stores[m], v)
         /\ \A n \in members : n # m => stores'[n] = stores[n] /\ Latest(n)' = Latest(n)
         /\ view'[t][m] = Len(stores'[m])
         /\ \A n \in members : n # m => view'[t][n] = view[t][n]
         /\ \A u \in Threads : u # t => view'[u] = view[u]
<1>1. stores[m] \in Seq(values) /\ Len(stores[m]) \in Nat
  BY DEF PlainInv
<1>2. stores' = [stores EXCEPT ![m] = Append(stores[m], v)]
  BY DEF Store
<1>3. stores' \in [members -> Seq(values)]
  BY <1>1, <1>2 DEF PlainInv
<1>4. /\ stores'[m] = Append(stores[m], v) /\ Len(stores'[m]) = Len(stores[m]) + 1
      /\ stores'[m][Len(stores[m]) + 1] = v
  BY <1>1, <1>2 DEF PlainInv
<1>5. \A n \in members : n # m => stores'[n] = stores[n]
  BY <1>2 DEF PlainInv
<1>6. view' = [view EXCEPT ![t][m] = Len(stores[m]) + 1]
  BY DEF Store
<1>7. view' \in [Threads -> [members -> Nat]]
  BY <1>1, <1>6 DEF PlainInv
<1>8. \A u \in Threads, n \in members :
        view'[u][n] = IF u = t /\ n = m THEN Len(stores[m]) + 1 ELSE view[u][n]
  BY <1>1, <1>6 DEF PlainInv
<1>9. \A u \in Threads : u # t => view'[u] = view[u]
  BY <1>6 DEF PlainInv
<1>10. \A u \in Threads, n \in members : 1 <= view'[u][n] /\ view'[u][n] <= Len(stores'[n])
  <2>1. ASSUME NEW u \in Threads PROVE 1 <= view'[u][m] /\ view'[u][m] <= Len(stores'[m])
    <3>1. view[u][m] \in Nat /\ 1 <= view[u][m] /\ view[u][m] <= Len(stores[m])
      BY DEF PlainInv
    <3>2. view'[u][m] = IF u = t THEN Len(stores[m]) + 1 ELSE view[u][m]
      BY <1>8
    <3> QED BY <1>1, <1>4, <3>1, <3>2
  <2>2. ASSUME NEW u \in Threads, NEW n \in members, n # m
        PROVE  1 <= view'[u][n] /\ view'[u][n] <= Len(stores'[n])
    BY <2>2, <1>5, <1>8 DEF PlainInv
  <2> QED BY <2>1, <2>2
<1> QED BY <1>3, <1>4, <1>5, <1>7, <1>8, <1>9, <1>10 DEF PlainInv, Latest, Last

LEMMA AcquireKeeps ==
  ASSUME NEW members, NEW values, PlainInv(members, values), raced' \in SUBSET members,
         NEW t \in Threads, NEW w \in [members -> Nat], Acquire(t, w),
         \A m \in members : w[m] <= Len(stores[m])
  PROVE  /\ PlainInv(members, values)' /\ UNCHANGED stores
         /\ \A m \in members : w[m] <= view'[t][m] /\ view[t][m] <= view'[t][m]
         /\ \A u \in Threads : u # t => view'[u] = view[u]
<1>1. DOMAIN stores = members /\ UNCHANGED stores
  BY DEF PlainInv, Acquire
<1>2. /\ Later(view[t], w) \in [members -> Nat]
      /\ \A m \in members : Later(view[t], w)[m] = IF view[t][m] < w[m] THEN w[m] ELSE view[t][m]
  BY <1>1 DEF PlainInv, Later
<1>3. view' = [view EXCEPT ![t] = Later(view[t], w)]
  BY DEF Acquire
<1>4. view' \in [Threads -> [members -> Nat]] /\ view'[t] = Later(view[t], w)
  BY <1>2, <1>3 DEF PlainInv
<1>5. \A u \in Threads : u # t => view'[u] = view[u]
  BY <1>3 DEF PlainInv
<1>6. ASSUME NEW u \in Threads, NEW m \in members
      PROVE  1 <= view'[u][m] /\ view'[u][m] <= Len(stores[m])
  <2>1. 1 <= view[u][m] /\ view[u][m] <= Len(stores[m]) /\ w[m] <= Len(stores[m])
    BY DEF PlainInv
  <2>2. CASE u = t
    <3>1. view'[u][m] = IF view[u][m] < w[m] THEN w[m] ELSE view[u][m]
      BY <1>2, <1>4, <2>2
    <3>2. view[u][m] \in Nat /\ w[m] \in Nat /\ Len(stores[m]) \in Nat
      BY DEF PlainInv
    <3> QED BY <2>1, <3>1, <3>2
  <2>3. CASE u # t
    BY <1>5, <2>1, <2>3
  <2> QED BY <2>2, <2>3
<1>7. \A m \in members : w[m] <= view'[t][m] /\ view[t][m] <= view'[t][m]
  BY <1>2, <1>4 DEF PlainInv
<1> QED BY <1>1, <1>4, <1>5, <1>6, <1>7 DEF PlainInv

---------------------------------------------------------------------------
(* Session.  The number of the newest store of m_playerId; a thread knows  *)
(* its own stores and those that came with the states it read, and a state *)
(* shows at least the store of the thread that set it.                     *)
Newer == Len(stores["playerId"])

SessionInv ==
  /\ PlainInv(SessionMembers, Nat) /\ state.val \in SessionState
  /\ setId \in [Threads -> Nat \ {0}] /\ seenId \in [Threads -> Nat \ {0}]
  /\ gotId \in [Threads -> Nat] /\ \A t \in Threads : gotId[t] <= Newer
  /\ state.view \in [SessionMembers -> Nat] /\ state.id \in 1..Newer
  /\ \A t \in Threads : setId[t] <= view[t]["playerId"] /\ seenId[t] <= view[t]["playerId"]
  /\ state.id <= state.view["playerId"] /\ state.view["playerId"] <= Newer
  /\ LoginSeen

LEMMA InitSessionInv == PlainInit(SessionMembers, 0) /\ SessionInit => SessionInv
<1> SUFFICES ASSUME PlainInit(SessionMembers, 0), SessionInit PROVE SessionInv
  OBVIOUS
<1>1. PlainInv(SessionMembers, Nat)
  BY PlainInitInv
<1>2. Newer = 1 /\ \A t \in Threads : view[t]["playerId"] = 1
  BY DEF PlainInit, SessionMembers, Newer
<1> QED BY <1>1, <1>2
        DEF SessionInit, SessionState, SessionInv, SessionMembers, LoginSeen

LEMMA NextSessionInv == SessionInv /\ [SessionNext]_<<plainVars, sessionVars>> => SessionInv'
<1> SUFFICES ASSUME SessionInv, [SessionNext]_<<plainVars, sessionVars>> PROVE SessionInv'
  OBVIOUS
<1> USE DEF SessionInv, LoginSeen
<1> DEFINE m == "playerId"
<1>1. m \in SessionMembers /\ SessionMembers = {m} /\ raced \in SUBSET SessionMembers
  BY DEF SessionMembers, PlainInv
<1>2. /\ Newer \in Nat
      /\ \A t \in Threads : view[t][m] \in Nat /\ 1 <= view[t][m] /\ view[t][m] <= Newer
  BY <1>1 DEF PlainInv, Newer
<1>3. ASSUME NEW t \in Threads, SetPlayerId(t) PROVE SessionInv'
  <2>1. /\ Store(t, m, Newer) /\ setId' = [setId EXCEPT ![t] = Newer + 1]
        /\ UNCHANGED <<state, seenId, gotId, raced>> /\ raced' \in SUBSET SessionMembers
    BY <1>1, <1>3 DEF SetPlayerId, Newer
  <2>2. /\ PlainInv(SessionMembers, Nat)' /\ Newer' = Newer + 1
        /\ view'[t][m] = Newer + 1 /\ \A u \in Threads : u # t => view'[u] = view[u]
    <3>1. /\ m \in SessionMembers /\ PlainInv(SessionMembers, Nat) /\ Newer \in Nat
          /\ Store(t, m, Newer) /\ raced' \in SUBSET SessionMembers
      BY <1>1, <1>2, <2>1
    <3>2. /\ PlainInv(SessionMembers, Nat)' /\ Len(stores'[m]) = Len(stores[m]) + 1
          /\ view'[t][m] = Len(stores'[m]) /\ \A u \in Threads : u # t => view'[u] = view[u]
      BY <3>1, StoreKeeps
    <3> QED BY <3>2 DEF Newer
  <2>3. \A u \in Threads : /\ setId'[u] = (IF u = t THEN Newer + 1 ELSE setId[u])
                            /\ view'[u][m] = (IF u = t THEN Newer + 1 ELSE view[u][m])
    BY <2>1, <2>2
  <2>4. setId' \in [Threads -> Nat \ {0}]
    BY <1>2, <2>1
  <2>5. \A u \in Threads : /\ gotId'[u] <= Newer'
                            /\ setId'[u] <= view'[u][m] /\ seenId'[u] <= view'[u][m]
    <3>1. \A u \in Threads : /\ gotId'[u] \in Nat /\ gotId'[u] <= Newer
                              /\ seenId'[u] \in Nat /\ seenId'[u] <= view[u][m]
      BY <2>1
    <3> QED BY <1>2, <2>2, <2>3, <3>1
  <2>6. state'.id \in 1..Newer' /\ state'.view[m] <= Newer'
    BY <1>1, <1>2, <2>1, <2>2
  <2> QED BY <2>1, <2>2, <2>4, <2>5, <2>6
<1>4. ASSUME NEW t \in Threads, GetPlayerId(t) PROVE SessionInv'
  <2>1. PICK i \in 1..Newer : Load(t, m, i) /\ gotId' = [gotId EXCEPT ![t] = i]
    BY <1>4 DEF GetPlayerId, Newer
  <2>2. UNCHANGED <<stores, Newer, state, setId, seenId, raced>> /\ view[t][m] <= i
    BY <1>4, <2>1 DEF GetPlayerId, Load, Newer
  <2>3. /\ PlainInv(SessionMembers, Nat)' /\ view'[t][m] = i
        /\ \A u \in Threads : u # t => view'[u] = view[u]
    BY <1>1, <2>1, <2>2, LoadKeeps DEF Newer
  <2>4. \A u \in Threads : /\ gotId'[u] = (IF u = t THEN i ELSE gotId[u])
                            /\ view'[u][m] = (IF u = t THEN i ELSE view[u][m])
    BY <2>1, <2>3
  <2> QED BY <1>2, <2>1, <2>2, <2>3, <2>4
<1>5. ASSUME NEW t \in Threads, GetState(t) PROVE SessionInv'
  <2>1. /\ Acquire(t, state.view)
        /\ seenId' = [seenId EXCEPT ![t] = IF seenId[t] < state.id THEN state.id ELSE seenId[t]]
        /\ gotId' = [gotId EXCEPT ![t] = 0]
        /\ UNCHANGED <<state, setId, raced>>
    BY <1>5 DEF GetState
  <2>2. /\ PlainInv(SessionMembers, Nat)' /\ UNCHANGED Newer
        /\ state.view[m] <= view'[t][m] /\ view[t][m] <= view'[t][m] /\ view'[t][m] \in Nat
        /\ \A u \in Threads : u # t => view'[u] = view[u]
    <3>1. /\ PlainInv(SessionMembers, Nat)' /\ UNCHANGED stores
          /\ state.view[m] <= view'[t][m] /\ view[t][m] <= view'[t][m]
          /\ \A u \in Threads : u # t => view'[u] = view[u]
      BY <1>1, <2>1, AcquireKeeps DEF Newer
    <3> QED BY <1>1, <3>1 DEF PlainInv, Newer
  <2> QED BY <1>1, <1>2, <2>1, <2>2
<1>6. ASSUME NEW t \in Threads, NEW s \in SessionState, SetState(t, s) PROVE SessionInv'
  <2>1. view[t] \in [SessionMembers -> Nat]
    BY DEF PlainInv
  <2>2. /\ state' = [val |-> s, view |-> view[t], id |-> setId[t]]
        /\ UNCHANGED <<setId, seenId, gotId, stores, view, raced>>
    BY <1>6 DEF SetState
  <2>3. PlainInv(SessionMembers, Nat)' /\ UNCHANGED <<Newer, LoginSeen>>
    BY <2>2 DEF PlainInv, Newer
  <2>4. setId[t] \in 1..Newer /\ setId[t] <= view[t][m] /\ view[t][m] <= Newer
    <3>1. setId[t] \in Nat \ {0} /\ setId[t] <= view[t][m]
      OBVIOUS
    <3> QED BY <1>2, <3>1
  <2> QED BY <2>1, <2>2, <2>3, <2>4
<1>7. CASE UNCHANGED <<plainVars, sessionVars>>
  BY <1>7 DEF plainVars, sessionVars, PlainInv, Newer
<1> QED BY <1>3, <1>4, <1>5, <1>6, <1>7 DEF SessionNext

LEMMA SessionInvTypes == SessionInv => SessionTypeOK
<1> SUFFICES ASSUME SessionInv PROVE SessionTypeOK
  OBVIOUS
<1>1. Newer \in Nat /\ \A t \in Threads : view[t]["playerId"] \in Nat /\ view[t]["playerId"] <= Newer
  BY DEF SessionInv, PlainInv, SessionMembers, Newer
<1>2. ASSUME NEW t \in Threads
      PROVE  setId[t] \in 1..Newer /\ seenId[t] \in 1..Newer /\ gotId[t] \in 0..Newer
  <2>1. /\ setId[t] \in Nat \ {0} /\ setId[t] <= view[t]["playerId"]
        /\ seenId[t] \in Nat \ {0} /\ seenId[t] <= view[t]["playerId"]
        /\ gotId[t] \in Nat /\ gotId[t] <= Newer
    BY DEF SessionInv
  <2> QED BY <1>1, <2>1
<1> QED BY <1>2 DEF SessionInv, SessionTypeOK, Newer

(* A thread that reads the state of a session and then the player id gets  *)
(* no older id than the setter of that state had set: the order the atomic *)
(* m_state gives is enough for the plain m_playerId next to it.            *)
THEOREM IdsFollowStates == SessionSpec => []LoginSeen
<1>1. SessionInv => LoginSeen
  BY DEF SessionInv
<1> QED BY InitSessionInv, NextSessionInv, <1>1, PTL DEF SessionSpec

---------------------------------------------------------------------------
(* PlayerCharacter.  An addition whose thread knows the newest store of    *)
(* its member still adds to that store's value.                            *)
AddingInv ==
  /\ PlainInv(PlayerMembers, Nat)
  /\ added \in [PlayerMembers -> Nat]
  /\ adding \in [Threads -> (PlayerMembers \X Nat \X Points) \cup {<<>>}]
  /\ \A t \in Threads :
       adding[t] # <<>> /\ InOrder(t, adding[t][1]) => adding[t][2] = Latest(adding[t][1])

PlayerInv == AddingInv /\ PlayerTypeOK /\ CountersAdd

LEMMA WidthType == Width \in [PlayerMembers -> Nat \ {0}]
<1>1. Width16 * Width16 \in Nat \ {0}
  BY PlayerAssumption
<1> QED BY <1>1, PlayerAssumption DEF Width, PlayerMembers

(* Division with remainder, and the remainder of a sum with a multiple. *)
LEMMA DivMod ==
  ASSUME NEW a \in Nat, NEW w \in Nat \ {0}
  PROVE  a \div w \in Nat /\ a % w \in 0..(w - 1) /\ a = w * (a \div w) + (a % w)
OBVIOUS

LEMMA ModUnique ==
  ASSUME NEW q \in Int, NEW w \in Nat \ {0}, NEW r \in 0..(w - 1)
  PROVE  (w * q + r) % w = r
OBVIOUS

LEMMA ModMultiple ==
  ASSUME NEW q \in Nat, NEW w \in Nat \ {0}, NEW r \in Nat
  PROVE  (w * q + r) % w = r % w
<1>1. PICK k \in Nat, s \in 0..(w - 1) : r = w * k + s /\ r % w = s
  BY DivMod
<1>2. w * q + r = w * (q + k) + s
  <2>1. w * (q + k) = w * q + w * k
    OBVIOUS
  <2>2. w * q \in Int /\ w * k \in Int /\ s \in Int
    OBVIOUS
  <2> QED BY <1>1, <2>1, <2>2
<1>3. (w * (q + k) + s) % w = s
  BY ModUnique
<1> QED BY <1>1, <1>2, <1>3

(* Wrapping at every addition or once at the end is the same. *)
LEMMA ModSum ==
  ASSUME NEW a \in Nat, NEW b \in Nat, NEW w \in Nat \ {0}
  PROVE  ((a % w) + b) % w = (a + b) % w
<1>1. PICK q \in Nat, r \in 0..(w - 1) : a = w * q + r /\ a % w = r
  BY DivMod
<1>2. a + b = w * q + (r + b) /\ r + b \in Nat
  BY <1>1
<1>3. (w * q + (r + b)) % w = (r + b) % w
  BY <1>2, ModMultiple
<1> QED BY <1>1, <1>2, <1>3

LEMMA InitPlayerInv == PlainInit(PlayerMembers, 0) /\ PlayerInit => PlayerInv
<1> SUFFICES ASSUME PlainInit(PlayerMembers, 0), PlayerInit PROVE PlayerInv
  OBVIOUS
<1>1. AddingInv
  BY PlainInitInv DEF PlayerInit, AddingInv
<1>2. \A m \in PlayerMembers : stores[m] = <<0>> /\ Width[m] \in Nat \ {0} /\ added[m] = 0
  BY WidthType DEF PlainInit, PlayerInit
<1>3. \A m \in PlayerMembers : Latest(m) = 0 /\ DOMAIN stores[m] = {1} /\ stores[m][1] = 0
  BY <1>2 DEF Latest, Last
<1>4. PlayerTypeOK
  BY <1>2, <1>3 DEF PlayerTypeOK, PlayerInit
<1>5. CountersAdd
  BY <1>2, <1>3 DEF CountersAdd
<1> QED BY <1>1, <1>4, <1>5 DEF PlayerInv

LEMMA NextPlayerInv == PlayerInv /\ [PlayerNext]_<<plainVars, playerVars>> => PlayerInv'
<1> SUFFICES ASSUME PlayerInv, [PlayerNext]_<<plainVars, playerVars>> PROVE PlayerInv'
  OBVIOUS
<1> USE DEF PlayerInv, AddingInv, playerVars
<1>1. ASSUME NEW t \in Threads, NEW m \in PlayerMembers, NEW i \in 1..Len(stores[m]),
             adding[t] = <<>>, Load(t, m, i), UNCHANGED raced \/ NotesRace(t, m), UNCHANGED added,
             \/ UNCHANGED adding
             \/ \E points \in Points : adding' = [adding EXCEPT ![t] = <<m, stores[m][i], points>>]
      PROVE  PlayerInv'
  <2>1. raced' \in SUBSET PlayerMembers /\ raced \subseteq raced'
    BY <1>1 DEF NotesRace, PlainInv
  <2>2. /\ PlainInv(PlayerMembers, Nat)' /\ UNCHANGED stores /\ view'[t][m] = i
        /\ \A u \in Threads : u # t => view'[u] = view[u]
    <3>1. UNCHANGED stores
      BY <1>1 DEF Load
    <3> QED BY <1>1, <2>1, <3>1, LoadKeeps
  <2>3. stores[m][i] \in Nat /\ (i = Len(stores[m]) => stores[m][i] = Latest(m))
    BY <1>1 DEF PlainInv, Latest, Last
  <2>4. adding' \in [Threads -> (PlayerMembers \X Nat \X Points) \cup {<<>>}]
    BY <1>1, <2>3
  <2>5. ASSUME NEW u \in Threads, adding'[u] # <<>>, InOrder(u, adding[u][1])'
        PROVE  adding'[u][2] = Latest(adding[u][1])'
    <3>1. CASE u # t
      BY <1>1, <2>2, <2>5, <3>1 DEF InOrder, Latest
    <3>2. CASE u = t
      BY <1>1, <2>2, <2>3, <2>5, <3>2 DEF InOrder, Latest
    <3> QED BY <3>1, <3>2
  <2>6. PlayerTypeOK'
    <3>1. UNCHANGED stores
      BY <2>2
    <3>2. \A u \in Threads : adding'[u] # <<>> => adding'[u][1] \in PlayerMembers /\ adding'[u][3] \in Points
      BY <2>4
    <3>3. \A k \in PlayerMembers : \A j \in DOMAIN stores[k] : stores[k][j] \in 0..(Width[k] - 1)
      BY DEF PlayerTypeOK
    <3> QED BY <3>1, <3>2, <3>3 DEF PlayerTypeOK
  <2>7. CountersAdd'
    BY <1>1, <2>1, <2>2 DEF CountersAdd, Latest
  <2> QED BY <1>1, <2>2, <2>4, <2>5, <2>6, <2>7
<1>2. ASSUME NEW t \in Threads, AddStore(t) PROVE PlayerInv'
  <2>1. PICK m \in PlayerMembers, n \in Nat, points \in Points : adding[t] = <<m, n, points>>
    BY <1>2 DEF AddStore
  <2>2. /\ Store(t, m, (n + points) % Width[m]) /\ NotesRace(t, m)
        /\ added' = [added EXCEPT ![m] = @ + points]
        /\ adding' = [adding EXCEPT ![t] = <<>>]
    BY <1>2, <2>1 DEF AddStore, Sum
  <2>3. /\ Width[m] \in Nat \ {0} /\ points \in Nat
        /\ (n + points) % Width[m] \in 0..(Width[m] - 1) /\ (n + points) % Width[m] \in Nat
    <3>1. Width[m] \in Nat \ {0} /\ points \in Nat /\ n + points \in Nat
      BY WidthType, PlayerAssumption
    <3>2. (n + points) % Width[m] \in 0..(Width[m] - 1)
      BY <3>1, DivMod
    <3> QED BY <3>1, <3>2
  <2>4. raced' \in SUBSET PlayerMembers /\ raced \subseteq raced' /\ (m \notin raced' => InOrder(t, m))
    BY <2>2 DEF NotesRace, PlainInv
  <2>5. /\ PlainInv(PlayerMembers, Nat)'
        /\ Latest(m)' = (n + points) % Width[m]
        /\ Len(stores'[m]) = Len(stores[m]) + 1
        /\ stores'[m] = Append(stores[m], (n + points) % Width[m])
        /\ \A k \in PlayerMembers : k # m => stores'[k] = stores[k] /\ Latest(k)' = Latest(k)
        /\ \A u \in Threads : u # t => view'[u] = view[u]
    <3>1. PICK v \in Nat : v = (n + points) % Width[m]
      BY <2>3
    <3>2. Store(t, m, v) /\ PlainInv(PlayerMembers, Nat) /\ raced' \in SUBSET PlayerMembers
      BY <2>2, <2>4, <3>1
    <3>3. /\ PlainInv(PlayerMembers, Nat)'
          /\ Latest(m)' = v
          /\ Len(stores'[m]) = Len(stores[m]) + 1
          /\ stores'[m] = Append(stores[m], v)
          /\ \A k \in PlayerMembers : k # m => stores'[k] = stores[k] /\ Latest(k)' = Latest(k)
          /\ \A u \in Threads : u # t => view'[u] = view[u]
      BY <3>2, StoreKeeps
    <3> QED BY <3>1, <3>3
  <2>6. ASSUME NEW u \in Threads, adding'[u] # <<>>, InOrder(u, adding[u][1])'
        PROVE  adding'[u][2] = Latest(adding[u][1])'
    <3>1. u # t /\ adding'[u] = adding[u] /\ adding[u][1] \in PlayerMembers
      BY <2>2, <2>6
    <3>2. adding[u][1] # m
      BY <2>5, <2>6, <3>1 DEF InOrder, PlainInv
    <3> QED BY <2>5, <2>6, <3>1, <3>2 DEF InOrder
  <2>7. PlayerTypeOK'
    <3>1. \A k \in PlayerMembers : \A i \in DOMAIN stores'[k] : stores'[k][i] \in 0..(Width[k] - 1)
      <4>1. stores[m] \in Seq(Nat)
        BY DEF PlainInv
      <4>2. \A i \in DOMAIN stores'[m] : stores'[m][i] \in 0..(Width[m] - 1)
        BY <2>3, <2>5, <4>1 DEF PlayerTypeOK
      <4> QED BY <2>5, <4>2 DEF PlayerTypeOK
    <3> QED BY <2>2, <3>1 DEF PlayerTypeOK
  <2>8. CountersAdd'
    <3>1. ASSUME m \notin raced' PROVE Latest(m)' = added'[m] % Width[m]
      <4>1. n = Latest(m) /\ Latest(m) = added[m] % Width[m]
        BY <2>1, <2>4, <3>1 DEF CountersAdd
      <4>2. ((added[m] % Width[m]) + points) % Width[m] = (added[m] + points) % Width[m]
        BY <2>3, ModSum
      <4> QED BY <2>2, <2>5, <4>1, <4>2
    <3>2. ASSUME NEW k \in PlayerMembers \ raced', k # m PROVE Latest(k)' = added'[k] % Width[k]
      BY <2>2, <2>4, <2>5, <3>2 DEF CountersAdd
    <3> QED BY <3>1, <3>2 DEF CountersAdd
  <2>9. /\ added' \in [PlayerMembers -> Nat]
        /\ adding' \in [Threads -> (PlayerMembers \X Nat \X Points) \cup {<<>>}]
    BY <2>2, <2>3
  <2> QED BY <2>5, <2>6, <2>7, <2>8, <2>9
<1>3. ASSUME NEW t \in Threads, NEW u \in Threads, PlayerHandOver(t, u) PROVE PlayerInv'
  <2>1. /\ PlainInv(PlayerMembers, Nat)' /\ UNCHANGED <<stores, adding, added, raced>>
        /\ \A s \in Threads : s # u => view'[s] = view[s]
    <3>1. /\ Acquire(u, view[t]) /\ view[t] \in [PlayerMembers -> Nat] /\ raced' \in SUBSET PlayerMembers
          /\ \A m \in PlayerMembers : view[t][m] <= Len(stores[m])
      BY <1>3 DEF PlayerHandOver, HandOver, PlainInv
    <3>2. UNCHANGED <<adding, added, raced>>
      BY <1>3 DEF PlayerHandOver, HandOver
    <3> QED BY <3>1, <3>2, AcquireKeeps
  <2>2. adding[u] = <<>>
    BY <1>3 DEF PlayerHandOver
  <2> QED BY <2>1, <2>2 DEF InOrder, Latest, PlayerTypeOK, CountersAdd
<1>4. CASE UNCHANGED <<plainVars, playerVars>>
  BY <1>4 DEF plainVars, PlainInv, PlayerTypeOK, CountersAdd, InOrder, Latest
<1>5. ASSUME NEW t \in Threads, NEW m \in PlayerMembers, NEW points \in Points, AddLoad(t, m, points)
      PROVE  PlayerInv'
  BY <1>1, <1>5 DEF AddLoad
<1>6. ASSUME NEW t \in Threads, NEW m \in PlayerMembers, GetCounter(t, m) PROVE PlayerInv'
  BY <1>1, <1>6 DEF GetCounter
<1> QED BY <1>2, <1>3, <1>4, <1>5, <1>6 DEF PlayerNext

(* Additions that are ordered, in one thread or from thread to thread, are *)
(* never lost, whatever their number and whatever else goes on.            *)
THEOREM OrderedAdditionsAdd == PlayerSpec => []CountersAdd
<1>1. PlayerInv => CountersAdd
  BY DEF PlayerInv
<1> QED BY InitPlayerInv, NextPlayerInv, <1>1, PTL DEF PlayerSpec

---------------------------------------------------------------------------
(* Item.  The cells that the setters store in, and the slot of each: of    *)
(* the sockets, or of the attributes, which have two cells each.           *)
SetCells == ({"socket"} \X (0..(Sockets - 1))) \cup ({"attrType", "attrValue"} \X (0..(Attributes - 1)))
SlotOf(c) == IF c[1] = "socket" THEN <<"socket", c[2]>> ELSE <<"attribute", c[2]>>

Setting(t, c) == \E s \in setting[t] : s[1] = c

(* A cell that no thread is about to store in holds what its slot was last *)
(* set to; one thread that is about to, and knows the newest store, will   *)
(* store that.  A second thread about to store comes too late: it cannot   *)
(* know of the first one's store.                                          *)
CellInv(c) ==
  /\ (\A t \in Threads : ~Setting(t, c)) => Latest(c) = lastSet[SlotOf(c)]
  /\ \A t \in Threads : \A s \in setting[t] :
       s[1] = c /\ InOrder(t, c) /\ (\A u \in Threads : Setting(u, c) => u = t)
         => s[2] = lastSet[SlotOf(c)]

SettingInv ==
  /\ PlainInv(ItemMembers, Bonuses \cup {0})
  /\ setting \in [Threads -> SUBSET (SetCells \X Bonuses)]
  /\ lastSet \in [{"socket", "attribute"} \X Indices -> Bonuses \cup {0}]
  /\ \A t \in Threads : \A s \in setting[t] : s[1][2] \in Indices
  /\ \A t \in Threads : \A s, r \in setting[t] : s[1] = r[1] => s = r
  /\ Latest(<<"expireTime", 0>>) = 0

ItemInv ==
  /\ SettingInv
  /\ raced = {} => \A c \in SetCells : c[2] \in Indices => CellInv(c)

LEMMA CellInside ==
  ASSUME NEW i \in Nat
  PROVE  /\ i < Sockets => Cell("socket", i) = <<"socket", i>>
         /\ i < Attributes => /\ Cell("attrType", i) = <<"attrType", i>>
                              /\ Cell("attrValue", i) = <<"attrValue", i>>
BY ItemAssumption DEF Cell

LEMMA SetCellMembers == SetCells \subseteq ItemMembers /\ <<"expireTime", 0>> \in ItemMembers \ SetCells
BY DEF SetCells, ItemMembers

LEMMA InitItemInv == PlainInit(ItemMembers, 0) /\ ItemInit => ItemInv
<1> SUFFICES ASSUME PlainInit(ItemMembers, 0), ItemInit PROVE ItemInv
  OBVIOUS
<1>1. PlainInv(ItemMembers, Bonuses \cup {0})
  BY PlainInitInv
<1>2. \A m \in ItemMembers : Latest(m) = 0
  <2>1. \A m \in ItemMembers : stores[m] = <<0>>
    BY DEF PlainInit
  <2> QED BY <2>1 DEF Latest, Last
<1>3. SettingInv
  BY <1>1, <1>2, SetCellMembers DEF ItemInit, SettingInv
<1>4. ASSUME NEW c \in SetCells, c[2] \in Indices PROVE CellInv(c)
  <2>1. SlotOf(c) \in {"socket", "attribute"} \X Indices
    BY <1>4 DEF SlotOf
  <2> QED BY <1>2, <2>1, SetCellMembers DEF ItemInit, CellInv, Setting
<1> QED BY <1>3, <1>4 DEF ItemInv

(* A setter starts: it is about to store v in cells of one slot. *)
LEMMA StartKeeps ==
  ASSUME ItemInv, NEW t \in Threads, setting[t] = {}, NEW i \in Indices, NEW v \in Bonuses,
         NEW slot \in {"socket", "attribute"}, NEW cells \in SUBSET SetCells,
         cells = {c \in SetCells : SlotOf(c) = <<slot, i>>},
         setting' = [setting EXCEPT ![t] = {<<c, v>> : c \in cells}],
         lastSet' = [lastSet EXCEPT ![<<slot, i>>] = v],
         UNCHANGED plainVars
  PROVE  ItemInv'
<1> USE DEF ItemInv
<1>1. setting' \in [Threads -> SUBSET (SetCells \X Bonuses)]
      /\ lastSet' \in [{"socket", "attribute"} \X Indices -> Bonuses \cup {0}]
  BY DEF SettingInv
<1>2. \A u \in Threads : u # t => setting'[u] = setting[u]
  BY DEF SettingInv
<1>3. \A s \in setting'[t] : s[1] \in cells /\ s[2] = v /\ s[1][2] = i
  <2>1. setting'[t] = {<<c, v>> : c \in cells}
    BY DEF SettingInv
  <2>2. \A c \in cells : c[2] = i
    BY DEF SlotOf
  <2> QED BY <2>1, <2>2
<1>4. \A c \in cells : <<c, v>> \in setting'[t]
  BY DEF SettingInv
<1>5. SettingInv'
  <2>1. PlainInv(ItemMembers, Bonuses \cup {0})' /\ Latest(<<"expireTime", 0>>)' = 0
    BY DEF SettingInv, PlainInv, plainVars, Latest
  <2>2. \A s, r \in setting'[t] : s[1] = r[1] => s = r
    BY <1>1, <1>3
  <2>3. \A u \in Threads : \A s \in setting'[u] : s[1][2] \in Indices
    BY <1>2, <1>3 DEF SettingInv
  <2>4. \A u \in Threads : \A s, r \in setting'[u] : s[1] = r[1] => s = r
    BY <1>2, <2>2 DEF SettingInv
  <2> QED BY <1>1, <2>1, <2>3, <2>4 DEF SettingInv
<1>6. ASSUME raced' = {}, NEW c \in SetCells, c[2] \in Indices PROVE CellInv(c)'
  <2>1. CellInv(c) /\ Latest(c)' = Latest(c) /\ \A u \in Threads : InOrder(u, c)' = InOrder(u, c)
    BY <1>6 DEF plainVars, Latest, InOrder
  <2>2. CASE c \in cells
    <3>1. Setting(t, c)' /\ lastSet'[SlotOf(c)] = v
      BY <1>4, <2>2 DEF Setting, SettingInv
    <3>2. ASSUME NEW u \in Threads, NEW s \in setting'[u], s[1] = c,
                 \A w \in Threads : Setting(w, c)' => w = u
          PROVE  s[2] = lastSet'[SlotOf(c)]
      BY <1>3, <3>1, <3>2
    <3> QED BY <3>1, <3>2 DEF CellInv
  <2>3. CASE c \notin cells
    <3>1. lastSet'[SlotOf(c)] = lastSet[SlotOf(c)]
      BY <2>3 DEF SettingInv
    <3>2. ~Setting(t, c) /\ ~Setting(t, c)'
      BY <1>3, <2>3 DEF Setting
    <3>3. \A u \in Threads : Setting(u, c)' = Setting(u, c)
      BY <1>2, <3>2 DEF Setting
    <3> QED BY <1>2, <1>3, <2>1, <2>3, <3>1, <3>3 DEF CellInv
  <2> QED BY <2>2, <2>3
<1> QED BY <1>5, <1>6

(* A store of a setter. *)
LEMMA StoreNextKeeps ==
  ASSUME ItemInv, NEW t \in Threads, StoreNext(t)
  PROVE  ItemInv'
<1> USE DEF ItemInv
<1>1. PICK s \in setting[t] : /\ Store(t, s[1], s[2]) /\ NotesRace(t, s[1])
                              /\ setting' = [setting EXCEPT ![t] = @ \ {s}]
                              /\ UNCHANGED lastSet
  BY DEF StoreNext
<1>2. s[1] \in SetCells /\ s[2] \in Bonuses /\ s[1] \in ItemMembers /\ s[1] # <<"expireTime", 0>>
  BY SetCellMembers DEF SettingInv
<1>3. raced' \in SUBSET ItemMembers /\ (raced' = {} => raced = {} /\ InOrder(t, s[1]))
  BY <1>1, <1>2 DEF NotesRace, SettingInv, PlainInv
<1>4. /\ PlainInv(ItemMembers, Bonuses \cup {0})'
      /\ Latest(s[1])' = s[2] /\ Len(stores'[s[1]]) = Len(stores[s[1]]) + 1
      /\ \A n \in ItemMembers : n # s[1] =>
           stores'[n] = stores[n] /\ Latest(n)' = Latest(n) /\ view'[t][n] = view[t][n]
      /\ \A u \in Threads : u # t => view'[u] = view[u]
  BY <1>1, <1>2, <1>3, StoreKeeps DEF SettingInv
<1>5. /\ \A u \in Threads : u # t => setting'[u] = setting[u]
      /\ setting'[t] = setting[t] \ {s}
      /\ setting' \in [Threads -> SUBSET (SetCells \X Bonuses)]
  BY <1>1 DEF SettingInv
<1>6. SettingInv'
  BY <1>1, <1>2, <1>4, <1>5, SetCellMembers DEF SettingInv
<1>7. ASSUME raced' = {}, NEW c \in SetCells, c[2] \in Indices PROVE CellInv(c)'
  <2>1. CellInv(c)
    BY <1>3, <1>7
  <2>2. CASE c = s[1]
    <3>1. ~Setting(t, c)'
      BY <1>5, <2>2 DEF Setting, SettingInv
    <3>2. \A u \in Threads : u # t => ~InOrder(u, c)' /\ Setting(u, c)' = Setting(u, c)
      BY <1>2, <1>4, <1>5, <2>2 DEF InOrder, Setting, SettingInv, PlainInv
    <3>3. (\A u \in Threads : ~Setting(u, c)') => Latest(c)' = lastSet'[SlotOf(c)]
      BY <1>1, <1>3, <1>4, <1>7, <2>1, <2>2, <3>2 DEF CellInv, Setting
    <3>4. \A u \in Threads : \A r \in setting'[u] : ~(r[1] = c /\ InOrder(u, c)')
      BY <3>1, <3>2 DEF Setting
    <3> QED BY <3>3, <3>4 DEF CellInv
  <2>3. CASE c # s[1]
    <3>1. \A u \in Threads : Setting(u, c)' = Setting(u, c) /\ InOrder(u, c)' = InOrder(u, c)
      BY <1>4, <1>5, <2>3, SetCellMembers DEF Setting, InOrder
    <3> QED BY <1>1, <1>4, <1>5, <2>1, <2>3, <3>1, SetCellMembers DEF CellInv
  <2> QED BY <2>2, <2>3
<1> QED BY <1>6, <1>7

LEMMA NextItemInv == ItemInv /\ [ItemNext]_<<plainVars, itemVars>> => ItemInv'
<1> SUFFICES ASSUME ItemInv, [ItemNext]_<<plainVars, itemVars>> PROVE ItemInv'
  OBVIOUS
<1>1. ASSUME NEW t \in Threads, NEW i \in Indices, NEW v \in Bonuses, SetSocket(t, i, v)
      PROVE  ItemInv'
  <2>1. i \in 0..(Sockets - 1) /\ Cell("socket", i) = <<"socket", i>>
    BY <1>1, ItemAssumption, CellInside DEF SetSocket, Inside
  <2>2. {c \in SetCells : SlotOf(c) = <<"socket", i>>} = {<<"socket", i>>}
    BY <2>1 DEF SetCells, SlotOf
  <2>3. setting' = [setting EXCEPT ![t] = {<<c, v>> : c \in {<<"socket", i>>}}]
    BY <1>1, <2>1 DEF SetSocket
  <2> QED BY <1>1, <2>2, <2>3, StartKeeps DEF SetSocket
<1>2. ASSUME NEW t \in Threads, NEW i \in Indices, NEW v \in Bonuses, SetAttribute(t, i, v)
      PROVE  ItemInv'
  <2> DEFINE cells == {<<"attrType", i>>, <<"attrValue", i>>}
  <2>1. /\ i \in 0..(Attributes - 1)
        /\ Cell("attrType", i) = <<"attrType", i>> /\ Cell("attrValue", i) = <<"attrValue", i>>
    BY <1>2, ItemAssumption, CellInside DEF SetAttribute, Inside
  <2>2. {c \in SetCells : SlotOf(c) = <<"attribute", i>>} = cells
    BY <2>1 DEF SetCells, SlotOf
  <2>3. {<<Cell(array, i), v>> : array \in {"attrType", "attrValue"}} = {<<c, v>> : c \in cells}
    BY <2>1
  <2>4. setting' = [setting EXCEPT ![t] = {<<c, v>> : c \in cells}]
    BY <1>2, <2>3 DEF SetAttribute
  <2>5. cells \in SUBSET SetCells
    BY <2>1 DEF SetCells
  <2> QED BY <1>2, <2>2, <2>4, <2>5, StartKeeps DEF SetAttribute
<1>3. ASSUME NEW t \in Threads, StoreNext(t) PROVE ItemInv'
  BY <1>3, StoreNextKeeps
<1>4. ASSUME NEW t \in Threads, setting[t] = {}, PlainInv(ItemMembers, Bonuses \cup {0})',
             UNCHANGED <<stores, itemVars>>, raced \subseteq raced',
             \A u \in Threads : u # t => view'[u] = view[u]
      PROVE  ItemInv'
  <2>1. SettingInv'
    BY <1>4 DEF ItemInv, SettingInv, itemVars, Latest
  <2>2. ASSUME raced' = {}, NEW c \in SetCells, c[2] \in Indices PROVE CellInv(c)'
    <3>1. CellInv(c) /\ Latest(c)' = Latest(c) /\ \A u \in Threads : Setting(u, c)' = Setting(u, c)
      BY <1>4, <2>2 DEF ItemInv, itemVars, Latest, Setting
    <3>2. \A u \in Threads : u # t => InOrder(u, c)' = InOrder(u, c)
      BY <1>4 DEF InOrder
    <3> QED BY <1>4, <3>1, <3>2 DEF CellInv, itemVars
  <2> QED BY <2>1, <2>2 DEF ItemInv
<1>5. ASSUME NEW t \in Threads, NEW m \in ItemMembers, Get(t, m) PROVE ItemInv'
  <2>1. raced' \in SUBSET ItemMembers /\ (raced \subseteq raced')
    BY <1>5 DEF Get, NotesRace, ItemInv, SettingInv, PlainInv
  <2>2. PICK i \in 1..Len(stores[m]) : Load(t, m, i)
    BY <1>5 DEF Get
  <2>3. UNCHANGED <<stores, itemVars>> /\ setting[t] = {}
    BY <1>5, <2>2 DEF Get, Load
  <2>4. /\ PlainInv(ItemMembers, Bonuses \cup {0})'
        /\ \A u \in Threads : u # t => view'[u] = view[u]
    BY <2>1, <2>2, LoadKeeps DEF ItemInv, SettingInv
  <2> QED BY <1>4, <2>1, <2>3, <2>4
<1>6. ASSUME NEW t \in Threads, NEW u \in Threads, ItemHandOver(t, u) PROVE ItemInv'
  <2>1. /\ Acquire(u, view[t]) /\ view[t] \in [ItemMembers -> Nat] /\ raced' = raced
        /\ raced' \in SUBSET ItemMembers
        /\ \A m \in ItemMembers : view[t][m] <= Len(stores[m])
    BY <1>6 DEF ItemHandOver, HandOver, ItemInv, SettingInv, PlainInv
  <2>2. UNCHANGED itemVars /\ setting[u] = {}
    BY <1>6 DEF ItemHandOver
  <2>3. /\ PlainInv(ItemMembers, Bonuses \cup {0})' /\ UNCHANGED stores
        /\ \A s \in Threads : s # u => view'[s] = view[s]
    BY <2>1, AcquireKeeps DEF ItemInv, SettingInv
  <2> QED BY <1>4, <2>1, <2>2, <2>3
<1>7. CASE UNCHANGED <<plainVars, itemVars>>
  BY <1>7 DEF plainVars, itemVars, ItemInv, SettingInv, PlainInv, CellInv, Setting, InOrder, Latest
<1> QED BY <1>1, <1>2, <1>3, <1>5, <1>6, <1>7 DEF ItemNext

LEMMA ItemInvKeeps == ItemInv => ItemTypeOK /\ ItemKeeps
<1> SUFFICES ASSUME ItemInv PROVE ItemTypeOK /\ ItemKeeps
  OBVIOUS
<1>1. ItemTypeOK
  BY SetCellMembers DEF ItemInv, SettingInv, PlainInv, ItemTypeOK
<1>2. ASSUME raced = {}, \A t \in Threads : setting[t] = {}, NEW c \in SetCells, c[2] \in Indices
      PROVE  Latest(c) = lastSet[SlotOf(c)]
  BY <1>2 DEF ItemInv, CellInv, Setting
<1>3. ASSUME raced = {}, \A t \in Threads : setting[t] = {}, NEW i \in Indices
      PROVE  /\ GetSocket(i) = (IF i < Sockets THEN lastSet[<<"socket", i>>] ELSE 0)
             /\ i < Attributes => /\ GetAttributeType(i) = lastSet[<<"attribute", i>>]
                                  /\ GetAttributeValue(i) = lastSet[<<"attribute", i>>]
             /\ ~(i < Attributes) => GetAttributeType(i) = 0 /\ GetAttributeValue(i) = 0
  <2>1. i \in Nat
    BY ItemAssumption
  <2>2. ASSUME i < Sockets PROVE GetSocket(i) = lastSet[<<"socket", i>>]
    <3>1. <<"socket", i>> \in SetCells /\ SlotOf(<<"socket", i>>) = <<"socket", i>>
      BY <2>1, <2>2, ItemAssumption DEF SetCells, SlotOf
    <3> QED BY <1>2, <1>3, <2>1, <2>2, <3>1, CellInside DEF GetSocket, Inside
  <2>3. ASSUME i < Attributes
        PROVE  /\ GetAttributeType(i) = lastSet[<<"attribute", i>>]
               /\ GetAttributeValue(i) = lastSet[<<"attribute", i>>]
    <3>1. \A array \in {"attrType", "attrValue"} :
            <<array, i>> \in SetCells /\ SlotOf(<<array, i>>) = <<"attribute", i>>
      BY <2>1, <2>3, ItemAssumption DEF SetCells, SlotOf
    <3> QED BY <1>2, <1>3, <2>1, <2>3, <3>1, CellInside DEF GetAttributeType, GetAttributeValue, Inside
  <2> QED BY <2>2, <2>3 DEF GetSocket, GetAttributeType, GetAttributeValue, Inside
<1>4. ItemKeeps
  BY <1>3 DEF ItemKeeps, ItemInv, SettingInv
<1> QED BY <1>1, <1>4

(* Setters and getters that are ordered keep each slot's type and value    *)
(* together and each slot apart from the others, whatever the lengths of   *)
(* the arrays and the indices passed.                                      *)
THEOREM OrderedSettersKeep == ItemSpec => []ItemKeeps
BY InitItemInv, NextItemInv, ItemInvKeeps, PTL DEF ItemSpec

---------------------------------------------------------------------------
(* Logger.  How the count of messages below a level changes when one is    *)
(* begun or ended.                                                         *)
LEMMA BelowLevelType ==
  ASSUME NEW messages \in Seq(Int), NEW level \in Int
  PROVE  /\ IsFiniteSet({k \in DOMAIN messages : messages[k] < level})
         /\ BelowLevel(messages, level) \in Nat
<1>1. IsFiniteSet(1..Len(messages))
  BY FS_Interval
<1>2. IsFiniteSet({k \in DOMAIN messages : messages[k] < level})
  BY <1>1, FS_Subset
<1> QED BY <1>2, FS_CardinalityType DEF BelowLevel

LEMMA BelowLevelAppend ==
  ASSUME NEW messages \in Seq(Int), NEW level \in Int, NEW l \in Int
  PROVE  BelowLevel(Append(messages, l), level)
           = BelowLevel(messages, level) + (IF l < level THEN 1 ELSE 0)
<1> DEFINE Low(ms) == {k \in DOMAIN ms : ms[k] < level}
           n == Len(messages) + 1
<1>1. /\ DOMAIN Append(messages, l) = (1..Len(messages)) \cup {n}
      /\ \A k \in 1..Len(messages) : Append(messages, l)[k] = messages[k]
      /\ Append(messages, l)[n] = l
      /\ n \notin Low(messages)
  OBVIOUS
<1>2. CASE l < level
  <2>1. Low(Append(messages, l)) = Low(messages) \cup {n}
    BY <1>1, <1>2
  <2>2. Cardinality(Low(messages) \cup {n}) = Cardinality(Low(messages)) + 1
    BY <1>1, BelowLevelType, FS_AddElement
  <2> QED BY <1>2, <2>1, <2>2 DEF BelowLevel
<1>3. CASE ~(l < level)
  <2>1. Low(Append(messages, l)) = Low(messages)
    BY <1>1, <1>3
  <2>2. BelowLevel(messages, level) \in Nat
    BY BelowLevelType
  <2>3. BelowLevel(Append(messages, l), level) = BelowLevel(messages, level)
    BY <2>1 DEF BelowLevel
  <2> QED BY <1>3, <2>2, <2>3
<1> QED BY <1>2, <1>3

LEMMA BelowLevelFront ==
  ASSUME NEW messages \in Seq(Int), NEW level \in Int, messages # <<>>
  PROVE  /\ Front(messages) \in Seq(Int)
         /\ BelowLevel(messages, level)
              = BelowLevel(Front(messages), level) + (IF Last(messages) < level THEN 1 ELSE 0)
<1>1. Front(messages) \in Seq(Int) /\ Last(messages) \in Int
  BY DEF Front, Last
<1>2. messages = Append(Front(messages), Last(messages))
  BY DEF Front, Last
<1> QED BY <1>1, <1>2, BelowLevelAppend

(* A thread that is ordered after the last setLevel() knows of no other    *)
(* level, and may log the messages below it that it has begun.             *)
LoggerInv ==
  /\ PlainInv(LoggerMembers, LogLevels)
  /\ calls \in [Threads -> Seq(LogLevels)]
  /\ ordered \subseteq Threads
  /\ allowance \in [Threads -> Int]
  /\ \A t \in ordered :
       InOrder(t, "minLevel") /\ allowance[t] >= BelowLevel(calls[t], Latest("minLevel"))

LEMMA SeqOfSubset ==
  ASSUME NEW S, NEW T, S \subseteq T, NEW s \in Seq(S)
  PROVE  s \in Seq(T)
OBVIOUS

LEMMA LevelsAreInts == LogLevels \subseteq Int /\ \A messages \in Seq(LogLevels) : messages \in Seq(Int)
<1>1. Range(LogLevel) \subseteq Int
  BY DEF Range, LogLevel
<1>2. LogLevels \subseteq Int
  BY <1>1, LoggerAssumption
<1> QED BY <1>2, SeqOfSubset

LEMMA LatestIsLevel == PlainInv(LoggerMembers, LogLevels) =>
  /\ stores["minLevel"] \in Seq(LogLevels) /\ Len(stores["minLevel"]) \in Nat
  /\ Threads # {} => Latest("minLevel") \in LogLevels
  /\ \A i \in 1..Len(stores["minLevel"]) : stores["minLevel"][i] \in LogLevels
<1> SUFFICES ASSUME PlainInv(LoggerMembers, LogLevels)
             PROVE  /\ stores["minLevel"] \in Seq(LogLevels) /\ Len(stores["minLevel"]) \in Nat
                    /\ Threads # {} => Latest("minLevel") \in LogLevels
                    /\ \A i \in 1..Len(stores["minLevel"]) : stores["minLevel"][i] \in LogLevels
  OBVIOUS
<1>1. stores["minLevel"] \in Seq(LogLevels) /\ Len(stores["minLevel"]) \in Nat
  BY DEF PlainInv, LoggerMembers
<1>2. ASSUME NEW t \in Threads PROVE Len(stores["minLevel"]) >= 1
  BY <1>1 DEF PlainInv, LoggerMembers
<1> QED BY <1>1, <1>2 DEF Latest, Last

LEMMA InitLoggerInv == PlainInit(LoggerMembers, LogLevel.Info) /\ LoggerInit => LoggerInv
<1> SUFFICES ASSUME PlainInit(LoggerMembers, LogLevel.Info), LoggerInit PROVE LoggerInv
  OBVIOUS
<1>1. LogLevel.Info = 2 /\ 2 \in LogLevels
  BY LoggerAssumption DEF LogLevel
<1>2. PlainInv(LoggerMembers, LogLevels)
  BY <1>1, PlainInitInv
<1>3. stores["minLevel"] = <<2>> /\ \A t \in Threads : view[t]["minLevel"] = 1
  BY <1>1 DEF PlainInit, LoggerMembers
<1>4. Latest("minLevel") = 2 /\ \A t \in Threads : InOrder(t, "minLevel")
  BY <1>3 DEF Latest, Last, InOrder
<1>5. BelowLevel(<<>>, 2) = 0
  <2>1. {k \in DOMAIN <<>> : <<>>[k] < 2} = {}
    OBVIOUS
  <2> QED BY <2>1, FS_EmptySet DEF BelowLevel
<1> QED BY <1>2, <1>4, <1>5 DEF LoggerInit, LoggerInv

LEMMA NextLoggerInv == LoggerInv /\ [LoggerNext]_<<plainVars, loggerVars>> => LoggerInv'
<1> SUFFICES ASSUME LoggerInv, [LoggerNext]_<<plainVars, loggerVars>> PROVE LoggerInv'
  OBVIOUS
<1> USE DEF LoggerInv
<1> DEFINE m == "minLevel"
<1>1. m \in LoggerMembers /\ raced \in SUBSET LoggerMembers
  BY DEF PlainInv, LoggerMembers
<1>2. \A u \in Threads : calls[u] \in Seq(Int) /\ allowance[u] \in Int
  BY LevelsAreInts
<1>3. LogLevels \subseteq Int
  BY LevelsAreInts
<1>4. stores[m] \in Seq(LogLevels) /\ Len(stores[m]) \in Nat
  BY LatestIsLevel
<1>5. ASSUME NEW t \in Threads, NEW level \in LogLevels, SetLevel(t, level) PROVE LoggerInv'
  <2>1. /\ Store(t, m, level) /\ ordered' = {t}
        /\ UNCHANGED <<calls, raced>> /\ raced' \in SUBSET LoggerMembers
    BY <1>1, <1>5 DEF SetLevel
  <2>2. /\ PlainInv(LoggerMembers, LogLevels)' /\ Latest(m)' = level
        /\ view'[t][m] = Len(stores'[m])
    <3>1. m \in LoggerMembers /\ PlainInv(LoggerMembers, LogLevels)
      BY <1>1
    <3> QED BY <2>1, <3>1, StoreKeeps
  <2>3. BelowLevel(calls[t], level) \in Nat
    BY <1>2, <1>3, BelowLevelType
  <2>4. allowance' \in [Threads -> Int] /\ allowance'[t] = BelowLevel(calls[t], level)
    BY <1>5, <2>3 DEF SetLevel
  <2> QED BY <2>1, <2>2, <2>3, <2>4 DEF InOrder
<1>6. ASSUME NEW t \in Threads, NEW level \in LogLevels, Log(t, level) PROVE LoggerInv'
  <2>1. PICK i \in 1..Len(stores[m]) :
          /\ Load(t, m, i)
          /\ calls' = IF Passes(stores[m][i], level)
                      THEN [calls EXCEPT ![t] = Append(@, level)] ELSE calls
    BY <1>6 DEF Log
  <2>2. /\ UNCHANGED <<stores, ordered, allowance, raced>> /\ Latest(m)' = Latest(m)
        /\ raced' \in SUBSET LoggerMembers
    BY <1>1, <1>6, <2>1 DEF Log, Load, Latest
  <2>3. /\ PlainInv(LoggerMembers, LogLevels)' /\ view'[t][m] = i
        /\ \A u \in Threads : u # t => view'[u] = view[u]
    <3>1. /\ m \in LoggerMembers /\ PlainInv(LoggerMembers, LogLevels)
          /\ Load(t, m, i) /\ raced' \in SUBSET LoggerMembers
      BY <1>1, <2>1, <2>2
    <3> QED BY <3>1, LoadKeeps
  <2>4. i >= view[t][m] /\ view[t][m] \in Nat
    BY <1>1, <1>4, <2>1 DEF Load, PlainInv
  <2>5. ASSUME NEW u \in ordered PROVE InOrder(u, m)'
    <3>1. u \in Threads /\ view[u][m] = Len(stores[m])
      BY DEF InOrder
    <3>2. CASE u = t
      BY <1>4, <2>2, <2>3, <2>4, <3>1, <3>2 DEF InOrder
    <3>3. CASE u # t
      BY <2>2, <2>3, <3>1, <3>3 DEF InOrder
    <3> QED BY <3>2, <3>3
  <2>6. /\ calls' \in [Threads -> Seq(LogLevels)]
        /\ \A u \in Threads : u # t => calls'[u] = calls[u]
    BY <2>1
  <2>7. ASSUME t \in ordered PROVE allowance[t] >= BelowLevel(calls'[t], Latest(m))
    <3>1. i = Len(stores[m])
      BY <1>4, <2>4, <2>7 DEF InOrder
    <3>2. stores[m][i] = Latest(m)
      BY <3>1 DEF Latest, Last
    <3>3. Latest(m) \in Int /\ level \in Int
      BY <1>3, LatestIsLevel
    <3>4. CASE Passes(stores[m][i], level)
      <4>1. ~(level < Latest(m))
        BY <3>2, <3>3, <3>4 DEF Passes
      <4>2. calls'[t] = Append(calls[t], level)
        BY <2>1, <3>4
      <4>3. BelowLevel(calls[t], Latest(m)) \in Nat
        BY <1>2, <3>3, BelowLevelType
      <4>4. BelowLevel(calls'[t], Latest(m)) = BelowLevel(calls[t], Latest(m))
        BY <1>2, <3>3, <4>1, <4>2, <4>3, BelowLevelAppend
      <4> QED BY <2>7, <4>4
    <3>5. CASE ~Passes(stores[m][i], level)
      BY <2>1, <2>7, <3>5
    <3> QED BY <3>4, <3>5
  <2> QED BY <2>2, <2>3, <2>5, <2>6, <2>7
<1>7. ASSUME NEW t \in Threads, calls[t] # <<>>, UNCHANGED <<ordered, stores, view, raced>>,
             calls' = [calls EXCEPT ![t] = Front(@)], allowance' \in [Threads -> Int],
             t \in ordered =>
               allowance'[t] >= allowance[t] - (IF Last(calls[t]) < Latest(m) THEN 1 ELSE 0),
             \A u \in Threads : u # t => allowance'[u] = allowance[u]
      PROVE  LoggerInv'
  <2>1. /\ PlainInv(LoggerMembers, LogLevels)' /\ Latest(m)' = Latest(m)
        /\ \A u \in Threads : InOrder(u, m)' = InOrder(u, m)
    BY <1>7 DEF PlainInv, InOrder, Latest
  <2>2. Latest(m) \in Int
    BY <1>3, LatestIsLevel
  <2>3. BelowLevel(calls[t], Latest(m))
          = BelowLevel(Front(calls[t]), Latest(m)) + (IF Last(calls[t]) < Latest(m) THEN 1 ELSE 0)
    BY <1>2, <1>7, <2>2, BelowLevelFront
  <2>4. BelowLevel(Front(calls[t]), Latest(m)) \in Nat
    BY <1>2, <1>7, <2>2, BelowLevelType, BelowLevelFront
  <2>5. calls'[t] = Front(calls[t]) /\ \A u \in Threads : u # t => calls'[u] = calls[u]
    BY <1>7
  <2>6. t \in ordered => allowance'[t] >= BelowLevel(calls'[t], Latest(m))
    <3>1. allowance[t] \in Int /\ allowance'[t] \in Int
      BY <1>7
    <3>2. t \in ordered => allowance[t] >= BelowLevel(calls[t], Latest(m))
      OBVIOUS
    <3> QED BY <1>7, <2>3, <2>4, <2>5, <3>1, <3>2
  <2>7. calls' \in [Threads -> Seq(LogLevels)]
    BY <1>7 DEF Front
  <2> QED BY <1>7, <2>1, <2>5, <2>6, <2>7
<1>8. ASSUME NEW t \in Threads, Write(t) PROVE LoggerInv'
  <2>1. /\ allowance' \in [Threads -> Int]
        /\ t \in ordered =>
             allowance'[t] >= allowance[t] - (IF Last(calls[t]) < Latest(m) THEN 1 ELSE 0)
        /\ \A u \in Threads : u # t => allowance'[u] = allowance[u]
    BY <1>2, <1>8 DEF Write
  <2> QED BY <1>7, <1>8, <2>1 DEF Write
<1>9. ASSUME NEW t \in Threads, FormatThrows(t) PROVE LoggerInv'
  <2>1. /\ UNCHANGED allowance
        /\ allowance[t] >= allowance[t] - (IF Last(calls[t]) < Latest(m) THEN 1 ELSE 0)
    BY <1>2, <1>9 DEF FormatThrows
  <2> QED BY <1>7, <1>9, <2>1 DEF FormatThrows
<1>10. ASSUME NEW t \in Threads, NEW u \in Threads, LoggerHandOver(t, u) PROVE LoggerInv'
  <2>1. /\ Acquire(u, view[t]) /\ view[t] \in [LoggerMembers -> Nat]
        /\ UNCHANGED <<calls, raced>> /\ raced' \in SUBSET LoggerMembers
        /\ \A n \in LoggerMembers : view[t][n] <= Len(stores[n])
    BY <1>10 DEF LoggerHandOver, HandOver, PlainInv
  <2>2. /\ PlainInv(LoggerMembers, LogLevels)' /\ UNCHANGED stores
        /\ view[t][m] <= view'[u][m] /\ view[u][m] <= view'[u][m]
        /\ \A s \in Threads : s # u => view'[s] = view[s]
    BY <1>1, <2>1, AcquireKeeps
  <2>3. view'[u][m] \in Nat /\ view'[u][m] <= Len(stores[m])
    BY <1>1, <2>2 DEF PlainInv
  <2>4. /\ Latest(m)' = Latest(m)
        /\ t \in ordered \/ u \in ordered => InOrder(u, m)'
        /\ \A s \in Threads : s # u => InOrder(s, m)' = InOrder(s, m)
    BY <1>4, <2>2, <2>3 DEF InOrder, Latest
  <2>5. CASE t \in ordered /\ u \notin ordered
    <3>1. BelowLevel(calls[u], Latest(m)) \in Nat
      BY <1>2, <1>3, LatestIsLevel, BelowLevelType
    <3>2. /\ ordered' = ordered \cup {u}
          /\ allowance' = [allowance EXCEPT ![u] = BelowLevel(calls[u], Latest(m))]
      BY <1>10, <2>5 DEF LoggerHandOver
    <3>3. \A s \in ordered' : allowance'[s] >= BelowLevel(calls[s], Latest(m))
      BY <3>1, <3>2
    <3> QED BY <2>1, <2>2, <2>4, <2>5, <3>1, <3>2, <3>3
  <2>6. CASE ~(t \in ordered /\ u \notin ordered)
    <3>1. UNCHANGED <<ordered, allowance>>
      BY <1>10, <2>6 DEF LoggerHandOver
    <3> QED BY <2>1, <2>2, <2>4, <3>1
  <2> QED BY <2>5, <2>6
<1>11. CASE UNCHANGED <<plainVars, loggerVars>>
  BY <1>11 DEF plainVars, loggerVars, PlainInv, InOrder, Latest
<1> QED BY <1>5, <1>6, <1>8, <1>9, <1>10, <1>11 DEF LoggerNext

LEMMA LoggerInvKeeps == LoggerInv => LoggerTypeOK /\ LevelHolds
<1> SUFFICES ASSUME LoggerInv PROVE LoggerTypeOK /\ LevelHolds
  OBVIOUS
<1>1. LoggerTypeOK
  BY LatestIsLevel DEF LoggerInv, LoggerTypeOK
<1>2. ASSUME NEW t \in ordered PROVE allowance[t] >= 0
  <2>1. t \in Threads /\ allowance[t] \in Int
    BY DEF LoggerInv
  <2>2. Latest("minLevel") \in Int /\ calls[t] \in Seq(Int)
    BY <2>1, LatestIsLevel, LevelsAreInts DEF LoggerInv
  <2>3. BelowLevel(calls[t], Latest("minLevel")) \in Nat
    BY <2>2, BelowLevelType
  <2> QED BY <2>1, <2>3 DEF LoggerInv
<1> QED BY <1>1, <1>2 DEF LevelHolds

(* A level that a thread is ordered after holds for it, but for what it    *)
(* was already formatting: for any levels, any threads and any depth of    *)
(* messages that log while they are formatted.                             *)
THEOREM LevelsTakeEffect == LoggerSpec => []LevelHolds
BY InitLoggerInv, NextLoggerInv, LoggerInvKeeps, PTL DEF LoggerSpec

---------------------------------------------------------------------------
(* All of them together: the behaviour is about one object, and what the   *)
(* other classes' variables say stays as it was.                           *)
ObjectInv ==
  /\ object \in {"Session", "Logger", "PlayerCharacter", "Item"}
  /\ object = "Session" => SessionInv
  /\ object = "Logger" => LoggerInv
  /\ object = "PlayerCharacter" => PlayerInv
  /\ object = "Item" => ItemInv

(* What the properties of the classes that the behaviour is not about say. *)
OthersInv ==
  /\ object # "Session" => gotId = [t \in Threads |-> 0]
  /\ object # "Logger" => ordered = Threads /\ allowance = [t \in Threads |-> 0]

UnlockedInv == ObjectInv /\ OthersInv

LEMMA InitUnlockedInv == MCInit => UnlockedInv
BY InitSessionInv, InitLoggerInv, InitPlayerInv, InitItemInv
   DEF MCInit, UnlockedInv, ObjectInv, OthersInv, SessionInit, LoggerInit

LEMMA NextUnlockedInv == UnlockedInv /\ [MCNext]_<<object, plainVars, components>> => UnlockedInv'
<1> SUFFICES ASSUME UnlockedInv, [MCNext]_<<object, plainVars, components>> PROVE UnlockedInv'
  OBVIOUS
<1> USE DEF UnlockedInv, ObjectInv, OthersInv
<1>1. CASE object = "Session" /\ SessionNext /\ UNCHANGED <<object, loggerVars, playerVars, itemVars>>
  BY <1>1, NextSessionInv DEF loggerVars
<1>2. CASE object = "Logger" /\ LoggerNext /\ UNCHANGED <<object, sessionVars, playerVars, itemVars>>
  BY <1>2, NextLoggerInv DEF sessionVars
<1>3. CASE object = "PlayerCharacter" /\ PlayerNext /\ UNCHANGED <<object, sessionVars, loggerVars, itemVars>>
  BY <1>3, NextPlayerInv DEF sessionVars, loggerVars
<1>4. CASE object = "Item" /\ ItemNext /\ UNCHANGED <<object, sessionVars, loggerVars, playerVars>>
  BY <1>4, NextItemInv DEF sessionVars, loggerVars
<1>5. CASE UNCHANGED <<object, plainVars, components>>
  BY <1>5, NextSessionInv, NextLoggerInv, NextPlayerInv, NextItemInv DEF components, sessionVars, loggerVars
<1> QED BY <1>1, <1>2, <1>3, <1>4, <1>5 DEF MCNext

LEMMA SpecUnlockedInv == MCSpec => []UnlockedInv
BY InitUnlockedInv, NextUnlockedInv, PTL DEF MCSpec

---------------------------------------------------------------------------
(* Type correctness of every class. *)
THEOREM UnlockedTypes == MCSpec => []TypeOK
<1>1. ASSUME NEW members, NEW values, PlainInv(members, values) PROVE PlainTypeOK
  BY <1>1 DEF PlainInv, PlainTypeOK
<1>2. UnlockedInv => PlainTypeOK
  BY <1>1 DEF UnlockedInv, ObjectInv, SessionInv, LoggerInv, PlayerInv, AddingInv, ItemInv, SettingInv
<1>3. UnlockedInv => TypeOK
  BY <1>2, SessionInvTypes, LoggerInvKeeps, ItemInvKeeps DEF UnlockedInv, ObjectInv, SessionInv, PlayerInv, TypeOK
<1> QED BY <1>3, SpecUnlockedInv, PTL

(* What the four classes promise also holds of the object at hand in each  *)
(* behaviour of MCUnlocked: no addition that is ordered is lost ...        *)
THEOREM UnlockedAdditionsAdd == MCSpec => []MCCountersAdd
<1>1. UnlockedInv => MCCountersAdd
  BY DEF UnlockedInv, ObjectInv, PlayerInv, MCCountersAdd
<1> QED BY <1>1, SpecUnlockedInv, PTL

(* ... an ordered setter keeps a slot together, ...                        *)
THEOREM UnlockedSettersKeep == MCSpec => []MCItemKeeps
<1>1. UnlockedInv => MCItemKeeps
  BY ItemInvKeeps DEF UnlockedInv, ObjectInv, MCItemKeeps
<1> QED BY <1>1, SpecUnlockedInv, PTL

(* ... ids follow states, and a level holds where it is ordered.           *)
THEOREM UnlockedOrder == MCSpec => [](LoginSeen /\ LevelHolds)
<1>1. UnlockedInv => LoginSeen /\ LevelHolds
  BY LoggerInvKeeps DEF UnlockedInv, ObjectInv, OthersInv, SessionInv, LoginSeen, LevelHolds
<1> QED BY <1>1, SpecUnlockedInv, PTL
=============================================================================
