------------------------ MODULE EventManagerProofs ------------------------
(* Theorems about EventManager, for any threads, event types and bounds. *)
EXTENDS EventManager, SequenceTheorems, TLAPS

---------------------------------------------------------------------------
(* Facts about sequences.                                                  *)

(* A stack is made of its top and the rest. *)
LEMMA ConsFacts ==
  ASSUME NEW S, NEW x \in S, NEW s \in Seq(S)
  PROVE  /\ <<x>> \o s \in Seq(S)
         /\ <<x>> \o s # <<>>
         /\ Len(<<x>> \o s) = Len(s) + 1
         /\ Head(<<x>> \o s) = x
         /\ Tail(<<x>> \o s) = s
         /\ (<<x>> \o s)[1] = x
         /\ \A i \in 1..Len(s) : (<<x>> \o s)[i + 1] = s[i]
<1> DEFINE c == <<x>> \o s
<1>1. <<x>> \in Seq(S) /\ Len(<<x>>) = 1 /\ <<x>>[1] = x /\ Len(s) \in Nat
  BY LenProperties
<1>2. /\ c \in Seq(S) /\ Len(c) = Len(s) + 1
      /\ \A i \in 1..(Len(s) + 1) : c[i] = IF i <= 1 THEN <<x>>[i] ELSE s[i - 1]
  BY <1>1, ConcatProperties
<1>3. c # <<>>
  BY <1>1, <1>2, EmptySeq
<1>4. c[1] = x /\ \A i \in 1..Len(s) : c[i + 1] = s[i]
  BY <1>1, <1>2
<1>5. Head(c) = x
  BY <1>2, <1>3, <1>4
<1>6. Tail(c) = s
  <2>1. /\ Tail(c) \in Seq(S) /\ Len(Tail(c)) = Len(s)
        /\ \A i \in 1..Len(Tail(c)) : Tail(c)[i] = c[i + 1]
    BY <1>1, <1>2, <1>3, HeadTailProperties
  <2> HIDE DEF c
  <2> QED BY <1>4, <2>1, SeqEqual
<1> QED BY <1>2, <1>3, <1>4, <1>5, <1>6

(* unsubscribe() takes at most one element out and keeps the order.        *)
LEMMA RemoveFacts ==
  ASSUME NEW s \in Seq(Ids), NEW id, NEW r, r = RemoveFirst(s, id), Strictly(s)
  PROVE  /\ r \in Seq(Ids)
         /\ Strictly(r)
         /\ \A i \in DOMAIN r : \E j \in DOMAIN s : r[i] = s[j]
<1>1. DOMAIN s = 1..Len(s) /\ Len(s) \in Nat
  BY LenProperties
<1>2. \A i \in 1..Len(s) : s[i] \in Int
  <2>1. Ids \subseteq Int
    BY DEF Ids
  <2> QED BY <2>1, ElementOfSeq
<1>3. CASE ~\E i \in 1..Len(s) : s[i] = id
  BY <1>3 DEF RemoveFirst
<1>4. CASE \E i \in 1..Len(s) : s[i] = id
  <2>1. PICK k \in 1..Len(s) : s[k] = id
    BY <1>4
  <2>2. {i \in 1..Len(s) : s[i] = id} = {k}
    <3>1. \A i, j \in 1..Len(s) : s[i] = s[j] => i = j
      BY <1>1, <1>2 DEF Strictly
    <3> QED BY <2>1, <3>1
  <2>3. SelectInSeq(s, LAMBDA v : v = id) = k
    <3>1. Min({k}) = k
      BY <1>1, <2>1 DEF Min
    <3> QED BY <2>2, <3>1 DEF SelectInSeq
  <2> DEFINE a == SubSeq(s, 1, k - 1)
             b == SubSeq(s, k + 1, Len(s))
  <2>4. r = a \o b
    BY <1>4, <2>3 DEF RemoveFirst, RemoveAt
  <2>5. k \in Nat /\ k >= 1 /\ k <= Len(s)
    BY <1>1, <2>1
  <2>6. a \in Seq(Ids) /\ Len(a) = k - 1 /\ \A i \in 1..(k - 1) : a[i] = s[i]
    <3>1. \A i \in 1..(k - 1) : s[i] \in Ids
      BY <1>1, <2>5, ElementOfSeq
    <3>2. 1 \in Int /\ k - 1 \in Int
      BY <2>5
    <3> HIDE DEF a
    <3> QED BY <2>5, <3>1, <3>2, SubSeqProperties DEF a
  <2>7. b \in Seq(Ids) /\ Len(b) = Len(s) - k /\ \A i \in 1..(Len(s) - k) : b[i] = s[k + i]
    <3>1. \A i \in (k + 1)..Len(s) : s[i] \in Ids
      BY <1>1, <2>5, ElementOfSeq
    <3>2. k + 1 \in Int /\ Len(s) \in Int
      BY <1>1, <2>5
    <3>3. /\ b \in Seq(Ids)
          /\ Len(b) = IF k + 1 <= Len(s) THEN Len(s) - (k + 1) + 1 ELSE 0
          /\ \A i \in 1..(Len(s) - (k + 1) + 1) : b[i] = s[k + 1 + i - 1]
      BY <3>1, <3>2, SubSeqProperties
    <3>4. Len(s) - (k + 1) + 1 = Len(s) - k /\ \A i \in Int : k + 1 + i - 1 = k + i
      BY <1>1, <2>5
    <3> HIDE DEF b
    <3>5. ASSUME NEW i \in 1..(Len(s) - k) PROVE b[i] = s[k + i]
      <4>1. i \in Int /\ i \in 1..(Len(s) - (k + 1) + 1)
        BY <3>4
      <4>2. b[i] = s[k + 1 + i - 1]
        BY <3>3, <4>1
      <4> QED BY <3>4, <4>1, <4>2
    <3>6. Len(b) = Len(s) - k
      BY <1>1, <2>5, <3>3
    <3> QED BY <3>3, <3>5, <3>6
  <2>8. /\ r \in Seq(Ids) /\ Len(r) = Len(s) - 1
        /\ \A i \in 1..(Len(s) - 1) : r[i] = IF i < k THEN s[i] ELSE s[i + 1]
    <3> HIDE DEF a, b
    <3>1. /\ r \in Seq(Ids) /\ Len(r) = Len(a) + Len(b)
          /\ \A i \in 1..(Len(a) + Len(b)) : r[i] = IF i <= Len(a) THEN a[i] ELSE b[i - Len(a)]
      <4>1. a \in Seq(Ids) /\ b \in Seq(Ids)
        BY <2>6, <2>7
      <4>2. /\ a \o b \in Seq(Ids) /\ Len(a \o b) = Len(a) + Len(b)
            /\ \A i \in 1..(Len(a) + Len(b)) :
                 (a \o b)[i] = IF i <= Len(a) THEN a[i] ELSE b[i - Len(a)]
        BY <4>1, ConcatProperties
      <4> QED BY <2>4, <4>2
    <3>2. Len(r) = Len(s) - 1 /\ Len(a) + Len(b) = Len(s) - 1
      BY <1>1, <2>5, <2>6, <2>7, <3>1
    <3>3. ASSUME NEW i \in 1..(Len(s) - 1) PROVE r[i] = IF i < k THEN s[i] ELSE s[i + 1]
      <4>1. r[i] = IF i <= k - 1 THEN a[i] ELSE b[i - (k - 1)]
        BY <2>6, <3>1, <3>2
      <4>2. CASE i < k
        BY <1>1, <2>5, <2>6, <4>1, <4>2
      <4>3. CASE ~(i < k)
        <5>1. i - (k - 1) \in 1..(Len(s) - k) /\ k + (i - (k - 1)) = i + 1 /\ ~(i <= k - 1)
          BY <1>1, <2>5, <4>3
        <5>2. b[i - (k - 1)] = s[k + (i - (k - 1))]
          BY <2>7, <5>1
        <5> QED BY <4>1, <4>3, <5>1, <5>2
      <4> QED BY <4>2, <4>3
    <3> QED BY <3>1, <3>2, <3>3
  <2>9. DOMAIN r = 1..(Len(s) - 1)
    BY <2>8, LenProperties
  <2>10. \A i \in DOMAIN r : \E j \in DOMAIN s : r[i] = s[j]
    <3> SUFFICES ASSUME NEW i \in 1..(Len(s) - 1) PROVE \E j \in 1..Len(s) : r[i] = s[j]
      BY <1>1, <2>9
    <3>1. CASE i < k
      BY <1>1, <2>8, <3>1
    <3>2. CASE ~(i < k)
      BY <1>1, <2>8, <3>2
    <3> QED BY <3>1, <3>2
  <2>11. Strictly(r)
    <3> SUFFICES ASSUME NEW i \in 1..(Len(s) - 1), NEW j \in 1..(Len(s) - 1), i < j
                 PROVE  r[i] < r[j]
      BY <2>9 DEF Strictly
    <3>1. \A m, n \in 1..Len(s) : m < n => s[m] < s[n]
      BY <1>1 DEF Strictly
    <3>2. r[i] = (IF i < k THEN s[i] ELSE s[i + 1]) /\ r[j] = (IF j < k THEN s[j] ELSE s[j + 1])
      BY <2>8
    <3> QED BY <1>1, <1>2, <2>5, <3>1, <3>2
  <2> QED BY <2>8, <2>10, <2>11
<1> QED BY <1>3, <1>4

---------------------------------------------------------------------------
(* The inductive invariant.                                                *)

(* The holder of m_mutex is the thread between lock and unlock. *)
LockInv == \A t \in Threads : pc[t] \in {"add", "copy"} <=> mutex = t

(* A batch that goes on has an event to go on with. *)
BatchInv == \A t \in Threads : pc[t] = "batch" => Top(t).rest # <<>>

(* The id a subscribe() has drawn is newer than all in the lists. *)
DrawnInv ==
  \A t \in Threads : pc[t] = "add" =>
    /\ drawn[t][2] < nextId
    /\ \A e \in Types : \A i \in DOMAIN handlers[e] : handlers[e][i] < drawn[t][2]

(* What publish() has copied so far is the beginning of the list. *)
CopyInv ==
  \A t \in Threads : pc[t] = "copy" =>
    /\ Len(Top(t).todo) <= Len(handlers[Top(t).ev])
    /\ \A i \in 1..Len(Top(t).todo) : Top(t).todo[i] = handlers[Top(t).ev][i]

IInv == TypeOK /\ LockInv /\ BatchInv /\ DrawnInv /\ CopyInv /\ IdsIdentify

LEMMA InitIInv == Init => IInv
<1> SUFFICES ASSUME Init PROVE IInv
  OBVIOUS
<1>1. \A S : <<>> \in Seq(S) /\ DOMAIN <<>> = {}
  BY EmptySeq
<1>2. 1 \in 1..(MaxId + 1)
  BY EventAssumption
<1>3. handlers \in [Types -> Seq(Ids)] /\ \A e \in Types : DOMAIN handlers[e] = {}
  BY <1>1 DEF Init
<1>4. TypeOK
  BY <1>1, <1>2, <1>3 DEF Init, TypeOK, Places
<1>5. IdsIdentify
  BY <1>3 DEF IdsIdentify, Strictly
<1> QED BY <1>4, <1>5, EventAssumption DEF Init, IInv, LockInv, BatchInv, DrawnInv, CopyInv

---------------------------------------------------------------------------
(* The stack.                                                              *)

LEMMA FrameFacts ==
  ASSUME NEW e \in Types, NEW todo \in Seq(Ids), NEW rest \in Seq(Types)
  PROVE  /\ Frame(e, todo, rest) \in Frames
         /\ Frame(e, todo, rest).ev = e
         /\ Frame(e, todo, rest).todo = todo
         /\ Frame(e, todo, rest).rest = rest
BY DEF Frame, Frames

LEMMA TopFacts ==
  ASSUME TypeOK, NEW t \in Threads, stack[t] # <<>>
  PROVE  /\ Top(t) \in Frames /\ Tail(stack[t]) \in Seq(Frames)
         /\ Top(t).ev \in Types /\ Top(t).todo \in Seq(Ids) /\ Top(t).rest \in Seq(Types)
<1>1. stack[t] \in Seq(Frames)
  BY DEF TypeOK
<1>2. Top(t) \in Frames /\ Tail(stack[t]) \in Seq(Frames)
  BY <1>1, HeadTailProperties DEF Top
<1> QED BY <1>2 DEF Frames

LEMMA SetTopFacts ==
  ASSUME TypeOK, NEW t \in Threads, stack[t] # <<>>, NEW f \in Frames, SetTop(t, f)
  PROVE  /\ stack' \in [Threads -> Seq(Frames)]
         /\ stack'[t] # <<>> /\ Head(stack'[t]) = f /\ Tail(stack'[t]) = Tail(stack[t])
         /\ \A u \in Threads : u # t => stack'[u] = stack[u]
<1>1. Tail(stack[t]) \in Seq(Frames) /\ stack \in [Threads -> Seq(Frames)]
  BY TopFacts DEF TypeOK
<1> DEFINE s == <<f>> \o Tail(stack[t])
<1>2. s \in Seq(Frames) /\ s # <<>> /\ Head(s) = f /\ Tail(s) = Tail(stack[t])
  BY <1>1, ConsFacts
<1>3. stack' = [stack EXCEPT ![t] = s]
  BY DEF SetTop
<1> HIDE DEF s
<1> QED BY <1>1, <1>2, <1>3

LEMMA PushFacts ==
  ASSUME TypeOK, NEW t \in Threads, NEW f \in Frames, Push(t, f)
  PROVE  /\ stack' \in [Threads -> Seq(Frames)]
         /\ stack'[t] # <<>> /\ Head(stack'[t]) = f /\ Tail(stack'[t]) = stack[t]
         /\ \A u \in Threads : u # t => stack'[u] = stack[u]
<1>1. stack[t] \in Seq(Frames) /\ stack \in [Threads -> Seq(Frames)]
  BY DEF TypeOK
<1> DEFINE s == <<f>> \o stack[t]
<1>2. s \in Seq(Frames) /\ s # <<>> /\ Head(s) = f /\ Tail(s) = stack[t]
  BY <1>1, ConsFacts
<1>3. stack' = [stack EXCEPT ![t] = s]
  BY DEF Push
<1> HIDE DEF s
<1> QED BY <1>1, <1>2, <1>3

LEMMA PopFacts ==
  ASSUME TypeOK, NEW t \in Threads, stack[t] # <<>>,
         stack' = [stack EXCEPT ![t] = Tail(@)]
  PROVE  /\ stack' \in [Threads -> Seq(Frames)]
         /\ stack'[t] = Tail(stack[t])
         /\ \A u \in Threads : u # t => stack'[u] = stack[u]
BY TopFacts DEF TypeOK

(* The lists hold ids, which are numbers. *)
LEMMA ListFacts ==
  ASSUME TypeOK, NEW e \in Types
  PROVE  /\ handlers[e] \in Seq(Ids) /\ Len(handlers[e]) \in Nat
         /\ DOMAIN handlers[e] = 1..Len(handlers[e])
         /\ \A i \in DOMAIN handlers[e] : handlers[e][i] \in Ids /\ handlers[e][i] \in Nat
<1>1. handlers[e] \in Seq(Ids)
  BY DEF TypeOK
<1>2. DOMAIN handlers[e] = 1..Len(handlers[e]) /\ Len(handlers[e]) \in Nat
  BY <1>1, LenProperties
<1>3. Ids \subseteq Nat
  BY EventAssumption DEF Ids
<1> QED BY <1>1, <1>2, <1>3, ElementOfSeq

---------------------------------------------------------------------------
(* A step of a thread that holds no lock before or after it, and leaves    *)
(* the lists alone.                                                        *)
LEMMA OutsideKeeps ==
  ASSUME IInv, NEW t \in Threads, UNCHANGED <<handlers, nextId, mutex, drawn>>,
         pc[t] \notin {"add", "copy"}, pc'[t] \notin {"add", "copy"},
         \A u \in Threads : u # t => pc'[u] = pc[u] /\ stack'[u] = stack[u]
  PROVE  LockInv' /\ DrawnInv' /\ CopyInv' /\ IdsIdentify'
<1>1. LockInv'
  BY DEF IInv, LockInv
<1>2. DrawnInv'
  BY DEF IInv, DrawnInv
<1>3. CopyInv'
  BY DEF IInv, CopyInv, Top
<1>4. IdsIdentify'
  BY DEF IInv, IdsIdentify, Strictly
<1> QED BY <1>1, <1>2, <1>3, <1>4

(* subscribe() starts: nobody holds the lock, and the id is new. *)
LEMMA SubscribeEnterStep ==
  ASSUME IInv, NEW t \in Threads, NEW e \in Types, SubscribeEnter(t, e)
  PROVE  IInv'
<1>1. TypeOK /\ LockInv /\ IdsIdentify /\ mutex = NoThread
  BY DEF IInv, SubscribeEnter, Locks
<1>2. /\ pc' = [pc EXCEPT ![t] = "add"] /\ mutex' = t /\ nextId' = nextId + 1
      /\ drawn' = [drawn EXCEPT ![t] = <<e, nextId>>]
      /\ UNCHANGED <<handlers, queue, stack>>
      /\ nextId \in Ids /\ nextId \in Nat /\ nextId' \in 1..(MaxId + 1)
  BY <1>1, EventAssumption DEF SubscribeEnter, Locks, Goto, TypeOK, Ids
<1>3. \A u \in Threads : pc[u] \notin {"add", "copy"}
  BY <1>1, EventAssumption DEF LockInv
<1>4. TypeOK'
  <2>1. <<e, nextId>> \in Types \X Ids
    BY <1>2
  <2> QED BY <1>1, <1>2, <2>1 DEF TypeOK, Places
<1>5. LockInv'
  BY <1>1, <1>2, <1>3 DEF LockInv, TypeOK
<1>6. BatchInv' /\ CopyInv'
  BY <1>1, <1>2, <1>3 DEF IInv, BatchInv, CopyInv, Top, TypeOK
<1>7. DrawnInv'
  <2> SUFFICES ASSUME NEW u \in Threads, pc'[u] = "add"
               PROVE  /\ drawn'[u][2] < nextId'
                      /\ \A d \in Types : \A i \in DOMAIN handlers'[d] : handlers'[d][i] < drawn'[u][2]
    BY DEF DrawnInv
  <2>1. u = t
    BY <1>1, <1>2, <1>3 DEF TypeOK
  <2>2. drawn'[t][2] = nextId
    BY <1>1, <1>2 DEF TypeOK
  <2> QED BY <1>1, <1>2, <2>1, <2>2 DEF IdsIdentify
<1>8. IdsIdentify'
  <2>1. \A d \in Types : \A i \in DOMAIN handlers[d] : handlers[d][i] \in Nat
    BY <1>1, ListFacts
  <2> QED BY <1>1, <1>2, <2>1 DEF IdsIdentify, Strictly
<1> QED BY <1>4, <1>5, <1>6, <1>7, <1>8 DEF IInv

(* subscribe() ends: the new id goes behind all others of its list. *)
LEMMA SubscribeAddStep ==
  ASSUME IInv, NEW t \in Threads, SubscribeAdd(t)
  PROVE  IInv'
<1> DEFINE e == drawn[t][1]
           id == drawn[t][2]
<1>1. TypeOK /\ LockInv /\ IdsIdentify /\ DrawnInv /\ pc[t] = "add"
  BY DEF IInv, SubscribeAdd
<1>2. /\ handlers' = [handlers EXCEPT ![e] = Append(handlers[e], id)]
      /\ drawn' = [drawn EXCEPT ![t] = <<>>] /\ mutex' = NoThread
      /\ pc' = [pc EXCEPT ![t] = "user"]
      /\ UNCHANGED <<nextId, queue, stack>>
  BY DEF SubscribeAdd, Unlocks, Goto
<1>3. e \in Types /\ id \in Ids /\ handlers[e] \in Seq(Ids)
  BY <1>1 DEF TypeOK
<1>4. id < nextId /\ \A d \in Types : \A i \in DOMAIN handlers[d] : handlers[d][i] < id
  BY <1>1 DEF DrawnInv
<1>5. \A u \in Threads : pc'[u] \notin {"add", "copy"}
  <2>1. \A u \in Threads : u # t => pc[u] \notin {"add", "copy"}
    BY <1>1 DEF LockInv
  <2> QED BY <1>1, <1>2, <2>1 DEF TypeOK
<1> HIDE DEF e, id
<1>6. /\ handlers'[e] \in Seq(Ids) /\ Len(handlers'[e]) = Len(handlers[e]) + 1
      /\ \A i \in 1..Len(handlers[e]) : handlers'[e][i] = handlers[e][i]
      /\ handlers'[e][Len(handlers[e]) + 1] = id
      /\ \A d \in Types \ {e} : handlers'[d] = handlers[d]
  <2>1. handlers'[e] = Append(handlers[e], id) /\ \A d \in Types \ {e} : handlers'[d] = handlers[d]
    BY <1>1, <1>2, <1>3 DEF TypeOK
  <2> QED BY <1>3, <2>1, AppendProperties
<1>7. TypeOK'
  <2>1. handlers' \in [Types -> Seq(Ids)]
    BY <1>1, <1>2, <1>3, <1>6 DEF TypeOK
  <2> QED BY <1>1, <1>2, <1>5, <2>1 DEF TypeOK, Places
<1>8. LockInv' /\ BatchInv' /\ DrawnInv' /\ CopyInv'
  BY <1>1, <1>2, <1>5, EventAssumption DEF IInv, LockInv, BatchInv, DrawnInv, CopyInv, Top, TypeOK
<1>9. IdsIdentify'
  <2>1. /\ DOMAIN handlers[e] = 1..Len(handlers[e]) /\ Len(handlers[e]) \in Nat
        /\ DOMAIN handlers'[e] = 1..(Len(handlers[e]) + 1)
    BY <1>3, <1>6, LenProperties
  <2>2. \A i \in DOMAIN handlers'[e] :
          \/ i \in DOMAIN handlers[e] /\ handlers'[e][i] = handlers[e][i]
          \/ i = Len(handlers[e]) + 1 /\ handlers'[e][i] = id
    BY <1>6, <2>1
  <2>3. Strictly(handlers'[e])
    BY <1>1, <1>3, <1>4, <2>1, <2>2 DEF IdsIdentify, Strictly
  <2>4. \A i \in DOMAIN handlers'[e] : handlers'[e][i] < nextId
    BY <1>1, <1>3, <1>4, <2>2 DEF IdsIdentify
  <2>5. \A d \in Types \ {e} : \A i \in DOMAIN handlers[d] : handlers[d][i] # id
    <3>1. \A d \in Types : \A i \in DOMAIN handlers[d] : handlers[d][i] \in Nat
      BY <1>1, ListFacts
    <3> QED BY <1>3, <1>4, <3>1 DEF Ids
  <2>6. \A d \in Types \ {e} : \A i \in DOMAIN handlers'[e], j \in DOMAIN handlers[d] :
          handlers'[e][i] # handlers[d][j]
    BY <1>1, <1>3, <2>2, <2>5 DEF IdsIdentify
  <2>7. ASSUME NEW d \in Types
        PROVE  /\ Strictly(handlers'[d])
               /\ \A i \in DOMAIN handlers'[d] : handlers'[d][i] < nextId'
               /\ \A c \in Types \ {d} : \A i \in DOMAIN handlers'[d], j \in DOMAIN handlers'[c] :
                    handlers'[d][i] # handlers'[c][j]
    <3>1. CASE d = e
      BY <1>2, <1>6, <2>3, <2>4, <2>6, <3>1
    <3>2. CASE d # e
      BY <1>1, <1>2, <1>6, <2>6, <3>2 DEF IdsIdentify
    <3> QED BY <3>1, <3>2
  <2> QED BY <2>7 DEF IdsIdentify
<1> QED BY <1>7, <1>8, <1>9 DEF IInv

(* A step in which the holder of the lock gives it up, the lists as they   *)
(* are.                                                                    *)
LEMMA UnlockKeeps ==
  ASSUME IInv, NEW t \in Threads, pc[t] \in {"add", "copy"}, pc'[t] \notin {"add", "copy"},
         mutex' = NoThread, UNCHANGED <<handlers, nextId>>,
         \A u \in Threads : u # t => pc'[u] = pc[u]
  PROVE  LockInv' /\ DrawnInv' /\ CopyInv' /\ IdsIdentify'
<1>1. LockInv /\ \A u \in Threads : pc'[u] \notin {"add", "copy"}
  BY DEF IInv, LockInv
<1>2. LockInv' /\ DrawnInv' /\ CopyInv'
  BY <1>1, EventAssumption DEF LockInv, DrawnInv, CopyInv
<1>3. IdsIdentify'
  BY DEF IInv, IdsIdentify, Strictly
<1> QED BY <1>2, <1>3

(* subscribe() fails: its id is in no list. *)
LEMMA SubscribeThrowsStep ==
  ASSUME IInv, NEW t \in Threads, SubscribeThrows(t)
  PROVE  IInv'
<1>1. /\ TypeOK /\ pc[t] = "add" /\ mutex' = NoThread
      /\ pc' = [pc EXCEPT ![t] = "user"] /\ drawn' = [drawn EXCEPT ![t] = <<>>]
      /\ UNCHANGED <<handlers, nextId, queue, stack>>
  BY DEF IInv, SubscribeThrows, Unlocks, Goto
<1>2. \A u \in Threads : pc'[u] = IF u = t THEN "user" ELSE pc[u]
  BY <1>1 DEF TypeOK
<1>3. TypeOK'
  BY <1>1, <1>2 DEF TypeOK, Places
<1>4. BatchInv'
  BY <1>1, <1>2 DEF IInv, BatchInv, Top
<1>5. LockInv' /\ DrawnInv' /\ CopyInv' /\ IdsIdentify'
  BY <1>1, <1>2, UnlockKeeps
<1> QED BY <1>3, <1>4, <1>5 DEF IInv

(* A step under the free lock that only takes ids out of the lists. *)
LEMMA FewerKeep ==
  ASSUME IInv, mutex = NoThread, UNCHANGED <<nextId, mutex, queue, pc, drawn, stack>>,
         handlers' \in [Types -> Seq(Ids)],
         \A e \in Types : Strictly(handlers'[e]),
         \A e \in Types : \A i \in DOMAIN handlers'[e] :
           \E j \in DOMAIN handlers[e] : handlers'[e][i] = handlers[e][j]
  PROVE  IInv'
<1>1. \A u \in Threads : pc[u] \notin {"add", "copy"}
  BY EventAssumption DEF IInv, LockInv
<1>2. TypeOK'
  BY DEF IInv, TypeOK
<1>3. LockInv' /\ BatchInv' /\ DrawnInv' /\ CopyInv'
  BY <1>1 DEF IInv, LockInv, BatchInv, DrawnInv, CopyInv, Top
<1>4. IdsIdentify'
  BY DEF IInv, IdsIdentify
<1> QED BY <1>2, <1>3, <1>4 DEF IInv

LEMMA UnsubscribeStep ==
  ASSUME IInv, NEW t \in Threads, (\E id \in Ids : Unsubscribe(t, id)) \/ Clear(t)
  PROVE  IInv'
<1>1. /\ mutex = NoThread /\ UNCHANGED <<nextId, mutex, queue, pc, drawn, stack>>
      /\ handlers \in [Types -> Seq(Ids)] /\ \A e \in Types : Strictly(handlers[e])
  BY DEF Unsubscribe, Clear, IInv, TypeOK, IdsIdentify
<1>2. ASSUME NEW id \in Ids, Unsubscribe(t, id) PROVE IInv'
  <2>1. handlers' = [e \in Types |-> RemoveFirst(handlers[e], id)]
    BY <1>2 DEF Unsubscribe
  <2>2. ASSUME NEW e \in Types
        PROVE  /\ handlers'[e] \in Seq(Ids) /\ Strictly(handlers'[e])
               /\ \A i \in DOMAIN handlers'[e] :
                    \E j \in DOMAIN handlers[e] : handlers'[e][i] = handlers[e][j]
    BY <1>1, <2>1, RemoveFacts
  <2>3. handlers' \in [Types -> Seq(Ids)]
    BY <2>1, <2>2
  <2> QED BY <1>1, <2>2, <2>3, FewerKeep
<1>3. CASE Clear(t)
  <2>1. handlers' = [e \in Types |-> <<>>] /\ <<>> \in Seq(Ids) /\ DOMAIN <<>> = {}
    BY <1>3, EmptySeq DEF Clear
  <2>2. handlers' \in [Types -> Seq(Ids)] /\ \A e \in Types : DOMAIN handlers'[e] = {}
    BY <2>1
  <2> QED BY <1>1, <2>2, FewerKeep DEF Strictly
<1> QED BY <1>2, <1>3

(* publish() starts to copy: nothing is copied yet. *)
LEMMA StartsCopy ==
  ASSUME IInv, NEW t \in Threads, NEW e \in Types, NEW rest \in Seq(Types),
         Locks(t), Goto(t, "copy"), UNCHANGED <<handlers, nextId, queue, drawn>>,
         \/ Push(t, Frame(e, <<>>, rest))
         \/ stack[t] # <<>> /\ SetTop(t, Frame(e, <<>>, rest))
  PROVE  IInv'
<1> DEFINE f == Frame(e, <<>>, rest)
<1>1. TypeOK /\ LockInv /\ mutex = NoThread /\ mutex' = t /\ pc' = [pc EXCEPT ![t] = "copy"]
  BY DEF IInv, Locks, Goto
<1>2. f \in Frames /\ f.ev = e /\ f.todo = <<>> /\ Len(f.todo) = 0
  <2>1. <<>> \in Seq(Ids) /\ Len(<<>>) = 0
    BY EmptySeq
  <2>2. f \in Frames /\ f.ev = e /\ f.todo = <<>>
    BY <2>1 DEF Frame, Frames
  <2> QED BY <2>1, <2>2
<1>3. /\ stack' \in [Threads -> Seq(Frames)] /\ stack'[t] # <<>> /\ Head(stack'[t]) = f
      /\ \A u \in Threads : u # t => stack'[u] = stack[u]
  BY <1>1, <1>2, PushFacts, SetTopFacts
<1> HIDE DEF f
<1>4. \A u \in Threads : pc[u] \notin {"add", "copy"}
  BY <1>1, EventAssumption DEF LockInv
<1>5. \A u \in Threads : pc'[u] = IF u = t THEN "copy" ELSE pc[u]
  BY <1>1 DEF TypeOK
<1>6. TypeOK'
  BY <1>1, <1>3, <1>5 DEF TypeOK, Places
<1>7. LockInv' /\ DrawnInv'
  BY <1>1, <1>4, <1>5 DEF LockInv, DrawnInv
<1>8. BatchInv'
  BY <1>3, <1>5 DEF IInv, BatchInv, Top
<1>9. CopyInv'
  <2>1. Len(handlers[e]) >= 0
    BY <1>1, ListFacts
  <2>2. Top(t)' = f /\ \A i \in 1..Len(f.todo) : FALSE
    BY <1>2, <1>3 DEF Top
  <2>3. \A u \in Threads : pc'[u] = "copy" => u = t
    BY <1>4, <1>5
  <2> QED BY <1>2, <2>1, <2>2, <2>3 DEF CopyInv
<1>10. IdsIdentify'
  BY DEF IInv, IdsIdentify, Strictly
<1> QED BY <1>6, <1>7, <1>8, <1>9, <1>10 DEF IInv

LEMMA PublishStartStep ==
  ASSUME IInv, NEW t \in Threads, (\E e \in Types : PublishEnter(t, e)) \/ PublishNext(t)
  PROVE  IInv'
<1>1. ASSUME NEW e \in Types, PublishEnter(t, e) PROVE IInv'
  <2>1. <<>> \in Seq(Types)
    BY EmptySeq
  <2> QED BY <1>1, <2>1, StartsCopy DEF PublishEnter
<1>2. CASE PublishNext(t)
  <2>1. TypeOK /\ pc[t] = "batch" /\ stack[t] # <<>> /\ Top(t).rest # <<>>
    BY <1>2 DEF IInv, TypeOK, BatchInv, PublishNext
  <2>2. Top(t).rest \in Seq(Types)
    BY <2>1, TopFacts
  <2>3. Head(Top(t).rest) \in Types /\ Tail(Top(t).rest) \in Seq(Types)
    BY <2>1, <2>2, HeadTailProperties
  <2> QED BY <1>2, <2>1, <2>3, StartsCopy DEF PublishNext
<1> QED BY <1>1, <1>2

(* publish() copies one handler more. *)
LEMMA PublishCopyStep ==
  ASSUME IInv, NEW t \in Threads, PublishCopy(t)
  PROVE  IInv'
<1> DEFINE f == Top(t)
           list == handlers[f.ev]
           n == Len(f.todo)
           g == [f EXCEPT !.todo = Append(f.todo, list[n + 1])]
<1>1. TypeOK /\ pc[t] = "copy" /\ stack[t] # <<>>
  BY DEF IInv, TypeOK, PublishCopy
<1>2. f \in Frames /\ f.ev \in Types /\ f.todo \in Seq(Ids) /\ f.rest \in Seq(Types)
  BY <1>1, TopFacts
<1>3. n \in Nat /\ n < Len(list) /\ SetTop(t, g) /\ UNCHANGED <<handlers, nextId, mutex, queue, pc, drawn>>
  BY <1>2, LenProperties DEF PublishCopy
<1>4. list \in Seq(Ids) /\ Len(list) \in Nat /\ list[n + 1] \in Ids
  <2>1. list \in Seq(Ids) /\ Len(list) \in Nat
    BY <1>1, <1>2, ListFacts
  <2> QED BY <1>3, <2>1, ElementOfSeq
<1>5. /\ Append(f.todo, list[n + 1]) \in Seq(Ids) /\ Len(Append(f.todo, list[n + 1])) = n + 1
      /\ \A i \in 1..n : Append(f.todo, list[n + 1])[i] = f.todo[i]
      /\ Append(f.todo, list[n + 1])[n + 1] = list[n + 1]
  BY <1>2, <1>4, AppendProperties
<1>6. g \in Frames /\ g.ev = f.ev /\ g.todo = Append(f.todo, list[n + 1])
  BY <1>2, <1>5 DEF Frames
<1>7. \A i \in 1..n : f.todo[i] = list[i]
  BY <1>1 DEF IInv, CopyInv
<1>8. /\ stack' \in [Threads -> Seq(Frames)] /\ stack'[t] # <<>> /\ Head(stack'[t]) = g
      /\ \A u \in Threads : u # t => stack'[u] = stack[u]
  <2> HIDE DEF g
  <2> QED BY <1>1, <1>3, <1>6, SetTopFacts
<1>9. TypeOK'
  BY <1>1, <1>3, <1>8 DEF TypeOK
<1>10. LockInv' /\ DrawnInv' /\ IdsIdentify'
  BY <1>3 DEF IInv, LockInv, DrawnInv, IdsIdentify, Strictly
<1>11. BatchInv'
  BY <1>1, <1>3, <1>8 DEF IInv, BatchInv, Top
<1>12. CopyInv'
  <2> SUFFICES ASSUME NEW u \in Threads, pc[u] = "copy"
               PROVE  /\ Len(Top(u)'.todo) <= Len(handlers[Top(u)'.ev])
                      /\ \A i \in 1..Len(Top(u)'.todo) :
                           Top(u)'.todo[i] = handlers[Top(u)'.ev][i]
    BY <1>3 DEF CopyInv
  <2>1. CASE u # t
    <3>1. Top(u)' = Top(u)
      BY <1>8, <2>1 DEF Top
    <3> QED BY <3>1 DEF IInv, CopyInv
  <2>2. CASE u = t
    <3>1. Top(t)' = g
      BY <1>8 DEF Top
    <3>2. Len(g.todo) = n + 1 /\ \A i \in 1..(n + 1) : g.todo[i] = list[i]
      BY <1>3, <1>5, <1>6, <1>7
    <3>3. handlers[g.ev] = list /\ n + 1 <= Len(list)
      BY <1>3, <1>4, <1>6
    <3> HIDE DEF g, f, list, n
    <3> QED BY <2>2, <3>1, <3>2, <3>3
  <2> QED BY <2>1, <2>2
<1> QED BY <1>9, <1>10, <1>11, <1>12 DEF IInv

(* publish() has copied the list and gives the lock up. *)
LEMMA PublishUnlockStep ==
  ASSUME IInv, NEW t \in Threads, PublishUnlock(t)
  PROVE  IInv'
<1>1. /\ TypeOK /\ LockInv /\ pc[t] = "copy" /\ mutex' = NoThread
      /\ pc' = [pc EXCEPT ![t] = "loop"] /\ UNCHANGED <<handlers, nextId, queue, drawn, stack>>
  BY DEF IInv, PublishUnlock, Unlocks, Goto
<1>2. \A u \in Threads : pc'[u] \notin {"add", "copy"}
  <2>1. \A u \in Threads : u # t => pc[u] \notin {"add", "copy"}
    BY <1>1 DEF LockInv
  <2> QED BY <1>1, <2>1 DEF TypeOK
<1>3. TypeOK'
  BY <1>1, <1>2 DEF TypeOK, Places
<1>4. LockInv' /\ DrawnInv' /\ CopyInv'
  BY <1>1, <1>2, EventAssumption DEF LockInv, DrawnInv, CopyInv
<1>5. BatchInv'
  BY <1>1 DEF IInv, BatchInv, Top, TypeOK
<1>6. IdsIdentify'
  BY <1>1 DEF IInv, IdsIdentify, Strictly
<1> QED BY <1>3, <1>4, <1>5, <1>6 DEF IInv

(* The steps that a thread makes without the lock. *)
LEMMA CallHandlerStep ==
  ASSUME IInv, NEW t \in Threads, CallHandler(t)
  PROVE  IInv'
<1> DEFINE g == [Top(t) EXCEPT !.todo = Tail(@)]
<1>1. /\ TypeOK /\ pc[t] = "loop" /\ stack[t] # <<>> /\ Top(t).todo # <<>> /\ SetTop(t, g)
      /\ pc' = [pc EXCEPT ![t] = "user"] /\ UNCHANGED <<handlers, nextId, mutex, queue, drawn>>
  BY DEF IInv, TypeOK, CallHandler, Goto
<1>2. g \in Frames
  <2>1. Top(t) \in Frames /\ Top(t).todo \in Seq(Ids)
    BY <1>1, TopFacts
  <2>2. Tail(Top(t).todo) \in Seq(Ids)
    BY <1>1, <2>1, HeadTailProperties
  <2> QED BY <2>1, <2>2 DEF Frames
<1>3. /\ stack' \in [Threads -> Seq(Frames)]
      /\ \A u \in Threads : u # t => stack'[u] = stack[u]
  <2> HIDE DEF g
  <2> QED BY <1>1, <1>2, SetTopFacts
<1>4. \A u \in Threads : pc'[u] = IF u = t THEN "user" ELSE pc[u]
  BY <1>1 DEF TypeOK
<1>5. TypeOK'
  BY <1>1, <1>3, <1>4 DEF TypeOK, Places
<1>6. BatchInv'
  BY <1>3, <1>4 DEF IInv, BatchInv, Top
<1>7. LockInv' /\ DrawnInv' /\ CopyInv' /\ IdsIdentify'
  BY <1>1, <1>3, <1>4, OutsideKeeps
<1> QED BY <1>5, <1>6, <1>7 DEF IInv

LEMMA HandlerReturnsStep ==
  ASSUME IInv, NEW t \in Threads, HandlerReturns(t)
  PROVE  IInv'
<1>1. /\ TypeOK /\ pc[t] = "user" /\ stack[t] # <<>>
      /\ pc' = [pc EXCEPT ![t] = "loop"] /\ UNCHANGED <<handlers, nextId, mutex, queue, drawn, stack>>
  BY DEF IInv, HandlerReturns, Goto
<1>2. \A u \in Threads : pc'[u] = IF u = t THEN "loop" ELSE pc[u]
  BY <1>1 DEF TypeOK
<1>3. TypeOK'
  BY <1>1, <1>2 DEF TypeOK, Places
<1>4. BatchInv'
  BY <1>1, <1>2 DEF IInv, BatchInv, Top
<1>5. LockInv' /\ DrawnInv' /\ CopyInv' /\ IdsIdentify'
  BY <1>1, <1>2, OutsideKeeps
<1> QED BY <1>3, <1>4, <1>5 DEF IInv

(* publish() is left, by a return or by an exception: back to the caller,  *)
(* or to a processQueue() that still has events.                           *)
LEMMA LeaveFacts ==
  ASSUME IInv, NEW t \in Threads, stack[t] # <<>>, LeavesPublish(t),
         mutex' \in {mutex, NoThread}, UNCHANGED <<handlers, nextId, queue, drawn>>
  PROVE  /\ TypeOK' /\ BatchInv' /\ pc'[t] \in {"user", "batch"}
         /\ \A u \in Threads : u # t => pc'[u] = pc[u] /\ stack'[u] = stack[u]
<1>1. TypeOK /\ stack[t] # <<>> /\ UNCHANGED <<handlers, nextId, queue, drawn>>
      /\ mutex' \in Threads \cup {NoThread}
  BY DEF IInv, TypeOK
<1>2. CASE stack' = [stack EXCEPT ![t] = Tail(@)] /\ pc' = [pc EXCEPT ![t] = "user"]
  <2>1. /\ stack' \in [Threads -> Seq(Frames)]
        /\ \A u \in Threads : u # t => stack'[u] = stack[u]
    BY <1>1, <1>2, PopFacts
  <2>2. \A u \in Threads : pc'[u] = IF u = t THEN "user" ELSE pc[u]
    BY <1>1, <1>2 DEF TypeOK
  <2>3. TypeOK'
    BY <1>1, <1>2, <2>1, <2>2 DEF TypeOK, Places
  <2>4. BatchInv'
    BY <2>1, <2>2 DEF IInv, BatchInv, Top
  <2> QED BY <2>1, <2>2, <2>3, <2>4
<1>3. CASE Top(t).rest # <<>> /\ UNCHANGED stack /\ pc' = [pc EXCEPT ![t] = "batch"]
  <2>1. \A u \in Threads : pc'[u] = IF u = t THEN "batch" ELSE pc[u]
    BY <1>1, <1>3 DEF TypeOK
  <2>2. TypeOK'
    BY <1>1, <1>3, <2>1 DEF TypeOK, Places
  <2>3. BatchInv'
    BY <1>3, <2>1 DEF IInv, BatchInv, Top
  <2> QED BY <1>3, <2>1, <2>2, <2>3
<1> QED BY <1>2, <1>3 DEF LeavesPublish, Goto

(* A return is one of the two ways out as well. *)
LEMMA ReturnLeaves ==
  ASSUME NEW t \in Threads, PublishReturns(t)
  PROVE  LeavesPublish(t)
BY DEF PublishReturns, LeavesPublish

LEMMA LeaveStep ==
  ASSUME IInv, NEW t \in Threads, HandlerThrows(t) \/ PublishReturns(t)
  PROVE  IInv'
<1>1. /\ pc[t] \in {"user", "loop"} /\ stack[t] # <<>> /\ LeavesPublish(t)
      /\ UNCHANGED <<handlers, nextId, mutex, queue, drawn>>
  <2>1. pc[t] \in {"user", "loop"} /\ stack[t] # <<>>
        /\ UNCHANGED <<handlers, nextId, mutex, queue, drawn>>
    BY DEF IInv, TypeOK, HandlerThrows, PublishReturns
  <2>2. LeavesPublish(t)
    BY ReturnLeaves DEF HandlerThrows
  <2> QED BY <2>1, <2>2
<1>2. /\ TypeOK' /\ BatchInv' /\ pc'[t] \in {"user", "batch"}
      /\ \A u \in Threads : u # t => pc'[u] = pc[u] /\ stack'[u] = stack[u]
  BY <1>1, LeaveFacts
<1>3. LockInv' /\ DrawnInv' /\ CopyInv' /\ IdsIdentify'
  BY <1>1, <1>2, OutsideKeeps
<1> QED BY <1>2, <1>3 DEF IInv

LEMMA PublishCopyThrowsStep ==
  ASSUME IInv, NEW t \in Threads, PublishCopyThrows(t)
  PROVE  IInv'
<1>1. /\ pc[t] = "copy" /\ stack[t] # <<>> /\ LeavesPublish(t) /\ mutex' = NoThread
      /\ UNCHANGED <<handlers, nextId, queue, drawn>>
  BY DEF IInv, TypeOK, PublishCopyThrows, Unlocks
<1>2. /\ TypeOK' /\ BatchInv' /\ pc'[t] \in {"user", "batch"}
      /\ \A u \in Threads : u # t => pc'[u] = pc[u] /\ stack'[u] = stack[u]
  BY <1>1, LeaveFacts
<1>3. LockInv' /\ DrawnInv' /\ CopyInv' /\ IdsIdentify'
  BY <1>1, <1>2, UnlockKeeps
<1> QED BY <1>2, <1>3 DEF IInv

LEMMA QueueEventStep ==
  ASSUME IInv, NEW t \in Threads, NEW e \in Types, QueueEvent(t, e)
  PROVE  IInv'
<1>1. /\ TypeOK /\ queue' = Append(queue, e)
      /\ UNCHANGED <<handlers, nextId, mutex, pc, drawn, stack>>
  BY DEF IInv, QueueEvent
<1>2. queue' \in Seq(Types)
  BY <1>1, AppendProperties DEF TypeOK
<1>3. TypeOK'
  BY <1>1, <1>2 DEF TypeOK
<1> QED
  BY <1>1, <1>3 DEF IInv, LockInv, BatchInv, DrawnInv, CopyInv, IdsIdentify, Strictly, Top

LEMMA ProcessQueueStep ==
  ASSUME IInv, NEW t \in Threads, ProcessQueue(t)
  PROVE  IInv'
<1>1. /\ TypeOK /\ pc[t] = "user" /\ pc' = [pc EXCEPT ![t] = "batch"]
      /\ UNCHANGED <<handlers, nextId, mutex, drawn>>
  BY DEF IInv, ProcessQueue, Goto
<1> PICK n \in 1..Len(queue) : /\ Push(t, Frame(queue[1], <<>>, SubSeq(queue, 1, n)))
                               /\ queue' = SubSeq(queue, n + 1, Len(queue))
  BY DEF ProcessQueue
<1>2. queue \in Seq(Types) /\ Len(queue) \in Nat /\ n \in Nat /\ n >= 1 /\ n <= Len(queue)
  BY <1>1, LenProperties DEF TypeOK
<1>3. queue[1] \in Types
  BY <1>2, ElementOfSeq
<1> DEFINE rest == SubSeq(queue, 1, n)
<1>4. rest \in Seq(Types) /\ rest # <<>>
  <2>1. \A i \in 1..n : queue[i] \in Types
    BY <1>2, ElementOfSeq
  <2>2. rest \in Seq(Types) /\ Len(rest) = n
    BY <1>2, <2>1, SubSeqProperties
  <2> QED BY <1>2, <2>2, EmptySeq
<1>5. queue' \in Seq(Types)
  <2>1. \A i \in (n + 1)..Len(queue) : queue[i] \in Types
    BY <1>2, ElementOfSeq
  <2> QED BY <1>2, <2>1, SubSeqProperties
<1> DEFINE f == Frame(queue[1], <<>>, rest)
<1>6. f \in Frames /\ f.rest = rest
  <2>1. <<>> \in Seq(Ids)
    BY EmptySeq
  <2> HIDE DEF rest
  <2> QED BY <1>3, <1>4, <2>1 DEF Frame, Frames
<1>7. /\ stack' \in [Threads -> Seq(Frames)] /\ stack'[t] # <<>> /\ Head(stack'[t]) = f
      /\ \A u \in Threads : u # t => stack'[u] = stack[u]
  <2>1. Push(t, f)
    OBVIOUS
  <2> HIDE DEF f
  <2> QED BY <1>1, <1>6, <2>1, PushFacts
<1> HIDE DEF f, rest
<1>8. \A u \in Threads : pc'[u] = IF u = t THEN "batch" ELSE pc[u]
  BY <1>1 DEF TypeOK
<1>9. TypeOK'
  BY <1>1, <1>5, <1>7, <1>8 DEF TypeOK, Places
<1>10. BatchInv'
  BY <1>4, <1>6, <1>7, <1>8 DEF IInv, BatchInv, Top
<1>11. LockInv' /\ DrawnInv' /\ CopyInv' /\ IdsIdentify'
  BY <1>1, <1>7, <1>8, OutsideKeeps
<1> QED BY <1>9, <1>10, <1>11 DEF IInv

---------------------------------------------------------------------------
LEMMA NextIInv == IInv /\ [Next]_vars => IInv'
<1> SUFFICES ASSUME IInv, [Next]_vars PROVE IInv'
  OBVIOUS
<1>1. CASE UNCHANGED vars
  BY <1>1 DEF vars, IInv, TypeOK, LockInv, BatchInv, DrawnInv, CopyInv, IdsIdentify, Strictly, Top
<1>2. CASE Next
  <2> PICK t \in Threads :
        \/ \E e \in Types : SubscribeEnter(t, e) \/ PublishEnter(t, e) \/ QueueEvent(t, e)
        \/ \E id \in Ids : Unsubscribe(t, id)
        \/ SubscribeAdd(t) \/ SubscribeThrows(t) \/ Clear(t)
        \/ PublishCopy(t) \/ PublishCopyThrows(t) \/ PublishUnlock(t)
        \/ CallHandler(t) \/ HandlerReturns(t) \/ HandlerThrows(t) \/ PublishReturns(t)
        \/ ProcessQueue(t) \/ PublishNext(t)
    BY <1>2 DEF Next
  <2> QED BY SubscribeEnterStep, SubscribeAddStep, SubscribeThrowsStep, UnsubscribeStep,
             PublishStartStep, PublishCopyStep, PublishCopyThrowsStep, PublishUnlockStep, CallHandlerStep, HandlerReturnsStep,
             LeaveStep, QueueEventStep, ProcessQueueStep
<1> QED BY <1>1, <1>2

LEMMA SpecIInv == Spec => []IInv
BY InitIInv, NextIInv, PTL DEF Spec

(* Type correctness: what a thread copies, calls or goes on with is a      *)
(* publish() it is in.                                                     *)
THEOREM TypeCorrect == Spec => []TypeOK
<1>1. IInv => TypeOK
  BY DEF IInv
<1> QED BY <1>1, SpecIInv, PTL

(* Ids identify subscriptions and lists are in the order of subscription,  *)
(* for any number of threads that subscribe, unsubscribe and clear.        *)
THEOREM IdsStayUnique == Spec => []IdsIdentify
<1>1. IInv => IdsIdentify
  BY DEF IInv
<1> QED BY <1>1, SpecIInv, PTL

(* No handler runs under the lock, nor does any code of the caller.        *)
THEOREM HandlersRunUnlocked == Spec => []NoLockInHandler
<1>1. IInv => NoLockInHandler
  BY DEF IInv, LockInv, NoLockInHandler
<1> QED BY <1>1, SpecIInv, PTL

---------------------------------------------------------------------------
(* EventManager implements EventBus.                                       *)

(* The publish() calls of a thread that callers see, and what they see of  *)
(* one, and of those around it, which are inside a handler.                *)
Shown(t) == IF pc[t] \in {"copy", "batch"} THEN Tail(stack[t]) ELSE stack[t]
Seen(f, inside) == [todo |-> f.todo, inside |-> inside]
Outer(s) == [i \in DOMAIN s |-> Seen(s[i], TRUE)]
CallRecords == [todo : Seq(Ids), inside : BOOLEAN]

(* The variables of the bus. *)
Issued == (1..(nextId - 1)) \ {drawn[t][2] : t \in {u \in Threads : pc[u] = "add"}}
Called == [t \in Threads |-> Calls(t)]

LEMMA OuterFacts ==
  ASSUME NEW s \in Seq(Frames)
  PROVE  /\ Outer(s) \in Seq(CallRecords) /\ Len(Outer(s)) = Len(s)
         /\ \A i \in 1..Len(s) : Outer(s)[i] = Seen(s[i], TRUE)
<1>1. Len(s) \in Nat /\ DOMAIN s = 1..Len(s)
  BY LenProperties
<1>2. \A i \in 1..Len(s) : Seen(s[i], TRUE) \in CallRecords
  <2>1. \A i \in 1..Len(s) : s[i] \in Frames
    BY ElementOfSeq
  <2> QED BY <2>1 DEF Seen, Frames, CallRecords
<1>3. Outer(s) \in [1..Len(s) -> CallRecords]
  BY <1>1, <1>2 DEF Outer
<1>4. Outer(s) \in Seq(CallRecords)
  BY <1>1, <1>3, SeqDef
<1>5. Len(Outer(s)) = Len(s)
  BY <1>1, <1>3, <1>4, LenProperties
<1> QED BY <1>1, <1>4, <1>5 DEF Outer

(* The innermost call in front of the others. *)
LEMMA CallsFacts ==
  ASSUME TypeOK, NEW t \in Threads
  PROVE  /\ Shown(t) \in Seq(Frames)
         /\ pc[t] # "loop" => Calls(t) = Outer(Shown(t))
         /\ pc[t] = "loop" => Calls(t) = <<Seen(Top(t), FALSE)>> \o Outer(Tail(stack[t]))
<1>1. stack[t] \in Seq(Frames) /\ (pc[t] \in {"copy", "batch", "loop"} => stack[t] # <<>>)
  BY DEF TypeOK
<1>2. Shown(t) \in Seq(Frames)
  BY <1>1, HeadTailProperties DEF Shown
<1>3. Calls(t) = [i \in DOMAIN Shown(t) |->
                    [todo |-> Shown(t)[i].todo, inside |-> i > 1 \/ pc[t] # "loop"]]
  BY DEF Calls, Shown
<1>4. ASSUME pc[t] # "loop" PROVE Calls(t) = Outer(Shown(t))
  <2>1. \A i \in DOMAIN Shown(t) : (i > 1 \/ pc[t] # "loop") = TRUE
    BY <1>4
  <2> QED BY <1>3, <2>1 DEF Outer, Seen
<1>5. ASSUME pc[t] = "loop"
      PROVE  Calls(t) = <<Seen(Top(t), FALSE)>> \o Outer(Tail(stack[t]))
  <2> DEFINE s == Tail(stack[t])
             c == <<Seen(Top(t), FALSE)>> \o Outer(s)
  <2>1. stack[t] # <<>> /\ Shown(t) = stack[t] /\ Len(stack[t]) \in Nat /\ DOMAIN stack[t] = 1..Len(stack[t])
    BY <1>1, <1>5, LenProperties DEF Shown
  <2>2. s \in Seq(Frames) /\ Len(s) = Len(stack[t]) - 1 /\ \A i \in 1..Len(s) : s[i] = stack[t][i + 1]
    BY <1>1, <2>1, HeadTailProperties
  <2>3. Top(t) = stack[t][1]
    BY <1>1, <2>1 DEF Top
  <2>4. Seen(Top(t), FALSE) \in CallRecords
    BY <2>1, TopFacts DEF Seen, CallRecords
  <2> HIDE DEF s
  <2>5. Outer(s) \in Seq(CallRecords) /\ Len(Outer(s)) = Len(s)
        /\ \A i \in 1..Len(s) : Outer(s)[i] = Seen(s[i], TRUE)
    BY <2>2, OuterFacts
  <2>6. /\ c \in Seq(CallRecords) /\ Len(c) = Len(s) + 1 /\ c[1] = Seen(Top(t), FALSE)
        /\ \A i \in 1..Len(s) : c[i + 1] = Outer(s)[i]
    <3> DEFINE x == Seen(Top(t), FALSE)
               o == Outer(s)
    <3>1. x \in CallRecords /\ o \in Seq(CallRecords)
      BY <2>4, <2>5
    <3> HIDE DEF x, o
    <3>2. /\ <<x>> \o o \in Seq(CallRecords) /\ Len(<<x>> \o o) = Len(o) + 1
          /\ (<<x>> \o o)[1] = x /\ \A i \in 1..Len(o) : (<<x>> \o o)[i + 1] = o[i]
      BY <3>1, ConsFacts
    <3> QED BY <2>5, <3>2 DEF x, o
  <2>7. c = [i \in 1..Len(c) |-> c[i]]
    BY <2>6, LenProperties
  <2>8. Len(c) = Len(stack[t])
    BY <2>1, <2>2, <2>6
  <2> HIDE DEF c
  <2>9. ASSUME NEW i \in 1..Len(stack[t])
        PROVE  c[i] = [todo |-> stack[t][i].todo, inside |-> i > 1 \/ pc[t] # "loop"]
    <3>1. CASE i = 1
      <4>1. (i > 1 \/ pc[t] # "loop") = FALSE
        BY <1>5, <3>1
      <4> QED BY <2>3, <2>6, <3>1, <4>1 DEF Seen
    <3>2. CASE i # 1
      <4>1. i - 1 \in 1..Len(s) /\ (i - 1) + 1 = i
        BY <2>1, <2>2, <3>2
      <4>2. c[i] = Seen(stack[t][i], TRUE)
        <5>1. PICK j \in 1..Len(s) : j + 1 = i
          BY <4>1
        <5>2. c[j + 1] = Seen(s[j], TRUE) /\ s[j] = stack[t][j + 1]
          BY <2>2, <2>5, <2>6
        <5> QED BY <5>1, <5>2
      <4>3. (i > 1 \/ pc[t] # "loop") = TRUE
        BY <2>1, <3>2
      <4> QED BY <4>2, <4>3 DEF Seen
    <3> QED BY <3>1, <3>2
  <2>10. c = [i \in DOMAIN stack[t] |->
                [todo |-> stack[t][i].todo, inside |-> i > 1 \/ pc[t] # "loop"]]
    BY <2>1, <2>7, <2>8, <2>9
  <2>11. Calls(t) = c
    BY <1>3, <2>1, <2>10
  <2> QED BY <2>11 DEF c, s
<1> QED BY <1>2, <1>4, <1>5

(* What a step of one thread leaves of the others. *)
LEMMA OthersSame ==
  ASSUME NEW t \in Threads, NEW c, Calls(t)' = c,
         \A u \in Threads : u # t => pc'[u] = pc[u] /\ stack'[u] = stack[u]
  PROVE  Called' = [Called EXCEPT ![t] = c]
<1>1. \A u \in Threads : u # t => Calls(u)' = Calls(u)
  BY DEF Calls
<1> QED BY <1>1 DEF Called

LEMMA IssuedSame ==
  ASSUME UNCHANGED <<nextId, drawn>>, NEW t \in Threads,
         \A u \in Threads : pc'[u] = "add" <=> pc[u] = "add"
  PROVE  Issued' = Issued
BY DEF Issued

LEMMA BusInit == Init => Bus!Init
<1> SUFFICES ASSUME Init PROVE Bus!Init
  OBVIOUS
<1>1. Issued = {}
  BY DEF Init, Issued
<1>2. Called = [t \in Threads |-> <<>>]
  <2>1. \A t \in Threads : Calls(t) = <<>>
    <3> SUFFICES ASSUME NEW t \in Threads PROVE Calls(t) = <<>>
      OBVIOUS
    <3>1. TypeOK
      BY InitIInv DEF IInv
    <3>2. Calls(t) = Outer(<<>>)
      BY <3>1, CallsFacts DEF Init, Shown
    <3>3. <<>> \in Seq(Frames) /\ Len(<<>>) = 0
      BY EmptySeq
    <3>4. Outer(<<>>) \in Seq(CallRecords) /\ Len(Outer(<<>>)) = 0
      BY <3>3, OuterFacts
    <3>5. Outer(<<>>) = <<>>
      BY <3>4, EmptySeq
    <3> QED BY <3>2, <3>5
  <2> QED BY <2>1 DEF Called
<1> QED BY <1>1, <1>2 DEF Init, Bus!Init, Issued, Called

(* CallsFacts after a step. *)
CallsInv ==
  \A t \in Threads :
    /\ Shown(t) \in Seq(Frames)
    /\ pc[t] # "loop" => Calls(t) = Outer(Shown(t))
    /\ pc[t] = "loop" => Calls(t) = <<Seen(Top(t), FALSE)>> \o Outer(Tail(stack[t]))

LEMMA CallsHold == TypeOK => CallsInv
BY CallsFacts DEF CallsInv

LEMMA CallsHoldNext == TypeOK' => CallsInv'
BY CallsHold, PTL

(* Steps that callers do not see. *)
BusSame == UNCHANGED <<handlers, Issued, Called>>

LEMMA CalledSame ==
  ASSUME IInv, IInv', NEW t \in Threads,
         pc[t] # "loop", pc'[t] # "loop", Shown(t)' = Shown(t),
         \A u \in Threads : u # t => pc'[u] = pc[u] /\ stack'[u] = stack[u]
  PROVE  Called' = Called
<1>1. CallsInv /\ CallsInv'
  BY CallsHold, CallsHoldNext DEF IInv
<1>2. Calls(t)' = Calls(t)
  BY <1>1 DEF CallsInv, Outer
<1>3. Called' = [Called EXCEPT ![t] = Calls(t)]
  BY <1>2, OthersSame
<1> QED BY <1>3 DEF Called

LEMMA HiddenStep ==
  ASSUME IInv, IInv', NEW t \in Threads, UNCHANGED handlers, Issued' = Issued,
         pc[t] # "loop", pc'[t] # "loop", Shown(t)' = Shown(t),
         \A u \in Threads : u # t => pc'[u] = pc[u] /\ stack'[u] = stack[u]
  PROVE  BusSame
BY CalledSame DEF BusSame

(* The lock, and steps of subscribe() and publish() under it. *)
LEMMA SubscribeEnterHidden ==
  ASSUME IInv, IInv', NEW t \in Threads, NEW e \in Types, SubscribeEnter(t, e)
  PROVE  BusSame
<1>1. /\ TypeOK /\ LockInv /\ mutex = NoThread /\ pc[t] = "user" /\ nextId' = nextId + 1
      /\ pc' = [pc EXCEPT ![t] = "add"] /\ drawn' = [drawn EXCEPT ![t] = <<e, nextId>>]
      /\ UNCHANGED <<handlers, stack>>
  BY DEF IInv, SubscribeEnter, Locks, Goto
<1>2. \A u \in Threads : pc[u] # "add"
  BY <1>1, EventAssumption DEF LockInv
<1>3. \A u \in Threads : pc'[u] = IF u = t THEN "add" ELSE pc[u]
  BY <1>1 DEF TypeOK
<1>4. {u \in Threads : pc[u] = "add"} = {} /\ {u \in Threads : pc'[u] = "add"} = {t}
  BY <1>2, <1>3
<1>5. drawn'[t][2] = nextId /\ nextId \in Nat
  BY <1>1, EventAssumption DEF TypeOK
<1>6. Issued' = Issued
  <2>1. Issued = 1..(nextId - 1)
    BY <1>4 DEF Issued
  <2>2. Issued' = (1..(nextId' - 1)) \ {drawn'[t][2]}
    BY <1>4 DEF Issued
  <2> QED BY <1>1, <1>5, <2>1, <2>2
<1>7. Shown(t)' = Shown(t)
  BY <1>1, <1>3 DEF Shown
<1> QED BY <1>1, <1>3, <1>6, <1>7, HiddenStep

LEMMA StartsCopyHidden ==
  ASSUME IInv, IInv', NEW t \in Threads,
         (\E e \in Types : PublishEnter(t, e)) \/ PublishNext(t)
  PROVE  BusSame
<1>1. /\ TypeOK /\ pc[t] \in {"user", "batch"} /\ pc' = [pc EXCEPT ![t] = "copy"]
      /\ UNCHANGED <<handlers, nextId, drawn>>
  BY DEF IInv, PublishEnter, PublishNext, Goto
<1>2. /\ Tail(stack'[t]) = Shown(t)
      /\ \A u \in Threads : u # t => stack'[u] = stack[u]
  <2>1. ASSUME NEW e \in Types, PublishEnter(t, e)
        PROVE  /\ Tail(stack'[t]) = Shown(t)
               /\ \A u \in Threads : u # t => stack'[u] = stack[u]
    <3>1. Frame(e, <<>>, <<>>) \in Frames
      <4>1. <<>> \in Seq(Ids) /\ <<>> \in Seq(Types)
        BY EmptySeq
      <4> QED BY <4>1 DEF Frame, Frames
    <3> QED BY <1>1, <2>1, <3>1, PushFacts DEF PublishEnter, Shown
  <2>2. ASSUME PublishNext(t)
        PROVE  /\ Tail(stack'[t]) = Shown(t)
               /\ \A u \in Threads : u # t => stack'[u] = stack[u]
    <3>1. pc[t] = "batch" /\ stack[t] # <<>> /\ Top(t).rest # <<>>
      BY <1>1, <2>2 DEF IInv, BatchInv, TypeOK, PublishNext
    <3>2. Top(t).rest \in Seq(Types)
      BY <1>1, <3>1, TopFacts
    <3>3. Head(Top(t).rest) \in Types /\ Tail(Top(t).rest) \in Seq(Types)
      BY <3>1, <3>2, HeadTailProperties
    <3> DEFINE f == Frame(Head(Top(t).rest), <<>>, Tail(Top(t).rest))
    <3>4. f \in Frames
      <4>1. <<>> \in Seq(Ids)
        BY EmptySeq
      <4> QED BY <3>3, <4>1 DEF Frame, Frames
    <3>5. SetTop(t, f)
      BY <2>2 DEF PublishNext
    <3> HIDE DEF f
    <3> QED BY <1>1, <3>1, <3>4, <3>5, SetTopFacts DEF Shown
  <2> QED BY <2>1, <2>2
<1>3. \A u \in Threads : pc'[u] = IF u = t THEN "copy" ELSE pc[u]
  BY <1>1 DEF TypeOK
<1>4. Issued' = Issued
  BY <1>1, <1>3, IssuedSame
<1>5. Shown(t)' = Shown(t)
  BY <1>2, <1>3 DEF Shown
<1> QED BY <1>1, <1>2, <1>3, <1>4, <1>5, HiddenStep

LEMMA PublishCopyHidden ==
  ASSUME IInv, IInv', NEW t \in Threads, PublishCopy(t)
  PROVE  BusSame
<1>1. TypeOK /\ pc[t] = "copy" /\ UNCHANGED <<handlers, nextId, pc, drawn>>
  BY DEF IInv, PublishCopy
<1>2. Tail(stack'[t]) = Tail(stack[t]) /\ \A u \in Threads : u # t => stack'[u] = stack[u]
  <2> DEFINE x == handlers[Top(t).ev][Len(Top(t).todo) + 1]
             g == [Top(t) EXCEPT !.todo = Append(Top(t).todo, x)]
  <2>1. stack[t] # <<>> /\ Top(t) \in Frames /\ Top(t).ev \in Types /\ Top(t).todo \in Seq(Ids)
    BY <1>1, TopFacts DEF TypeOK
  <2>2. x \in Ids
    <3>1. Len(Top(t).todo) \in Nat /\ Len(Top(t).todo) < Len(handlers[Top(t).ev])
      BY <2>1, LenProperties DEF PublishCopy
    <3>2. handlers[Top(t).ev] \in Seq(Ids) /\ Len(handlers[Top(t).ev]) \in Nat
      BY <1>1, <2>1, ListFacts
    <3> QED BY <3>1, <3>2, ElementOfSeq
  <2>3. SetTop(t, g)
    BY DEF PublishCopy
  <2>4. Append(Top(t).todo, x) \in Seq(Ids)
    <3> HIDE DEF x
    <3> QED BY <2>1, <2>2, AppendProperties
  <2>5. g \in Frames
    <3> HIDE DEF x
    <3> QED BY <2>1, <2>4 DEF Frames
  <2> HIDE DEF g
  <2> QED BY <1>1, <2>1, <2>3, <2>5, SetTopFacts
<1>3. Issued' = Issued
  BY <1>1 DEF Issued
<1>4. Shown(t)' = Shown(t)
  BY <1>1, <1>2 DEF Shown
<1> QED BY <1>1, <1>2, <1>3, <1>4, HiddenStep

LEMMA ProcessQueueHidden ==
  ASSUME IInv, IInv', NEW t \in Threads, ProcessQueue(t)
  PROVE  BusSame
<1>1. /\ TypeOK /\ pc[t] = "user" /\ pc' = [pc EXCEPT ![t] = "batch"]
      /\ UNCHANGED <<handlers, nextId, drawn>>
  BY DEF IInv, ProcessQueue, Goto
<1>2. PICK n \in 1..Len(queue) :
        stack' = [stack EXCEPT ![t] = <<Frame(queue[1], <<>>, SubSeq(queue, 1, n))>> \o stack[t]]
  BY DEF ProcessQueue, Push
<1> DEFINE f == Frame(queue[1], <<>>, SubSeq(queue, 1, n))
<1>3. f \in Frames
  <2>1. queue \in Seq(Types) /\ Len(queue) \in Nat /\ n \in Nat /\ n >= 1 /\ n <= Len(queue)
    BY <1>1, LenProperties DEF TypeOK
  <2>2. \A i \in 1..n : queue[i] \in Types
    BY <2>1, ElementOfSeq
  <2>3. SubSeq(queue, 1, n) \in Seq(Types) /\ queue[1] \in Types
    BY <2>1, <2>2, SubSeqProperties
  <2>4. <<>> \in Seq(Ids)
    BY EmptySeq
  <2> QED BY <2>3, <2>4 DEF Frame, Frames
<1>4. Push(t, f)
  BY <1>2 DEF Push
<1> HIDE DEF f
<1>5. Tail(stack'[t]) = stack[t] /\ \A u \in Threads : u # t => stack'[u] = stack[u]
  BY <1>1, <1>3, <1>4, PushFacts
<1>6. \A u \in Threads : pc'[u] = IF u = t THEN "batch" ELSE pc[u]
  BY <1>1 DEF TypeOK
<1>7. Issued' = Issued
  BY <1>1, <1>6, IssuedSame
<1>8. Shown(t)' = Shown(t)
  BY <1>1, <1>5, <1>6 DEF Shown
<1> QED BY <1>1, <1>5, <1>6, <1>7, <1>8, HiddenStep

(* What the innermost call and the others are to the bus. *)
CalledRight(t) ==
  /\ Called[t] = Calls(t)
  /\ pc[t] = "loop" =>
       /\ Called[t] # <<>> /\ Head(Called[t]) = Seen(Top(t), FALSE)
       /\ Tail(Called[t]) = Outer(Tail(stack[t]))
  /\ pc[t] \in {"user", "add"} /\ stack[t] # <<>> =>
       /\ Called[t] = <<Seen(Top(t), TRUE)>> \o Outer(Tail(stack[t]))
       /\ Called[t] # <<>> /\ Head(Called[t]) = Seen(Top(t), TRUE)
       /\ Tail(Called[t]) = Outer(Tail(stack[t]))
  /\ pc[t] # "loop" => ~(Called[t] # <<>> /\ ~Head(Called[t]).inside)
CalledInv == \A t \in Threads : CalledRight(t)

LEMMA CalledFacts ==
  ASSUME IInv, NEW t \in Threads
  PROVE  CalledRight(t)
<1>1. TypeOK /\ CallsInv /\ Called[t] = Calls(t)
  BY CallsHold DEF IInv, Called
<1>2. ASSUME stack[t] # <<>>
      PROVE  /\ Seen(Top(t), FALSE) \in CallRecords /\ Seen(Top(t), TRUE) \in CallRecords
             /\ Outer(Tail(stack[t])) \in Seq(CallRecords)
  <2>1. Top(t).todo \in Seq(Ids) /\ Tail(stack[t]) \in Seq(Frames)
    BY <1>1, <1>2, TopFacts
  <2> QED BY <2>1, OuterFacts DEF Seen, CallRecords
<1>3. ASSUME pc[t] = "loop"
      PROVE  /\ Called[t] # <<>> /\ Head(Called[t]) = Seen(Top(t), FALSE)
             /\ Tail(Called[t]) = Outer(Tail(stack[t]))
  <2>1. stack[t] # <<>> /\ Calls(t) = <<Seen(Top(t), FALSE)>> \o Outer(Tail(stack[t]))
    BY <1>1, <1>3 DEF CallsInv, TypeOK
  <2> DEFINE x == Seen(Top(t), FALSE)
             o == Outer(Tail(stack[t]))
  <2>2. x \in CallRecords /\ o \in Seq(CallRecords) /\ Called[t] = <<x>> \o o
    BY <1>1, <1>2, <2>1
  <2> HIDE DEF x, o
  <2>3. Called[t] # <<>> /\ Head(Called[t]) = x /\ Tail(Called[t]) = o
    BY <2>2, ConsFacts
  <2> QED BY <2>3 DEF x, o
<1>4. ASSUME pc[t] \in {"user", "add"}, stack[t] # <<>>
      PROVE  Called[t] = <<Seen(Top(t), TRUE)>> \o Outer(Tail(stack[t]))
  <2> DEFINE s == Tail(stack[t])
             c == <<Seen(Top(t), TRUE)>> \o Outer(s)
  <2>1. stack[t] \in Seq(Frames) /\ s \in Seq(Frames) /\ Top(t) = stack[t][1]
    BY <1>1, <1>4, TopFacts DEF TypeOK, Top
  <2>2. Len(s) = Len(stack[t]) - 1 /\ Len(stack[t]) \in Nat /\ \A i \in 1..Len(s) : s[i] = stack[t][i + 1]
    BY <1>4, <2>1, HeadTailProperties, LenProperties
  <2> HIDE DEF s
  <2>3. /\ Outer(s) \in Seq(CallRecords) /\ Len(Outer(s)) = Len(s)
        /\ \A i \in 1..Len(s) : Outer(s)[i] = Seen(s[i], TRUE)
    BY <2>1, OuterFacts
  <2>4. /\ c \in Seq(CallRecords) /\ Len(c) = Len(s) + 1 /\ c[1] = Seen(Top(t), TRUE)
        /\ \A i \in 1..Len(s) : c[i + 1] = Outer(s)[i]
    <3> DEFINE x == Seen(Top(t), TRUE)
               o == Outer(s)
    <3>1. x \in CallRecords /\ o \in Seq(CallRecords)
      BY <1>2, <1>4, <2>3
    <3> HIDE DEF x, o
    <3>2. /\ <<x>> \o o \in Seq(CallRecords) /\ Len(<<x>> \o o) = Len(o) + 1
          /\ (<<x>> \o o)[1] = x /\ \A i \in 1..Len(o) : (<<x>> \o o)[i + 1] = o[i]
      BY <3>1, ConsFacts
    <3> QED BY <2>3, <3>2 DEF x, o
  <2> DEFINE d == Outer(stack[t])
  <2>5. /\ d \in Seq(CallRecords) /\ Len(d) = Len(stack[t])
        /\ \A i \in 1..Len(stack[t]) : d[i] = Seen(stack[t][i], TRUE)
    BY <2>1, OuterFacts
  <2>6. Called[t] = d
    BY <1>1, <1>4 DEF CallsInv, Shown
  <2> HIDE DEF c, d
  <2>7. Len(c) = Len(d)
    BY <2>2, <2>4, <2>5
  <2>8. ASSUME NEW i \in 1..Len(d) PROVE c[i] = d[i]
    <3>1. CASE i = 1
      BY <2>1, <2>4, <2>5, <3>1
    <3>2. CASE i # 1
      <4>1. i - 1 \in 1..Len(s) /\ (i - 1) + 1 = i
        BY <2>2, <2>5, <3>2
      <4>2. c[i] = Seen(s[i - 1], TRUE) /\ s[i - 1] = stack[t][i]
        BY <2>2, <2>3, <2>4, <4>1
      <4> QED BY <2>5, <4>2
    <3> QED BY <3>1, <3>2
  <2>9. c = d
    BY <2>4, <2>5, <2>7, <2>8, SeqEqual
  <2> QED BY <2>6, <2>9 DEF c, s
<1>5. ASSUME pc[t] \in {"user", "add"}, stack[t] # <<>>
      PROVE  /\ Called[t] # <<>> /\ Head(Called[t]) = Seen(Top(t), TRUE)
             /\ Tail(Called[t]) = Outer(Tail(stack[t]))
  <2> DEFINE x == Seen(Top(t), TRUE)
             o == Outer(Tail(stack[t]))
  <2>1. x \in CallRecords /\ o \in Seq(CallRecords) /\ Called[t] = <<x>> \o o
    BY <1>2, <1>4, <1>5
  <2> HIDE DEF x, o
  <2>2. Called[t] # <<>> /\ Head(Called[t]) = x /\ Tail(Called[t]) = o
    BY <2>1, ConsFacts
  <2> QED BY <2>2 DEF x, o
<1>6. ASSUME pc[t] # "loop", Called[t] # <<>> PROVE Head(Called[t]).inside
  <2>1. Shown(t) \in Seq(Frames) /\ Called[t] = Outer(Shown(t))
    BY <1>1, <1>6 DEF CallsInv
  <2>2. /\ Called[t] \in Seq(CallRecords) /\ Len(Called[t]) = Len(Shown(t))
        /\ \A i \in 1..Len(Shown(t)) : Called[t][i] = Seen(Shown(t)[i], TRUE)
    BY <2>1, OuterFacts
  <2>3. 1 \in 1..Len(Shown(t)) /\ Head(Called[t]) = Called[t][1]
    BY <1>6, <2>2, EmptySeq
  <2>4. Head(Called[t]) = Seen(Shown(t)[1], TRUE)
    BY <2>2, <2>3
  <2>5. Head(Called[t]).inside = TRUE
    BY <2>4 DEF Seen
  <2> QED BY <2>5
<1> QED BY <1>1, <1>3, <1>4, <1>5, <1>6 DEF CalledRight

LEMMA CalledHolds == IInv => CalledInv
BY CalledFacts DEF CalledInv

LEMMA CalledHoldsNext == IInv' => CalledInv'
BY CalledHolds, PTL

(* The steps that callers see. *)
LEMMA CallHandlerBus ==
  ASSUME IInv, IInv', NEW t \in Threads, CallHandler(t)
  PROVE  Bus!Call(t)
<1>1. /\ TypeOK /\ pc[t] = "loop" /\ stack[t] # <<>> /\ Top(t).todo # <<>>
      /\ pc' = [pc EXCEPT ![t] = "user"] /\ UNCHANGED <<handlers, nextId, drawn>>
  BY DEF IInv, TypeOK, CallHandler, Goto
<1>2. \A u \in Threads : pc'[u] = IF u = t THEN "user" ELSE pc[u]
  BY <1>1 DEF TypeOK
<1> DEFINE g == [Top(t) EXCEPT !.todo = Tail(Top(t).todo)]
<1>3. g \in Frames /\ g.todo = Tail(Top(t).todo)
  <2>1. Top(t) \in Frames /\ Tail(Top(t).todo) \in Seq(Ids)
    BY <1>1, TopFacts, HeadTailProperties
  <2> QED BY <2>1 DEF Frames
<1>4. SetTop(t, g)
  BY DEF CallHandler
<1> HIDE DEF g
<1>5. /\ stack'[t] # <<>> /\ Head(stack'[t]) = g /\ Tail(stack'[t]) = Tail(stack[t])
      /\ \A u \in Threads : u # t => stack'[u] = stack[u]
  BY <1>1, <1>3, <1>4, SetTopFacts
<1>6. /\ Called[t] # <<>> /\ Head(Called[t]) = Seen(Top(t), FALSE)
      /\ Tail(Called[t]) = Outer(Tail(stack[t]))
  BY <1>1, CalledHolds DEF CalledInv, CalledRight
<1>7. Calls(t)' = <<Seen(g, TRUE)>> \o Outer(Tail(stack[t]))
  BY <1>2, <1>5, CalledHoldsNext DEF CalledInv, CalledRight, Top, Seen, Outer
<1>8. Called' = [Called EXCEPT ![t] = <<[todo |-> Tail(Top(t).todo), inside |-> TRUE]>> \o Tail(Called[t])]
  <2>1. Called' = [Called EXCEPT ![t] = <<Seen(g, TRUE)>> \o Outer(Tail(stack[t]))]
    BY <1>2, <1>5, <1>7, OthersSame
  <2> QED BY <1>3, <1>6, <2>1 DEF Seen
<1>9. Issued' = Issued
  BY <1>1, <1>2, IssuedSame
<1>10. Head(Called[t]).todo = Top(t).todo /\ ~Head(Called[t]).inside
  <2>1. Head(Called[t]).inside = FALSE
    BY <1>6 DEF Seen
  <2> QED BY <1>6, <2>1 DEF Seen
<1> QED BY <1>1, <1>6, <1>8, <1>9, <1>10
        DEF Bus!Call, Bus!InLoop, Bus!Innermost, Bus!Replace, Called, Issued

LEMMA HandlerReturnsBus ==
  ASSUME IInv, IInv', NEW t \in Threads, HandlerReturns(t)
  PROVE  Bus!Return(t)
<1>1. /\ TypeOK /\ pc[t] = "user" /\ stack[t] # <<>>
      /\ pc' = [pc EXCEPT ![t] = "loop"] /\ UNCHANGED <<handlers, nextId, drawn, stack>>
  BY DEF IInv, HandlerReturns, Goto
<1>2. \A u \in Threads : pc'[u] = IF u = t THEN "loop" ELSE pc[u]
  BY <1>1 DEF TypeOK
<1>3. /\ Called[t] # <<>> /\ Head(Called[t]) = Seen(Top(t), TRUE)
      /\ Tail(Called[t]) = Outer(Tail(stack[t]))
  BY <1>1, CalledHolds DEF CalledInv, CalledRight
<1>4. Calls(t)' = <<Seen(Top(t), FALSE)>> \o Outer(Tail(stack[t]))
  BY <1>1, <1>2, CallsHoldNext DEF IInv, CallsInv, Top, Seen, Outer
<1>5. Called' = [Called EXCEPT ![t] = <<[Head(Called[t]) EXCEPT !.inside = FALSE]>> \o Tail(Called[t])]
  <2>1. Called' = [Called EXCEPT ![t] = <<Seen(Top(t), FALSE)>> \o Outer(Tail(stack[t]))]
    BY <1>1, <1>2, <1>4, OthersSame
  <2> DEFINE h == Head(Called[t])
  <2>2. h = [todo |-> Top(t).todo, inside |-> TRUE]
    BY <1>3 DEF Seen
  <2> HIDE DEF h
  <2>3. \A d, b, c : [[todo |-> d, inside |-> b] EXCEPT !.inside = c] = [todo |-> d, inside |-> c]
    OBVIOUS
  <2>4. [h EXCEPT !.inside = FALSE] = Seen(Top(t), FALSE)
    BY <2>2, <2>3, Zenon DEF Seen
  <2> QED BY <1>3, <2>1, <2>4 DEF h
<1>6. Issued' = Issued
  BY <1>1, <1>2, IssuedSame
<1>7. Head(Called[t]).inside
  <2>1. Head(Called[t]).inside = TRUE
    BY <1>3 DEF Seen
  <2> QED BY <2>1
<1> QED BY <1>1, <1>3, <1>5, <1>6, <1>7
        DEF Bus!Return, Bus!InHandler, Bus!Innermost, Bus!Replace, Called, Issued

(* A handler that throws, or all handlers called: the innermost call ends. *)
LEMMA LeaveCalls ==
  ASSUME IInv, IInv', NEW t \in Threads, HandlerThrows(t) \/ PublishReturns(t)
  PROVE  /\ Called[t] # <<>> /\ Called' = [Called EXCEPT ![t] = Tail(Called[t])]
         /\ pc[t] = "user" => Head(Called[t]) = Seen(Top(t), TRUE)
         /\ pc[t] = "loop" => Head(Called[t]) = Seen(Top(t), FALSE)
         /\ Issued' = Issued /\ UNCHANGED handlers
<1>1. /\ TypeOK /\ pc[t] \in {"user", "loop"} /\ stack[t] # <<>>
      /\ UNCHANGED <<handlers, nextId, drawn>>
  BY DEF IInv, TypeOK, HandlerThrows, PublishReturns
<1>2. \/ /\ stack' = [stack EXCEPT ![t] = Tail(stack[t])]
         /\ pc' = [pc EXCEPT ![t] = "user"]
      \/ stack' = stack /\ pc' = [pc EXCEPT ![t] = "batch"]
  BY DEF HandlerThrows, PublishReturns, LeavesPublish, Goto
<1>3. \A u \in Threads : u # t => pc'[u] = pc[u] /\ stack'[u] = stack[u]
  BY <1>1, <1>2 DEF TypeOK
<1>4. pc'[t] \in {"user", "batch"} /\ Shown(t)' = Tail(stack[t])
  BY <1>1, <1>2 DEF TypeOK, Shown
<1>5. /\ Called[t] # <<>> /\ Tail(Called[t]) = Outer(Tail(stack[t]))
      /\ pc[t] = "user" => Head(Called[t]) = Seen(Top(t), TRUE)
      /\ pc[t] = "loop" => Head(Called[t]) = Seen(Top(t), FALSE)
  BY <1>1, CalledHolds DEF CalledInv, CalledRight
<1>6. Calls(t)' = Outer(Tail(stack[t]))
  BY <1>4, CallsHoldNext DEF IInv, CallsInv, Outer
<1>7. Called' = [Called EXCEPT ![t] = Tail(Called[t])]
  BY <1>3, <1>5, <1>6, OthersSame
<1>8. Issued' = Issued
  BY <1>1, <1>3, <1>4, IssuedSame
<1> QED BY <1>1, <1>5, <1>7, <1>8

LEMMA HandlerThrowsBus ==
  ASSUME IInv, IInv', NEW t \in Threads, HandlerThrows(t)
  PROVE  Bus!Throw(t)
<1>1. Head(Called[t]).inside
  <2>1. pc[t] = "user"
    BY DEF HandlerThrows
  <2>2. Head(Called[t]) = Seen(Top(t), TRUE)
    BY <2>1, LeaveCalls
  <2>3. Head(Called[t]).inside = TRUE
    BY <2>2 DEF Seen
  <2> QED BY <2>3
<1> QED BY <1>1, LeaveCalls
        DEF Bus!Throw, Bus!InHandler, Bus!Innermost, Bus!Leave, Called, Issued

LEMMA PublishReturnsBus ==
  ASSUME IInv, IInv', NEW t \in Threads, PublishReturns(t)
  PROVE  Bus!Finish(t)
<1>1. ~Head(Called[t]).inside /\ Head(Called[t]).todo = <<>>
  <2>1. pc[t] = "loop" /\ Top(t).todo = <<>>
    BY DEF PublishReturns
  <2>2. Head(Called[t]) = Seen(Top(t), FALSE)
    BY <2>1, LeaveCalls
  <2>3. Head(Called[t]).inside = FALSE /\ Head(Called[t]).todo = <<>>
    BY <2>1, <2>2 DEF Seen
  <2> QED BY <2>3
<1> QED BY <1>1, LeaveCalls
        DEF Bus!Finish, Bus!InLoop, Bus!Innermost, Bus!Leave, Called, Issued

(* The moment of a publish() is its unlock: by then the copy is the list. *)
LEMMA PublishUnlockBus ==
  ASSUME IInv, IInv', NEW t \in Threads, PublishUnlock(t)
  PROVE  \E e \in Types : Bus!Publish(t, e)
<1>1. /\ TypeOK /\ pc[t] = "copy" /\ stack[t] # <<>>
      /\ pc' = [pc EXCEPT ![t] = "loop"] /\ UNCHANGED <<handlers, nextId, drawn, stack>>
  BY DEF IInv, TypeOK, PublishUnlock, Goto
<1>2. \A u \in Threads : pc'[u] = IF u = t THEN "loop" ELSE pc[u]
  BY <1>1 DEF TypeOK
<1>3. Top(t).ev \in Types /\ Top(t).todo = handlers[Top(t).ev]
  <2>1. Top(t).ev \in Types /\ Top(t).todo \in Seq(Ids) /\ handlers[Top(t).ev] \in Seq(Ids)
    BY <1>1, TopFacts DEF TypeOK
  <2>2. Len(Top(t).todo) \in Nat /\ Len(handlers[Top(t).ev]) \in Nat
    BY <2>1, LenProperties
  <2>3. Len(Top(t).todo) = Len(handlers[Top(t).ev])
    BY <1>1, <2>2 DEF IInv, CopyInv, PublishUnlock
  <2>4. \A i \in 1..Len(Top(t).todo) : Top(t).todo[i] = handlers[Top(t).ev][i]
    BY <1>1 DEF IInv, CopyInv
  <2> QED BY <2>1, <2>3, <2>4, SeqEqual
<1>4. Called[t] = Outer(Tail(stack[t])) /\ ~(Called[t] # <<>> /\ ~Head(Called[t]).inside)
  BY <1>1, CallsHold, CalledHolds DEF CallsInv, CalledInv, CalledRight, Shown
<1>5. Calls(t)' = <<Seen(Top(t), FALSE)>> \o Outer(Tail(stack[t]))
  BY <1>1, <1>2, CallsHoldNext DEF IInv, CallsInv, Top, Seen, Outer
<1>6. Called' = [Called EXCEPT ![t] = <<[todo |-> handlers[Top(t).ev], inside |-> FALSE]>> \o Called[t]]
  <2>1. Called' = [Called EXCEPT ![t] = <<Seen(Top(t), FALSE)>> \o Outer(Tail(stack[t]))]
    BY <1>1, <1>2, <1>5, OthersSame
  <2> QED BY <1>3, <1>4, <2>1 DEF Seen
<1>7. Issued' = Issued
  BY <1>1, <1>2, IssuedSame
<1>8. Bus!Publish(t, Top(t).ev)
  BY <1>1, <1>4, <1>6, <1>7 DEF Bus!Publish, Bus!InLoop, Bus!Innermost, Called, Issued
<1> QED BY <1>3, <1>8

(* The moment of a subscribe() is emplace_back: the id drawn is then given. *)
LEMMA SubscribeAddBus ==
  ASSUME IInv, IInv', NEW t \in Threads, SubscribeAdd(t)
  PROVE  \E e \in Types, id \in Ids : Bus!Subscribe(e, id)
<1> PICK e \in Types, id \in Ids : e = drawn[t][1] /\ id = drawn[t][2]
  BY DEF IInv, TypeOK, SubscribeAdd
<1>1. /\ TypeOK /\ LockInv /\ DrawnInv /\ pc[t] = "add"
      /\ pc' = [pc EXCEPT ![t] = "user"] /\ UNCHANGED <<nextId, stack>>
      /\ handlers' = [handlers EXCEPT ![e] = Append(handlers[e], id)]
  BY DEF IInv, SubscribeAdd, Goto
<1>2. id \in Nat /\ id >= 1 /\ nextId \in Nat /\ id < nextId
  BY <1>1, EventAssumption DEF TypeOK, DrawnInv, Ids
<1>3. \A u \in Threads : pc'[u] = IF u = t THEN "user" ELSE pc[u]
  BY <1>1 DEF TypeOK
<1>4. {u \in Threads : pc[u] = "add"} = {t} /\ {u \in Threads : pc'[u] = "add"} = {}
  BY <1>1, <1>3 DEF LockInv
<1>5. id \notin Issued /\ Issued' = Issued \cup {id}
  <2>1. Issued = (1..(nextId - 1)) \ {id}
    BY <1>4 DEF Issued
  <2>2. Issued' = 1..(nextId - 1)
    BY <1>1, <1>4 DEF Issued
  <2>3. id \in 1..(nextId - 1)
    BY <1>2
  <2> QED BY <2>1, <2>2, <2>3
<1>6. Called' = Called
  <2>1. Shown(t)' = Shown(t)
    BY <1>1, <1>3 DEF Shown
  <2> QED BY <1>1, <1>3, <2>1, CalledSame
<1>7. Bus!Subscribe(e, id)
  BY <1>1, <1>5, <1>6 DEF Bus!Subscribe, Called, Issued
<1> QED BY <1>7

(* An id drawn by a subscribe() that fails is used up. *)
LEMMA SubscribeThrowsBus ==
  ASSUME IInv, IInv', NEW t \in Threads, SubscribeThrows(t)
  PROVE  \E id \in Ids : Bus!SubscribeFails(id)
<1> PICK id \in Ids : id = drawn[t][2]
  BY DEF IInv, TypeOK, SubscribeThrows
<1>1. /\ TypeOK /\ LockInv /\ DrawnInv /\ pc[t] = "add"
      /\ pc' = [pc EXCEPT ![t] = "user"] /\ UNCHANGED <<handlers, nextId, stack>>
  BY DEF IInv, SubscribeThrows, Goto
<1>2. id \in Nat /\ id >= 1 /\ nextId \in Nat /\ id < nextId
  BY <1>1, EventAssumption DEF TypeOK, DrawnInv, Ids
<1>3. \A u \in Threads : pc'[u] = IF u = t THEN "user" ELSE pc[u]
  BY <1>1 DEF TypeOK
<1>4. {u \in Threads : pc[u] = "add"} = {t} /\ {u \in Threads : pc'[u] = "add"} = {}
  BY <1>1, <1>3 DEF LockInv
<1>5. id \notin Issued /\ Issued' = Issued \cup {id}
  <2>1. Issued = (1..(nextId - 1)) \ {id}
    BY <1>4 DEF Issued
  <2>2. Issued' = 1..(nextId - 1)
    BY <1>1, <1>4 DEF Issued
  <2>3. id \in 1..(nextId - 1)
    BY <1>2
  <2> QED BY <2>1, <2>2, <2>3
<1>6. Called' = Called
  <2>1. Shown(t)' = Shown(t)
    BY <1>1, <1>3 DEF Shown
  <2> QED BY <1>1, <1>3, <2>1, CalledSame
<1>7. Bus!SubscribeFails(id)
  BY <1>1, <1>5, <1>6 DEF Bus!SubscribeFails, Called, Issued
<1> QED BY <1>7

(* A publish() that cannot copy the list has called nobody. *)
LEMMA PublishCopyThrowsHidden ==
  ASSUME IInv, IInv', NEW t \in Threads, PublishCopyThrows(t)
  PROVE  BusSame
<1>1. /\ TypeOK /\ pc[t] = "copy" /\ stack[t] # <<>> /\ UNCHANGED <<handlers, nextId, drawn>>
  BY DEF IInv, TypeOK, PublishCopyThrows
<1>2. \/ /\ stack' = [stack EXCEPT ![t] = Tail(stack[t])]
         /\ pc' = [pc EXCEPT ![t] = "user"]
      \/ stack' = stack /\ pc' = [pc EXCEPT ![t] = "batch"]
  BY DEF PublishCopyThrows, LeavesPublish, Goto
<1>3. \A u \in Threads : u # t => pc'[u] = pc[u] /\ stack'[u] = stack[u]
  BY <1>1, <1>2 DEF TypeOK
<1>4. pc'[t] \in {"user", "batch"} /\ Shown(t)' = Shown(t)
  BY <1>1, <1>2 DEF TypeOK, Shown
<1>5. Issued' = Issued
  BY <1>1, <1>3, <1>4, IssuedSame
<1> QED BY <1>1, <1>3, <1>4, <1>5, HiddenStep

LEMMA BusNext ==
  ASSUME IInv, IInv', Next
  PROVE  Bus!Next \/ BusSame
<1>1. ASSUME NEW t \in Threads, NEW id \in Ids, Unsubscribe(t, id)
      PROVE  Bus!Unsubscribe(id)
  <2>1. \A s : Bus!RemoveFirst(s, id) = RemoveFirst(s, id)
    BY DEF RemoveFirst, RemoveAt, SelectInSeq, Min,
           Bus!RemoveFirst, Bus!RemoveAt, Bus!SelectInSeq, Bus!Min
  <2> QED BY <1>1, <2>1 DEF Unsubscribe, Bus!Unsubscribe, Calls
<1>2. ASSUME NEW t \in Threads, Clear(t) PROVE Bus!Clear
  BY <1>2 DEF Clear, Bus!Clear, Calls
<1>3. ASSUME NEW t \in Threads, NEW e \in Types, QueueEvent(t, e) PROVE BusSame
  BY <1>3 DEF QueueEvent, BusSame, Called, Calls, Issued
<1> PICK t \in Threads :
      \/ \E e \in Types : SubscribeEnter(t, e) \/ PublishEnter(t, e) \/ QueueEvent(t, e)
      \/ \E id \in Ids : Unsubscribe(t, id)
      \/ SubscribeAdd(t) \/ SubscribeThrows(t) \/ Clear(t)
      \/ PublishCopy(t) \/ PublishCopyThrows(t) \/ PublishUnlock(t)
      \/ CallHandler(t) \/ HandlerReturns(t) \/ HandlerThrows(t) \/ PublishReturns(t)
      \/ ProcessQueue(t) \/ PublishNext(t)
  BY DEF Next
<1>4. CASE \/ \E e \in Types : SubscribeEnter(t, e) \/ PublishEnter(t, e) \/ QueueEvent(t, e)
           \/ PublishCopy(t) \/ PublishCopyThrows(t) \/ ProcessQueue(t) \/ PublishNext(t)
  BY <1>3, <1>4, SubscribeEnterHidden, StartsCopyHidden, PublishCopyHidden,
     PublishCopyThrowsHidden, ProcessQueueHidden
<1>5. CASE SubscribeAdd(t) \/ SubscribeThrows(t)
  BY <1>5, SubscribeAddBus, SubscribeThrowsBus DEF Bus!Next
<1>6. CASE Clear(t) \/ \E id \in Ids : Unsubscribe(t, id)
  BY <1>1, <1>2, <1>6 DEF Bus!Next
<1>7. CASE PublishUnlock(t)
  BY <1>7, PublishUnlockBus DEF Bus!Next
<1>8. CASE CallHandler(t) \/ HandlerReturns(t) \/ HandlerThrows(t) \/ PublishReturns(t)
  BY <1>8, CallHandlerBus, HandlerReturnsBus, HandlerThrowsBus, PublishReturnsBus DEF Bus!Next
<1> QED BY <1>4, <1>5, <1>6, <1>7, <1>8

LEMMA BusStep == IInv /\ IInv' /\ [Next]_vars => [Bus!Next]_(Bus!vars)
<1> SUFFICES ASSUME IInv, IInv', [Next]_vars PROVE [Bus!Next]_(Bus!vars)
  OBVIOUS
<1>1. BusSame => UNCHANGED Bus!vars
  BY DEF BusSame, Bus!vars, Called, Issued
<1>2. CASE UNCHANGED vars
  <2>1. BusSame
    BY <1>2 DEF vars, BusSame, Called, Calls, Issued
  <2> QED BY <1>1, <2>1
<1>3. CASE Next
  BY <1>1, <1>3, BusNext
<1> QED BY <1>2, <1>3

(* To its callers EventManager is the event bus: every publish() calls the *)
(* handlers subscribed at the moment it gives the lock up, each once and   *)
(* in order, up to one that throws.                                        *)
THEOREM ManagerImplementsBus == Spec => BusSpec
<1>1. Init /\ []IInv /\ [][Next]_vars => Bus!Spec
  BY BusInit, BusStep, PTL DEF Bus!Spec
<1> QED BY <1>1, SpecIInv DEF Spec, BusSpec
=============================================================================
