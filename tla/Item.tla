------------------------------- MODULE Item -------------------------------
(***************************************************************************)
(* The sockets and attributes of an Item: three arrays of fixed length, in *)
(* which the setters ignore an index that is too large.  setAttribute()    *)
(* stores a type and a value, which belong together.                       *)
(***************************************************************************)
EXTENDS PlainMembers

CONSTANTS
  Sockets, Attributes,  \* lengths of the arrays: 3 and 7 in the program
  Indices,              \* indices that callers pass, uint8
  Bonuses               \* what they set: types and values come in pairs

ASSUME ItemAssumption ==
  /\ Sockets \in Nat /\ Attributes \in Nat
  /\ Indices \subseteq 0..255 /\ 0 \notin Bonuses

VARIABLES
  setting,  \* setting[t]: the stores that a setter in t has still to do
  lastSet   \* lastSet[i]: what was last set, as attribute i or socket i

itemVars == <<setting, lastSet>>

(* std::array does not check an index: behind the last element of an array *)
(* lies the next member of the object.                                     *)
Cell(array, i) ==
  CASE array = "socket" /\ i < Sockets      -> <<array, i>>
    [] array = "socket" /\ i >= Sockets     -> <<"attrType", i - Sockets>>
    [] array # "socket" /\ i < Attributes   -> <<array, i>>
    [] array = "attrType" /\ i >= Attributes -> <<"attrValue", i - Attributes>>
    [] OTHER                                -> <<"expireTime", 0>>
ItemMembers ==
  {<<"socket", i>> : i \in 0..(Sockets - 1)} \cup {<<"expireTime", 0>>}
    \cup {"attrType", "attrValue"} \X (0..(Attributes - 1))

ItemInit ==
  /\ setting = [t \in Threads |-> {}]
  /\ lastSet = [slot \in {"socket", "attribute"} \X Indices |-> 0]

OneTooFar(i, size) == i <= size  \* seeded fault: the bound is off by one
Inside(i, size)    == i < size

(* The getters. *)
GetSocket(i)         == IF Inside(i, Sockets) THEN Latest(Cell("socket", i)) ELSE 0
GetAttributeType(i)  == IF Inside(i, Attributes) THEN Latest(Cell("attrType", i)) ELSE 0
GetAttributeValue(i) == IF Inside(i, Attributes) THEN Latest(Cell("attrValue", i)) ELSE 0

(* The setters start: what they will store, in either order, if anything. *)
SetSocket(t, i, v) ==
  /\ setting[t] = {} /\ Inside(i, Sockets) /\ MayStore
  /\ setting' = [setting EXCEPT ![t] = {<<Cell("socket", i), v>>}]
  /\ lastSet' = [lastSet EXCEPT ![<<"socket", i>>] = v]
  /\ UNCHANGED plainVars

SetAttribute(t, i, v) ==
  /\ setting[t] = {} /\ Inside(i, Attributes) /\ MayStore
  /\ setting' = [setting EXCEPT
       ![t] = {<<Cell(array, i), v>> : array \in {"attrType", "attrValue"}}]
  /\ lastSet' = [lastSet EXCEPT ![<<"attribute", i>>] = v]
  /\ UNCHANGED plainVars

StoreNext(t) ==
  \E s \in setting[t] :
    /\ Store(t, s[1], s[2])
    /\ NotesRace(t, s[1])
    /\ setting' = [setting EXCEPT ![t] = @ \ {s}]
    /\ UNCHANGED lastSet

(* A getter in a thread, which may not be ordered after the setters. *)
Get(t, m) ==
  /\ setting[t] = {}
  /\ \E i \in 1..Len(stores[m]) : Load(t, m, i)
  /\ NotesRace(t, m)
  /\ UNCHANGED itemVars

ItemHandOver(t, u) ==
  /\ setting[t] = {} /\ setting[u] = {} /\ view[u] # Later(view[u], view[t])
  /\ HandOver(t, u)
  /\ UNCHANGED itemVars

ItemNext ==
  \/ \E t \in Threads :
       \/ \E i \in Indices, v \in Bonuses : SetSocket(t, i, v) \/ SetAttribute(t, i, v)
       \/ StoreNext(t)
       \/ \E m \in ItemMembers : Get(t, m)
  \/ \E t, u \in Threads : ItemHandOver(t, u)

ItemSpec ==
  /\ PlainInit(ItemMembers, 0) /\ ItemInit
  /\ [][ItemNext]_<<plainVars, itemVars>>

---------------------------------------------------------------------------
ItemTypeOK ==
  /\ \A t \in Threads : setting[t] \subseteq ItemMembers \X Bonuses
  /\ \A m \in ItemMembers : \A j \in DOMAIN stores[m] : stores[m][j] \in Bonuses \cup {0}

(* As long as setters and getters are ordered, a slot holds the type and   *)
(* the value that were set together, setting one slot or socket changes no *)
(* other, and an index beyond the arrays sets nothing and gets 0.          *)
ItemKeeps ==
  raced = {} /\ (\A t \in Threads : setting[t] = {}) =>
    /\ Latest(<<"expireTime", 0>>) = 0
    /\ \A i \in Indices :
         /\ GetSocket(i) = (IF i < Sockets THEN lastSet[<<"socket", i>>] ELSE 0)
         /\ <<GetAttributeType(i), GetAttributeValue(i)>>
              = (IF i < Attributes
                 THEN <<lastSet[<<"attribute", i>>], lastSet[<<"attribute", i>>]>>
                 ELSE <<0, 0>>)
=============================================================================
