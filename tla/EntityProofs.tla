---------------------------- MODULE EntityProofs ----------------------------
(* Theorems about Entity, for any classes, objects and depth. *)
EXTENDS Entity, SequenceTheorems, TLAPS

---------------------------------------------------------------------------
(* Facts about the stack of calls that are making a component.             *)

(* A constructor is called: the new object joins the others. *)
LEMMA PushFacts ==
  ASSUME NEW S, NEW s \in Seq(S), NEW x \in S
  PROVE  /\ Append(s, x) \in Seq(S)
         /\ ToSet(Append(s, x)) = ToSet(s) \cup {x}
         /\ IsInjective(s) /\ x \notin ToSet(s) => IsInjective(Append(s, x))
<1> DEFINE a == Append(s, x)
<1>1. /\ a \in Seq(S) /\ Len(a) = Len(s) + 1
      /\ \A i \in 1..Len(s) : a[i] = s[i]
      /\ a[Len(s) + 1] = x
  BY AppendProperties
<1>2. DOMAIN a = 1..(Len(s) + 1) /\ DOMAIN s = 1..Len(s) /\ Len(s) \in Nat
  BY <1>1, LenProperties
<1>3. ToSet(a) = ToSet(s) \cup {x}
  <2>1. ToSet(a) \subseteq ToSet(s) \cup {x}
    BY <1>1, <1>2 DEF ToSet
  <2>2. ToSet(s) \subseteq ToSet(a)
    BY <1>1, <1>2 DEF ToSet
  <2>3. x \in ToSet(a)
    <3>1. Len(s) + 1 \in DOMAIN a
      BY <1>2
    <3> QED BY <3>1, <1>1 DEF ToSet
  <2> QED BY <2>1, <2>2, <2>3
<1>4. IsInjective(s) /\ x \notin ToSet(s) => IsInjective(a)
  BY <1>1, <1>2 DEF ToSet, IsInjective
<1> QED BY <1>1, <1>3, <1>4

(* A constructor ends: its object leaves, the others stay. *)
LEMMA PopFacts ==
  ASSUME NEW S, NEW s \in Seq(S), s # <<>>
  PROVE  /\ Front(s) \in Seq(S)
         /\ Last(s) \in S /\ Last(s) \in ToSet(s)
         /\ IsInjective(s) => /\ IsInjective(Front(s))
                              /\ ToSet(Front(s)) = ToSet(s) \ {Last(s)}
<1> DEFINE f == Front(s)
           x == s[Len(s)]
<1>1. Len(s) \in Nat /\ Len(s) > 0 /\ DOMAIN s = 1..Len(s)
  BY EmptySeq, LenProperties
<1>2. x \in S /\ x \in ToSet(s)
  BY <1>1, ElementOfSeq DEF ToSet
<1>3. /\ f \in Seq(S) /\ Len(f) = Len(s) - 1
      /\ \A i \in 1..(Len(s) - 1) : f[i] = s[i]
  BY <1>1, SubSeqProperties, ElementOfSeq DEF Front
<1>4. DOMAIN f = 1..(Len(s) - 1)
  BY <1>3, LenProperties
<1>5. ASSUME IsInjective(s) PROVE IsInjective(f) /\ ToSet(f) = ToSet(s) \ {x}
  <2>1. IsInjective(f)
    BY <1>1, <1>3, <1>4, <1>5 DEF IsInjective
  <2>2. ToSet(f) \subseteq ToSet(s) \ {x}
    <3>1. \A i \in DOMAIN f : i \in DOMAIN s /\ i # Len(s) /\ Len(s) \in DOMAIN s
      BY <1>1, <1>4
    <3> QED BY <3>1, <1>3, <1>4, <1>5 DEF ToSet, IsInjective
  <2>3. ToSet(s) \ {x} \subseteq ToSet(f)
    <3>1. \A i \in DOMAIN s : s[i] # x => i \in DOMAIN f
      BY <1>1, <1>4
    <3> QED BY <3>1, <1>3, <1>4 DEF ToSet
  <2> QED BY <2>1, <2>2, <2>3
<1> QED BY <1>2, <1>3, <1>5 DEF Last

---------------------------------------------------------------------------
(* OneOwner and CastIsRight need each other: that the assignment in        *)
(* addComponent() deletes no other component than that of its own class    *)
(* follows from the one owner, and that the entry it replaces is the one   *)
(* of this class from the hash codes.                                      *)
Shape ==
  /\ class \in [Comps -> Types \cup {None}]
  /\ components \in [Keys -> Comps \cup {None}]
  /\ making \in Seq(Comps)
  /\ held \in [Types -> SUBSET Comps]

IInv == Shape /\ OneOwner /\ CastIsRight

LEMMA InitIInv == Init => IInv
<1> SUFFICES ASSUME Init PROVE IInv
  OBVIOUS
<1> USE DEF Init
<1>1. ToSet(making) = {} /\ IsInjective(making) /\ making \in Seq(Comps)
  BY EmptySeq DEF ToSet, IsInjective
<1>2. Shape
  BY <1>1 DEF Shape
<1>3. \A k \in Keys : components[k] = None
  OBVIOUS
<1>4. OneOwner
  BY <1>1, <1>3 DEF OneOwner, Free, Stored
<1>5. CastIsRight
  BY <1>3 DEF CastIsRight, Key, Keys
<1> QED BY <1>2, <1>4, <1>5 DEF IInv

(* The call that is ending a constructor has an object of its own. *)
LEMMA Innermost ==
  ASSUME IInv, making # <<>>
  PROVE  /\ Last(making) \in Comps
         /\ class[Last(making)] \in Types
         /\ Last(making) \notin Stored
         /\ Front(making) \in Seq(Comps)
         /\ IsInjective(Front(making))
         /\ ToSet(Front(making)) = ToSet(making) \ {Last(making)}
<1>1. making \in Seq(Comps) /\ IsInjective(making)
  BY DEF IInv, Shape, OneOwner
<1>2. /\ Last(making) \in Comps /\ Last(making) \in ToSet(making)
      /\ Front(making) \in Seq(Comps)
      /\ IsInjective(Front(making))
      /\ ToSet(Front(making)) = ToSet(making) \ {Last(making)}
  BY <1>1, PopFacts
<1>3. class[Last(making)] \in Types /\ Last(making) \notin Stored
  BY <1>2 DEF IInv, Shape, OneOwner, Free
<1> QED BY <1>2, <1>3

LEMMA MakeIInv ==
  ASSUME IInv, NEW T \in Types, Make(T)
  PROVE  IInv'
<1>1. PICK c \in Free : /\ NoPointerTo(c)
                        /\ class' = [class EXCEPT ![c] = T]
                        /\ making' = Append(making, c)
  BY DEF Make
<1>2. components' = components /\ held' = held
  BY DEF Make
<1>3. c \in Comps /\ c \notin ToSet(making) /\ c \notin Stored
  BY DEF IInv, OneOwner, Free
<1>4. /\ making' \in Seq(Comps) /\ IsInjective(making')
      /\ ToSet(making') = ToSet(making) \cup {c}
  BY <1>1, <1>3, PushFacts DEF IInv, Shape, OneOwner
<1>5. Shape'
  BY <1>1, <1>2, <1>3, <1>4 DEF IInv, Shape
<1>6. Stored' = Stored
  BY <1>2 DEF Stored
<1>7. (Comps \ Free)' = (Comps \ Free) \cup {c}
  BY <1>1, <1>3, EntityAssumption DEF IInv, Shape, Free
<1>8. OneOwner'
  BY <1>2, <1>3, <1>4, <1>6, <1>7 DEF IInv, OneOwner
<1>9. CastIsRight'
  <2>1. ASSUME NEW S \in Types, components[Key(S)] # None
        PROVE  components[Key(S)] # c /\ components[Key(S)] \in Comps
    BY <1>3, <2>1 DEF IInv, Shape, Stored, Key, Keys
  <2>2. \A S \in Types : c \notin held[S]
    BY <1>1 DEF NoPointerTo
  <2> QED BY <1>1, <1>2, <1>3, <2>1, <2>2 DEF IInv, Shape, CastIsRight, Key
<1> QED BY <1>5, <1>8, <1>9 DEF IInv

LEMMA MakeThrowsIInv ==
  ASSUME IInv, MakeThrows
  PROVE  IInv'
<1> DEFINE c == Last(making)
<1>1. /\ making # <<>>
      /\ class' = [class EXCEPT ![c] = None]
      /\ making' = Front(making)
      /\ components' = components /\ held' = held
  BY DEF MakeThrows, Deletes
<1>2. /\ c \in Comps /\ c \notin Stored
      /\ making' \in Seq(Comps) /\ IsInjective(making')
      /\ ToSet(making') = ToSet(making) \ {c}
  BY <1>1, Innermost
<1>3. Shape'
  BY <1>1, <1>2 DEF IInv, Shape
<1>4. Stored' = Stored
  BY <1>1 DEF Stored
<1>5. (Comps \ Free)' = (Comps \ Free) \ {c}
  BY <1>1, <1>2 DEF IInv, Shape, Free
<1>6. OneOwner'
  BY <1>1, <1>2, <1>4, <1>5 DEF IInv, OneOwner
<1>7. CastIsRight'
  <2>1. \A S \in Types : components[Key(S)] # None =>
          components[Key(S)] # c /\ components[Key(S)] \in Comps
    BY <1>2 DEF IInv, Shape, Stored, Key, Keys
  <2> QED BY <1>1, <1>2, <2>1 DEF IInv, Shape, CastIsRight, Key
<1> QED BY <1>3, <1>6, <1>7 DEF IInv

(* A component comes out of the map with the object deleted: what is left  *)
(* at the other keys is other objects.                                     *)
LEMMA OthersDiffer ==
  ASSUME IInv, NEW k \in Keys, components[k] # None
  PROVE  /\ components[k] \in Comps /\ components[k] \notin ToSet(making)
         /\ \A j \in Keys \ {k} : components[j] # components[k]
BY DEF IInv, Shape, OneOwner, Stored

LEMMA RemoveIInv ==
  ASSUME IInv, NEW T \in Types, RemoveComponent(T)
  PROVE  IInv'
<1> DEFINE k == Key(T)
           c == components[k]
<1>1. /\ k \in Keys /\ c # None
      /\ class' = [class EXCEPT ![c] = None]
      /\ components' = [components EXCEPT ![k] = None]
      /\ making' = making /\ held' = held
  BY DEF RemoveComponent, Deletes, Key, Keys
<1>2. /\ c \in Comps /\ c \notin ToSet(making)
      /\ \A j \in Keys \ {k} : components[j] # c
  BY <1>1, OthersDiffer
<1>3. Shape'
  BY <1>1, <1>2 DEF IInv, Shape
<1>4. \A j \in Keys : components'[j] = IF j = k THEN None ELSE components[j]
  BY <1>1 DEF IInv, Shape
<1>5. Stored' = Stored \ {c}
  BY <1>1, <1>2, <1>4 DEF Stored
<1>6. (Comps \ Free)' = (Comps \ Free) \ {c}
  BY <1>1, <1>2 DEF IInv, Shape, Free
<1>7. OneOwner'
  BY <1>1, <1>2, <1>4, <1>5, <1>6 DEF IInv, OneOwner
<1>8. CastIsRight'
  <2>1. ASSUME NEW S \in Types, components'[Key(S)] # None
        PROVE  class'[components'[Key(S)]] = S
    <3>1. Key(S) \in Keys /\ Key(S) # k
      BY <2>1, <1>4 DEF Key, Keys
    <3>2. components'[Key(S)] = components[Key(S)] /\ components[Key(S)] # c
      BY <3>1, <1>2, <1>4
    <3>3. components[Key(S)] \in Comps
      BY <2>1, <3>1, <3>2 DEF IInv, Shape
    <3> QED BY <2>1, <3>2, <3>3, <1>1 DEF IInv, Shape, CastIsRight
  <2>2. \A S \in Types : \A d \in held'[S] : class'[d] \in {S, None}
    BY <1>1, <1>2 DEF IInv, Shape, CastIsRight
  <2> QED BY <2>1, <2>2 DEF CastIsRight, Key
<1> QED BY <1>3, <1>7, <1>8 DEF IInv

LEMMA AddIInv ==
  ASSUME IInv, AddComponent
  PROVE  IInv'
<1> DEFINE c == Last(making)
           T == class[c]
           k == Key(T)
           old == components[k]
<1>1. /\ making # <<>>
      /\ components' = [components EXCEPT ![k] = c]
      /\ class' = IF old = None THEN class ELSE [class EXCEPT ![old] = None]
      /\ held' = [held EXCEPT ![T] = @ \cup {c}]
      /\ making' = Front(making)
  BY DEF AddComponent, Assign, Deletes
<1>2. /\ c \in Comps /\ T \in Types /\ c \notin Stored
      /\ making' \in Seq(Comps) /\ IsInjective(making')
      /\ ToSet(making') = ToSet(making) \ {c}
      /\ c # None /\ k \in Keys
  BY <1>1, Innermost, EntityAssumption DEF Key, Keys
<1>3. c \in ToSet(making)
  BY <1>1, PopFacts DEF IInv, Shape
<1>4. old # None => /\ old \in Comps /\ old \notin ToSet(making)
                    /\ \A j \in Keys \ {k} : components[j] # old
  BY <1>2, OthersDiffer
<1>5. Shape'
  BY <1>1, <1>2, <1>4 DEF IInv, Shape
<1>6. \A j \in Keys : components'[j] = IF j = k THEN c ELSE components[j]
  BY <1>1 DEF IInv, Shape
<1>7. \A d \in Comps : class'[d] = IF d = old /\ old # None THEN None ELSE class[d]
  BY <1>1, <1>4 DEF IInv, Shape
<1>8. Stored' = (Stored \ {old}) \cup {c}
  <2>1. Stored' \subseteq (Stored \ {old}) \cup {c}
    BY <1>4, <1>6 DEF Stored
  <2>2. Stored \ {old} \subseteq Stored'
    BY <1>6 DEF Stored, Keys
  <2>3. c \in Stored'
    BY <1>2, <1>6 DEF Stored, Keys
  <2> QED BY <2>1, <2>2, <2>3
<1>9. (Comps \ Free)' = (Comps \ Free) \ {old}
  BY <1>4, <1>7, EntityAssumption DEF Free
<1>10. OneOwner'
  <2>1. Comps \ Free' = Stored' \cup ToSet(making')
    BY <1>2, <1>3, <1>4, <1>8, <1>9, EntityAssumption DEF IInv, OneOwner, Stored
  <2>2. Stored' \cap ToSet(making') = {}
    BY <1>2, <1>8 DEF IInv, OneOwner
  <2>3. \A i, j \in Keys : components'[i] = components'[j] /\ components'[i] # None => i = j
    <3>1. \A i \in Keys \ {k} : components'[i] # c
      BY <1>2, <1>6 DEF Stored
    <3> QED BY <3>1, <1>2, <1>6 DEF IInv, OneOwner
  <2> QED BY <2>1, <2>2, <2>3, <1>2 DEF OneOwner, Keys
<1>11. CastIsRight'
  <2>1. ASSUME NEW S \in Types, components'[Key(S)] # None
        PROVE  class'[components'[Key(S)]] = S
    <3>1. CASE Key(S) = k
      <4>1. S = T
        BY <3>1, <1>2, EntityAssumption DEF Key
      <4>2. c # old
        BY <1>2, <1>3, <1>4
      <4> QED BY <4>1, <4>2, <1>2, <1>6, <1>7
    <3>2. CASE Key(S) # k
      <4>1. Key(S) \in Keys
        BY DEF Key, Keys
      <4>2. components'[Key(S)] = components[Key(S)] /\ (old # None => components[Key(S)] # old)
        BY <3>2, <4>1, <1>4, <1>6
      <4>3. components[Key(S)] \in Comps
        BY <2>1, <4>1, <4>2 DEF IInv, Shape
      <4> QED BY <2>1, <4>2, <4>3, <1>7 DEF IInv, CastIsRight
    <3> QED BY <3>1, <3>2
  <2>2. ASSUME NEW S \in Types, NEW d \in held'[S]
        PROVE  class'[d] \in {S, None}
    <3>1. d \in held[S] \/ (d = c /\ S = T)
      BY <2>2, <1>1, <1>2 DEF IInv, Shape
    <3>2. d \in Comps /\ class[d] \in {S, None}
      BY <3>1, <1>2 DEF IInv, Shape, CastIsRight
    <3> QED BY <3>2, <1>7
  <2> QED BY <2>1, <2>2 DEF CastIsRight, Key
<1> QED BY <1>5, <1>10, <1>11 DEF IInv

(* Callers that get and forget pointers. *)
LEMMA PointersIInv ==
  ASSUME IInv, NEW T \in Types, GetComponent(T) \/ \E c \in Comps : Drop(T, c)
  PROVE  IInv'
<1>1. components' = components /\ class' = class /\ making' = making
  BY DEF GetComponent, Drop
<1>2. \/ held' = [held EXCEPT ![T] = @ \cup {components[Key(T)]}] /\ components[Key(T)] # None
      \/ \E c \in Comps : held' = [held EXCEPT ![T] = @ \ {c}]
  BY DEF GetComponent, Drop
<1>3. Key(T) \in Keys /\ Keys' = Keys
  BY DEF Key, Keys
<1>4. Shape'
  BY <1>1, <1>2, <1>3 DEF IInv, Shape
<1>5. OneOwner'
  BY <1>1 DEF IInv, OneOwner, Stored, Free
<1>6. CastIsRight'
  BY <1>1, <1>2, <1>3 DEF IInv, Shape, CastIsRight, Key
<1> QED BY <1>4, <1>5, <1>6 DEF IInv

LEMMA NextIInv == IInv /\ [Next]_vars => IInv'
<1> SUFFICES ASSUME IInv, [Next]_vars PROVE IInv'
  OBVIOUS
<1>1. CASE UNCHANGED vars
  BY <1>1 DEF vars, IInv, Shape, OneOwner, CastIsRight, Stored, Free, Key, Keys
<1> QED BY <1>1, MakeIInv, MakeThrowsIInv, AddIInv, RemoveIInv, PointersIInv DEF Next

LEMMA SpecIInv == Spec => []IInv
BY InitIInv, NextIInv, PTL DEF Spec

---------------------------------------------------------------------------
(* The variables have their types, for any classes and objects. *)
THEOREM TypeCorrect == Spec => []TypeOK
<1>1. ASSUME IInv PROVE TypeOK
  <2>1. \A k \in Keys : components[k] \in (Comps \ Free) \cup {None}
    BY <1>1 DEF IInv, Shape, OneOwner, Stored
  <2>2. \A i \in 1..Len(making) : making[i] \in Comps \ Free
    <3>1. DOMAIN making = 1..Len(making)
      BY <1>1, LenProperties DEF IInv, Shape
    <3> QED BY <3>1, <1>1 DEF IInv, OneOwner, ToSet
  <2>3. making \in Seq(Comps \ Free)
    <3>1. making \in [1..Len(making) -> Comps] /\ Len(making) \in Nat
      BY <1>1, LenProperties DEF IInv, Shape
    <3>2. making \in [1..Len(making) -> Comps \ Free]
      BY <3>1, <2>2
    <3> QED BY <3>1, <3>2, SeqDef
  <2> QED BY <1>1, <2>1, <2>3 DEF IInv, Shape, TypeOK
<1> QED BY <1>1, SpecIInv, PTL

(* Every component has one owner, the map or the call that is making it,   *)
(* whatever constructors do: none is leaked, none deleted twice.           *)
THEOREM OneOwnership == Spec => []OneOwner
<1>1. IInv => OneOwner
  BY DEF IInv
<1> QED BY <1>1, SpecIInv, PTL

(* The static_cast of getComponent() is to the class the object has, if    *)
(* hash codes of different classes differ.                                 *)
THEOREM CastsAreRight == Spec => []CastIsRight
<1>1. IInv => CastIsRight
  BY DEF IInv
<1> QED BY <1>1, SpecIInv, PTL

---------------------------------------------------------------------------
(* A pointer that callers have to an object that exists is to the one in   *)
(* the entity, never to one that is still being made.                      *)
HeldInv ==
  \A T \in Types : \A c \in held[T] : class[c] # None => components[Key(T)] = c

(* What a step does to an object that callers point to: it stays, or it is *)
(* the entity's component of its class, which the step takes out.          *)
LEMMA DeletesOwnClass ==
  ASSUME IInv, HeldInv, [Next]_vars, NEW T \in Types, NEW c \in held[T],
         class[c] # None, class'[c] = None
  PROVE  /\ components'[Key(T)] # components[Key(T)]
         /\ \A S \in Types \ {T} : components'[Key(S)] = components[Key(S)]
<1>1. /\ c \in Comps /\ components[Key(T)] = c /\ Key(T) \in Keys /\ c # None
      /\ c \in Stored
  BY EntityAssumption DEF IInv, Shape, HeldInv, Stored, Key, Keys
<1>2. \A S \in Types : Key(S) \in Keys /\ (Key(S) = Key(T) => S = T)
  BY EntityAssumption DEF Key, Keys
<1>3. \A k \in Keys : components[k] = c => k = Key(T)
  BY <1>1 DEF IInv, OneOwner
<1>4. CASE AddComponent
  <2> DEFINE n == Last(making)
             k == Key(class[n])
  <2>1. /\ n # c /\ k \in Keys
    BY <1>1, <1>4, Innermost DEF AddComponent, Key, Keys
  <2>2. components' = [components EXCEPT ![k] = n] /\ components[k] = c
    BY <1>1, <1>4, <2>1 DEF AddComponent, Assign, Deletes, IInv, Shape
  <2> QED BY <1>1, <1>2, <1>3, <2>1, <2>2 DEF IInv, Shape
<1>5. ASSUME NEW S \in Types, RemoveComponent(S)
      PROVE  S = T /\ components' = [components EXCEPT ![Key(T)] = None]
  <2>1. components[Key(S)] = c
    BY <1>1, <1>5 DEF RemoveComponent, Deletes, IInv, Shape
  <2>2. S = T
    BY <1>2, <1>3, <2>1
  <2> QED BY <1>5, <2>2 DEF RemoveComponent
<1>6. ASSUME NEW S \in Types, RemoveComponent(S)
      PROVE  /\ components'[Key(T)] # components[Key(T)]
             /\ \A R \in Types \ {T} : components'[Key(R)] = components[Key(R)]
  BY <1>1, <1>2, <1>5, <1>6 DEF IInv, Shape
<1>7. ASSUME MakeThrows PROVE FALSE
  <2>1. Last(making) # c
    BY <1>1, <1>7, Innermost DEF MakeThrows
  <2> QED BY <1>1, <1>7, <2>1 DEF MakeThrows, Deletes, IInv, Shape
<1>8. ASSUME NEW S \in Types, Make(S) PROVE FALSE
  BY <1>1, <1>8, EntityAssumption DEF Make, IInv, Shape
<1>9. ASSUME \/ UNCHANGED vars
             \/ \E S \in Types : GetComponent(S) \/ \E d \in Comps : Drop(S, d)
      PROVE  FALSE
  BY <1>9 DEF vars, GetComponent, Drop
<1> QED BY <1>4, <1>6, <1>7, <1>8, <1>9 DEF Next

LEMMA HeldStep == IInv /\ HeldInv /\ [Next]_vars => HeldInv'
<1> SUFFICES ASSUME IInv, HeldInv, [Next]_vars,
                    NEW T \in Types, NEW c \in held'[T], class'[c] # None
             PROVE  components'[Key(T)] = c
  BY DEF HeldInv, Key
<1>1. Key(T) \in Keys /\ \A S \in Types : Key(S) \in Keys
  BY DEF Key, Keys
<1>2. c \in held[T] /\ class[c] # None => components[Key(T)] = c
  BY DEF HeldInv
<1>3. CASE AddComponent
  <2> DEFINE n == Last(making)
             k == Key(class[n])
  <2>1. /\ n \in Comps /\ class[n] \in Types /\ k \in Keys
        /\ components' = [components EXCEPT ![k] = n]
        /\ held' = [held EXCEPT ![class[n]] = @ \cup {n}]
    BY <1>1, <1>3, Innermost DEF AddComponent, Assign
  <2>2. CASE c \in held[T]
    <3>1. c \in Comps /\ (k = Key(T) => class[n] = T)
      BY <2>1, <2>2, EntityAssumption DEF IInv, Shape, Key
    <3>2. class[c] # None
      BY <1>3, <3>1 DEF AddComponent, Assign, Deletes, IInv, Shape
    <3>3. components[Key(T)] = c /\ c # None
      BY <1>2, <2>2, <3>1, <3>2, EntityAssumption
    <3>4. k # Key(T)
      BY <1>3, <3>1, <3>3 DEF AddComponent, Assign, Deletes, IInv, Shape
    <3> QED BY <1>1, <2>1, <3>3, <3>4 DEF IInv, Shape
  <2>3. CASE c \notin held[T]
    BY <2>1, <2>3 DEF IInv, Shape
  <2> QED BY <2>2, <2>3
<1>4. ASSUME NEW S \in Types, RemoveComponent(S) PROVE components'[Key(T)] = c
  <2>1. c \in held[T] /\ c \in Comps
    BY <1>4 DEF RemoveComponent, IInv, Shape
  <2>2. class[c] # None
    BY <1>4, <2>1 DEF RemoveComponent, Deletes, IInv, Shape
  <2>3. Key(S) # Key(T)
    BY <1>2, <1>4, <2>1, <2>2 DEF RemoveComponent, Deletes, IInv, Shape
  <2> QED BY <1>1, <1>2, <1>4, <2>1, <2>2, <2>3 DEF RemoveComponent, IInv, Shape
<1>5. CASE MakeThrows
  BY <1>2, <1>5, Innermost DEF MakeThrows, Deletes, IInv, Shape
<1>6. ASSUME NEW S \in Types, Make(S) PROVE components'[Key(T)] = c
  BY <1>2, <1>6 DEF Make, NoPointerTo, IInv, Shape
<1>7. ASSUME NEW S \in Types, GetComponent(S) PROVE components'[Key(T)] = c
  BY <1>2, <1>7 DEF GetComponent, IInv, Shape
<1>8. ASSUME NEW S \in Types, NEW d \in Comps, Drop(S, d) PROVE components'[Key(T)] = c
  BY <1>2, <1>8 DEF Drop, IInv, Shape
<1>9. CASE UNCHANGED vars
  BY <1>2, <1>9 DEF vars
<1> QED BY <1>3, <1>4, <1>5, <1>6, <1>7, <1>8, <1>9 DEF Next

(* Whatever is added, removed and made on the way, the pointer a caller    *)
(* gets is to the component the entity has when the call returns.          *)
THEOREM PointersAreStored == Spec => HandsOutStored
<1> DEFINE Step == \A T \in Types : \A c \in held'[T] \ held[T] : components'[Key(T)] = c
<1>1. IInv /\ [Next]_vars => [Step]_vars
  <2> SUFFICES ASSUME IInv, [Next]_vars, NEW T \in Types, NEW c \in held'[T] \ held[T]
               PROVE  components'[Key(T)] = c
    OBVIOUS
  <2>1. Key(T) \in Keys
    BY DEF Key, Keys
  <2>2. CASE AddComponent
    <3> DEFINE n == Last(making)
    <3>1. /\ n \in Comps /\ class[n] \in Types
          /\ components' = [components EXCEPT ![Key(class[n])] = n]
          /\ held' = [held EXCEPT ![class[n]] = @ \cup {n}]
      BY <2>2, Innermost DEF AddComponent, Assign
    <3>2. T = class[n] /\ c = n
      BY <3>1 DEF IInv, Shape
    <3> QED BY <2>1, <3>1, <3>2 DEF IInv, Shape
  <2>3. ASSUME NEW S \in Types, GetComponent(S) PROVE components'[Key(T)] = c
    BY <2>3 DEF GetComponent, IInv, Shape
  <2>4. ASSUME \/ MakeThrows \/ UNCHANGED vars
               \/ \E S \in Types : Make(S) \/ RemoveComponent(S) \/ \E d \in Comps : Drop(S, d)
        PROVE  FALSE
    BY <2>4 DEF MakeThrows, vars, Make, RemoveComponent, Drop, IInv, Shape
  <2> QED BY <2>2, <2>3, <2>4 DEF Next
<1> QED BY <1>1, SpecIInv, PTL DEF Spec, HandsOutStored

(* A pointer to a component comes to dangle only when the component of its *)
(* own class is replaced or removed, and then no other class is touched.   *)
THEOREM DanglingIsConfined == Spec => DanglesByOwnClass
<1> DEFINE Step ==
      \A T \in Types :
        (\E c \in held[T] : class[c] # None /\ class'[c] = None) =>
          /\ components'[Key(T)] # components[Key(T)]
          /\ \A S \in Types \ {T} : components'[Key(S)] = components[Key(S)]
<1>1. Init => HeldInv
  BY DEF Init, HeldInv
<1>2. IInv /\ HeldInv /\ [Next]_vars => [Step]_vars
  BY DeletesOwnClass
<1> QED BY <1>1, <1>2, HeldStep, SpecIInv, PTL DEF Spec, DanglesByOwnClass
=============================================================================
