------------------------------- MODULE Entity -------------------------------
(***************************************************************************)
(* The component system of Entity: addComponent(), getComponent() and      *)
(* removeComponent() on the map from hash_code() to owning pointers, and   *)
(* the bare pointers they hand out.  The constructor of a component is     *)
(* code of the caller: it may throw, and it may call all of these on the   *)
(* entity it is being made for.  Destructors are taken not to.             *)
(***************************************************************************)
EXTENDS Naturals, Sequences, SequencesExt

CONSTANTS
  Types,     \* component classes
  Hash,      \* Hash[T] is typeid(T).hash_code()
  Comps,     \* component objects the heap has room for
  None,      \* the null pointer
  MaxDepth   \* bound: constructors inside constructors

(* The standard only recommends that hash codes differ; programs are taken *)
(* to use classes for which they do.                                       *)
ASSUME EntityAssumption ==
  /\ None \notin Comps \cup Types
  /\ \A S, T \in Types : Hash[S] = Hash[T] => S = T
  /\ MaxDepth \in Nat \ {0}

VARIABLES
  components,  \* m_components, None where the map has no entry
  class,       \* class[c]: the class object c is made from, None if c is free
  making,      \* the objects under construction, innermost last
  held         \* held[T]: pointers of type T* that callers have

vars == <<components, class, making, held>>

Keys == {Hash[T] : T \in Types}

SameKey(T) == CHOOSE k \in Keys : TRUE  \* seeded fault: typeid(Component)
Key(T) == Hash[T]

Init ==
  /\ components = [k \in Keys |-> None]
  /\ class = [c \in Comps |-> None]
  /\ making = <<>>
  /\ held = [T \in Types |-> {}]

Free == {c \in Comps : class[c] = None}
NoPointerTo(c) == \A T \in Types : c \notin held[T]

Leaks(c) == UNCHANGED class  \* seeded fault: release() in place of reset()
Deletes(c) == class' = [class EXCEPT ![c] = None]

---------------------------------------------------------------------------
(* make_unique<T>(): the constructor starts, and ends by an exception.  A  *)
(* freed object that somebody still points to is not used again, so that   *)
(* the pointer can be told to dangle.                                      *)
Make(T) ==
  /\ Len(making) < MaxDepth
  /\ \E c \in Free :
       /\ NoPointerTo(c)
       /\ class' = [class EXCEPT ![c] = T]
       /\ making' = Append(making, c)
  /\ UNCHANGED <<components, held>>

MakeThrows ==
  /\ making # <<>>
  /\ Deletes(Last(making))
  /\ making' = Front(making)
  /\ UNCHANGED <<components, held>>

(* The constructor has returned: m_components[hash_code()] =               *)
(* std::move(component), which deletes what was there, and return ptr.     *)
Emplace(k, c) ==  \* seeded fault: emplace(), which keeps what is there
  IF components[k] = None
  THEN components' = [components EXCEPT ![k] = c] /\ UNCHANGED class
  ELSE Deletes(c) /\ UNCHANGED components
Assign(k, c) ==
  /\ components' = [components EXCEPT ![k] = c]
  /\ IF components[k] = None THEN UNCHANGED class ELSE Deletes(components[k])

AddComponent ==
  /\ making # <<>>
  /\ LET c == Last(making)
         T == class[c]
     IN  /\ Assign(Key(T), c)
         /\ held' = [held EXCEPT ![T] = @ \cup {c}]
  /\ making' = Front(making)

GetComponent(T) ==
  /\ components[Key(T)] # None
  /\ held' = [held EXCEPT ![T] = @ \cup {components[Key(T)]}]
  /\ UNCHANGED <<components, class, making>>

KeepsEntry(T) ==  \* seeded fault: the object is deleted, its entry stays
  /\ components[Key(T)] # None
  /\ Deletes(components[Key(T)])
  /\ UNCHANGED <<components, making, held>>
RemoveComponent(T) ==
  /\ components[Key(T)] # None
  /\ Deletes(components[Key(T)])
  /\ components' = [components EXCEPT ![Key(T)] = None]
  /\ UNCHANGED <<making, held>>

(* Callers forget a pointer. *)
Drop(T, c) ==
  /\ c \in held[T]
  /\ held' = [held EXCEPT ![T] = @ \ {c}]
  /\ UNCHANGED <<components, class, making>>

Next ==
  \/ \E T \in Types : Make(T) \/ GetComponent(T) \/ RemoveComponent(T)
  \/ MakeThrows \/ AddComponent
  \/ \E T \in Types, c \in Comps : Drop(T, c)

Spec == Init /\ [][Next]_vars

---------------------------------------------------------------------------
Stored == {components[k] : k \in Keys} \ {None}

(* The variables have their types, and the map and the calls that are      *)
(* making something refer to objects that exist.                           *)
TypeOK ==
  /\ class \in [Comps -> Types \cup {None}]
  /\ components \in [Keys -> (Comps \ Free) \cup {None}]
  /\ making \in Seq(Comps \ Free)
  /\ held \in [Types -> SUBSET Comps]

(* Every object that exists has one owner: the map, at one key, or the     *)
(* call that is making it, whatever constructors do to the entity and      *)
(* however they end.                                                       *)
OneOwner ==
  /\ Comps \ Free = Stored \cup ToSet(making)
  /\ Stored \cap ToSet(making) = {}
  /\ IsInjective(making)
  /\ \A j, k \in Keys : components[j] = components[k] /\ components[j] # None => j = k

(* The static_cast in getComponent() is right: what is found for a class   *)
(* is an object of this class, and no caller points to one of another.     *)
CastIsRight ==
  \A T \in Types :
    /\ components[Key(T)] # None => class[components[Key(T)]] = T
    /\ \A c \in held[T] : class[c] \in {T, None}

(* A pointer that a caller gets, from addComponent() as well, is to the    *)
(* component that the entity has when the call returns.                    *)
HandsOutStored ==
  [][\A T \in Types : \A c \in held'[T] \ held[T] : components'[Key(T)] = c]_vars

(* A pointer of type T* comes to dangle only in a step that replaces or    *)
(* removes the component of class T, and in such a step no other class is  *)
(* touched: pointers to other components stay valid, also when a           *)
(* constructor adds components while its own is being added.               *)
DanglesByOwnClass ==
  [][\A T \in Types :
       (\E c \in held[T] : class[c] # None /\ class'[c] = None) =>
         /\ components'[Key(T)] # components[Key(T)]
         /\ \A S \in Types \ {T} : components'[Key(S)] = components[Key(S)]]_vars
=============================================================================
