---------------------------- MODULE MCUnlocked ----------------------------
(* The classes whose members threads share without a lock, for TLC.  Their *)
(* objects have nothing in common: each behaviour is about one of them.    *)
EXTENDS Session, Logger, PlayerCharacter, Item, TLC

Same == Permutations(Threads)  \* no thread has a part of its own

VARIABLE object  \* the class of the object the behaviour is about

components == <<sessionVars, loggerVars, playerVars, itemVars>>

MCInit ==
  /\ SessionInit /\ LoggerInit /\ PlayerInit /\ ItemInit
  /\ \/ object = "Session" /\ PlainInit(SessionMembers, 0)
     \/ object = "Logger" /\ PlainInit(LoggerMembers, LogLevel.Info)
     \/ object = "PlayerCharacter" /\ PlainInit(PlayerMembers, 0)
     \/ object = "Item" /\ PlainInit(ItemMembers, 0)

MCNext ==
  /\ UNCHANGED object
  /\ \/ object = "Session" /\ SessionNext /\ UNCHANGED <<loggerVars, playerVars, itemVars>>
     \/ object = "Logger" /\ LoggerNext /\ UNCHANGED <<sessionVars, playerVars, itemVars>>
     \/ object = "PlayerCharacter" /\ PlayerNext /\ UNCHANGED <<sessionVars, loggerVars, itemVars>>
     \/ object = "Item" /\ ItemNext /\ UNCHANGED <<sessionVars, loggerVars, playerVars>>

MCSpec == MCInit /\ [][MCNext]_<<object, plainVars, components>>

---------------------------------------------------------------------------
(* The variables of each class have their types. *)
TypeOK ==
  /\ PlainTypeOK
  /\ object = "Session" => SessionTypeOK
  /\ object = "Logger" => LoggerTypeOK
  /\ object = "PlayerCharacter" => PlayerTypeOK
  /\ object = "Item" => ItemTypeOK

(* CountersAdd and ItemKeeps of the object at hand: in a behaviour about a *)
(* PlayerCharacter ordered additions are never lost, in one about an Item  *)
(* slots and sockets keep what was set.                                    *)
MCCountersAdd == object = "PlayerCharacter" => CountersAdd
MCItemKeeps   == object = "Item" => ItemKeeps
=============================================================================
