------------------------------ MODULE Logger ------------------------------
(***************************************************************************)
(* The level test of a Logger.  trace(), debug(), ... critical() compare   *)
(* m_minLevel, a plain member, with their level, then format the message,  *)
(* which may log and may throw, and then hand it to log(), which does not  *)
(* test again.  log() is only declared; it is one step here.  Neither      *)
(* setLevel() nor the test takes a lock: what a thread knows of levels set *)
(* by others is what code outside of the class hands over to it.           *)
(***************************************************************************)
EXTENDS PlainMembers

CONSTANTS
  LogLevels,   \* the levels in use
  MaxLogDepth  \* bound: messages formatted inside each other

LogLevel == [Trace |-> 0, Debug |-> 1, Info |-> 2, Warning |-> 3, Error |-> 4, Critical |-> 5]

ASSUME LoggerAssumption ==
  /\ LogLevels \subseteq Range(LogLevel) /\ LogLevel.Info \in LogLevels
  /\ MaxLogDepth \in Nat

VARIABLES
  calls,     \* calls[t]: levels of the messages t is formatting, innermost last
  ordered,   \* the threads that are ordered after the last setLevel()
  allowance  \* allowance[t]: messages below that level such a t may still log

loggerVars == <<calls, ordered, allowance>>

LoggerMembers == {"minLevel"}

LoggerInit ==
  /\ calls = [t \in Threads |-> <<>>]
  /\ ordered = Threads
  /\ allowance = [t \in Threads |-> 0]

(* How many messages in the making have a lower level than this. *)
BelowLevel(messages, level) == Cardinality({k \in DOMAIN messages : messages[k] < level})

(* setLevel() orders no other thread: those that were ordered after the    *)
(* level before need not be after this one.                                *)
SetLevel(t, level) ==
  /\ MayStore
  /\ Store(t, "minLevel", level)
  /\ ordered' = {t}
  /\ allowance' = [allowance EXCEPT ![t] = BelowLevel(calls[t], level)]
  /\ UNCHANGED <<calls, raced>>

(* The level test, with whichever level the thread may still read. *)
Untested(min, level) == TRUE  \* seeded fault: the test is forgotten
Passes(min, level)   == min <= level

Log(t, level) ==
  /\ Len(calls[t]) < MaxLogDepth
  /\ \E i \in 1..Len(stores.minLevel) :
       /\ Load(t, "minLevel", i)
       /\ calls' = IF Passes(stores.minLevel[i], level)
                   THEN [calls EXCEPT ![t] = Append(@, level)] ELSE calls
  /\ UNCHANGED <<ordered, allowance, raced>>

(* format() returns and log() writes the message ... *)
Write(t) ==
  /\ calls[t] # <<>>
  /\ calls' = [calls EXCEPT ![t] = Front(@)]
  /\ allowance' = IF t \in ordered /\ Last(calls[t]) < Latest("minLevel")
                  THEN [allowance EXCEPT ![t] = @ - 1] ELSE allowance
  /\ UNCHANGED <<ordered, stores, view, raced>>

(* ... or an operator<< throws. *)
FormatThrows(t) ==
  /\ calls[t] # <<>>
  /\ calls' = [calls EXCEPT ![t] = Front(@)]
  /\ UNCHANGED <<ordered, allowance, stores, view, raced>>

(* A lock, a queue or a join orders u after t, also in the middle of a     *)
(* message: from then on u knows the last level if t did.                  *)
LoggerHandOver(t, u) ==
  /\ HandOver(t, u)
  /\ IF t \in ordered /\ u \notin ordered
     THEN /\ ordered' = ordered \cup {u}
          /\ allowance' = [allowance EXCEPT ![u] = BelowLevel(calls[u], Latest("minLevel"))]
     ELSE UNCHANGED <<ordered, allowance>>
  /\ UNCHANGED calls

LoggerNext ==
  \E t \in Threads :
    \/ \E level \in LogLevels : SetLevel(t, level) \/ Log(t, level)
    \/ Write(t) \/ FormatThrows(t)
    \/ \E u \in Threads : LoggerHandOver(t, u)

LoggerSpec ==
  /\ PlainInit(LoggerMembers, LogLevel.Info) /\ LoggerInit
  /\ [][LoggerNext]_<<plainVars, loggerVars>>

---------------------------------------------------------------------------
LoggerTypeOK ==
  /\ \A t \in Threads : calls[t] \in Seq(LogLevels)
  /\ ordered \subseteq Threads
  /\ \A i \in DOMAIN stores.minLevel : stores.minLevel[i] \in LogLevels

(* The level is tested before a message is formatted and not again when it *)
(* is logged.  A thread that is ordered after the last setLevel(), because *)
(* it made the call or was handed something by a thread that is, logs no   *)
(* more messages below the level than it was formatting at that moment,    *)
(* whatever is logged inside of them and whatever level others saw.  Of a  *)
(* thread that is not ordered nothing is promised.                         *)
LevelHolds == \A t \in ordered : allowance[t] >= 0
=============================================================================
