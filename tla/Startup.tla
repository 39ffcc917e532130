------------------------------- MODULE Startup -------------------------------
(***************************************************************************)
(* The constructors of Analytics start the worker and only then assign     *)
(* most members, without the lock: the worker runs beside them, on         *)
(* Analytics.tla's steps, and may find a member without a value.  The      *)
(* application has the object, and calls it, once the constructor is done. *)
(***************************************************************************)
EXTENDS Analytics

CONSTANT UnsetShutdown   \* what shutdown may hold before it is assigned

ASSUME StartupAssumption == UnsetShutdown \subseteq BOOLEAN

VARIABLE assigned  \* how many of Members the constructor has assigned

startVars == <<vars, assigned>>

\* In the order of the assignments after the thread is started.
Members == <<"MaxRetries", "RetryInterval", "shutdown", "FlushCount", "FlushSize",
             "FlushInterval", "needFlush", "wakeTime", "Context">>

Has(member) == \E i \in 1..assigned : Members[i] = member

Built == assigned = Len(Members)

-----------------------------------------------------------------------------
(* A plausible mistake, used by no definition of the model. *)
SetFlagsButNeedFlush(member) ==
  shutdown' = (member # "shutdown" /\ shutdown) /\ needFlush' = needFlush

-----------------------------------------------------------------------------
\* A time_point starts at the epoch, which is past; a bool may hold anything.
StartInit ==
  /\ Fresh
  /\ needFlush \in BOOLEAN /\ shutdown \in UnsetShutdown
  /\ wakeIn = 0
  /\ assigned = 0

SetFlags(member) ==
  /\ shutdown' = (member # "shutdown" /\ shutdown)
  /\ needFlush' = (member # "needFlush" /\ needFlush)

Assign(member) ==
  /\ ~Built /\ Members[assigned + 1] = member
  /\ assigned' = assigned + 1
  /\ SetFlags(member)
  /\ wakeIn' = IF member = "wakeTime" THEN Never ELSE wakeIn
  /\ UNCHANGED <<queues, retryIn, sinceNow, locals, control, callers, observers>>

StartNext ==
  \/ \E member \in ToSet(Members) : Assign(member)
  \/ Built /\ Application /\ UNCHANGED assigned
  \/ (WorkerStep \/ WorkerSpurious \/ Tick \/ Destroyed) /\ UNCHANGED assigned

StartSpec == StartInit /\ [][StartNext]_startVars

-----------------------------------------------------------------------------

(* Until the constructor is done the worker goes no further than to find   *)
(* the queues empty: the limits, the intervals, needFlush and Context,     *)
(* which have no value yet, are not used.                                  *)
OnlyWaitsUntilBuilt ==
  ~Built => wpc \in {"ready", "sleep", "waiting", "done"}

(* With the members taken at their assigned values, what the two threads   *)
(* do is a run of Analytics.tla, whichever of them writes wakeTime last.   *)
(* This takes a shutdown that holds false before it is assigned.           *)
Settled == INSTANCE Analytics
  WITH shutdown  <- shutdown /\ Has("shutdown"),
       needFlush <- needFlush /\ Has("needFlush"),
       wakeIn    <- IF Has("wakeTime") THEN wakeIn ELSE Never
StartsClean == Settled!Spec

(* analytics.hpp:84-87: Flush "wakes up the asynchronous background        *)
(* thread": an object that is built and not being destroyed has one.       *)
WorkerRuns == Built /\ closing = "no" => wpc # "done"

=============================================================================
