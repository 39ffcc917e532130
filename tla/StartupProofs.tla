---------------------------- MODULE StartupProofs ----------------------------
(***************************************************************************)
(* What the worker may do beside the constructor, whatever the members     *)
(* hold before they are assigned.                                          *)
(***************************************************************************)
EXTENDS Startup, TLAPS

(* Nobody can queue an event yet, so the worker keeps finding nothing.     *)
NothingToDo ==
  ~Built => Drained /\ wpc \in {"ready", "sleep", "waiting", "done"}

\* NothingToDo is inductive.
LEMMA NothingToDoInit == StartInit => NothingToDo
BY DEF StartInit, Fresh, NothingToDo, Drained

LEMMA NothingToDoStep == NothingToDo /\ [StartNext]_startVars => NothingToDo'
<1> SUFFICES ASSUME NothingToDo, [StartNext]_startVars, ~Built'
             PROVE  Drained' /\ wpc' \in {"ready", "sleep", "waiting", "done"}
  BY DEF NothingToDo
<1> USE DEF Drained, queues, control
<1>1. CASE \E member \in ToSet(Members) : Assign(member)
  BY <1>1 DEF Assign, NothingToDo
<1>2. CASE ~\E member \in ToSet(Members) : Assign(member)
  <2>1. /\ ~Built /\ Drained
        /\ wpc \in {"ready", "sleep", "waiting", "done"}
        /\ WorkerStep \/ WorkerSpurious \/ Tick \/ UNCHANGED <<queues, wpc>>
    BY <1>2 DEF StartNext, Built, NothingToDo, startVars, vars, Destroyed
  <2>2. CASE WorkerSpurious \/ Tick \/ UNCHANGED <<queues, wpc>>
    BY <2>1, <2>2 DEF WorkerSpurious, WorkerGoes, Tick
  <2>3. CASE WorkerStep
    <3>1. CASE WorkerAcquire \/ WorkerTimeout
      BY <2>1, <3>1 DEF WorkerAcquire, WorkerTimeout, WorkerGoes
    <3>2. CASE WorkerDrained
      BY <2>1, <3>2 DEF WorkerDrained
    <3>3. ~WorkerHasWork
      BY <2>1 DEF WorkerHasWork
    <3>4. ~(Gather \/ GatherTooBig \/ GatherDone \/ WaitForMore \/ StartPost
            \/ PostOk \/ PostRetry \/ PostGiveUp \/ NotifyNext \/ CallbackReturn \/ NotifyDone)
      BY <2>1 DEF Gather, GatherTooBig, GatherDone, WaitForMore, StartPost, PostOk,
         PostRetry, PostGiveUp, FinishBatch, NotifyNext, CallbackReturn, NotifyDone, WorkerGoes
    <3>. QED BY <2>3, <3>1, <3>2, <3>3, <3>4 DEF WorkerStep
  <2>. QED BY <2>1, <2>2, <2>3
<1>. QED BY <1>1, <1>2

(* The worker started in the middle of the constructor uses none of the    *)
(* members that are still without a value, except shutdown.                *)
THEOREM WaitsUntilBuilt == StartSpec => []OnlyWaitsUntilBuilt
<1>1. NothingToDo => OnlyWaitsUntilBuilt
  BY DEF NothingToDo, OnlyWaitsUntilBuilt
<1>. QED BY <1>1, NothingToDoInit, NothingToDoStep, PTL DEF StartSpec

-----------------------------------------------------------------------------
(* With shutdown holding false, the start is one of Analytics.tla's.       *)

(* Until the object is built no clock runs: wakeTime is past or never.     *)
Unbuilt ==
  /\ assigned \in 0..8
  /\ ~shutdown
  /\ wakeIn = Never \/ (wakeIn = 0 /\ ~Has("wakeTime"))
  /\ retryIn = 0 /\ \A e \in Events : dueIn[e] = 0

StartInv ==
  /\ needFlush \in BOOLEAN /\ shutdown \in BOOLEAN
  /\ NothingToDo
  /\ ~Built => Unbuilt

\* When all members are assigned, these are.
LEMMA BuiltHasAll ==
  ASSUME Built
  PROVE  Has("shutdown") /\ Has("needFlush") /\ Has("wakeTime")
BY DEF Built, Has, Members

\* A constant operator of the instance is that of the module itself.
LEMMA SameBytes == \A b : Settled!BatchBytes(b) = BatchBytes(b)
BY DEF BatchBytes, Settled!BatchBytes, FoldSeq, Settled!FoldSeq, FoldFunction,
  Settled!FoldFunction, FoldFunctionOnSet, Settled!FoldFunctionOnSet, MapThenFoldSet,
  Settled!MapThenFoldSet

\* Of a built object the settled values are the values, so a step is its own image.
LEMMA BuiltSteps ==
  ASSUME StartInv, StartInv', Built, Built', Next
  PROVE  Settled!Next
<1>1. /\ (shutdown /\ Has("shutdown")) = shutdown
      /\ (needFlush /\ Has("needFlush")) = needFlush
      /\ (IF Has("wakeTime") THEN wakeIn ELSE Never) = wakeIn
  BY BuiltHasAll DEF StartInv
<1>2. Has("shutdown")' /\ Has("needFlush")' /\ Has("wakeTime")'
  BY DEF Built, Has, Members
<1>3. /\ (shutdown /\ Has("shutdown"))' = shutdown'
      /\ (needFlush /\ Has("needFlush"))' = needFlush'
      /\ (IF Has("wakeTime") THEN wakeIn ELSE Never)' = wakeIn'
  BY <1>2 DEF StartInv
<1> USE <1>1, <1>3, SameBytes
  DEF
      Callers, Settled!Callers, Never, Settled!Never, LockFree, Settled!LockFree,
      NotifyFlushCv, Settled!NotifyFlushCv, NotifyEmptyCv, Settled!NotifyEmptyCv,
      Earlier, Settled!Earlier, CanCall, Settled!CanCall, Drained, Settled!Drained,
      Fits, Settled!Fits, BatchHasRoom, Settled!BatchHasRoom, TakeFront,
      Settled!TakeFront, MayWait, Settled!MayWait, HandOver, Settled!HandOver,
      RetriesLeft, Settled!RetriesLeft, CountFailure, Settled!CountFailure, Elapse,
      Settled!Elapse, ToSet, Settled!ToSet, InSend, Settled!InSend, ClockRuns,
      Settled!ClockRuns, WorkerGoes, Settled!WorkerGoes, FinishBatch,
      Settled!FinishBatch, queues, Settled!queues, flags, Settled!flags, timers,
      Settled!timers, locals, Settled!locals, control, Settled!control, callers,
      Settled!callers, observers, Settled!observers, vars, Settled!vars
<1>4. \A t \in Callers, e \in Events : Enqueue(t, e) => Settled!Enqueue(t, e)
  BY DEF Enqueue, Settled!Enqueue
<1>5. \A t \in Callers : Flush(t) => Settled!Flush(t)
  BY DEF Flush, Settled!Flush
<1>6. \A t \in Callers : Scrub(t) => Settled!Scrub(t)
  BY DEF Scrub, Settled!Scrub
<1>7. \A t \in Callers : FlushWaitCall(t) => Settled!FlushWaitCall(t)
  BY DEF FlushWaitCall, Settled!FlushWaitCall
<1>8. \A t \in Callers : FlushWaitReturn(t) => Settled!FlushWaitReturn(t)
  BY DEF FlushWaitReturn, Settled!FlushWaitReturn
<1>9. \A t \in Callers : FlushWaitBlock(t) => Settled!FlushWaitBlock(t)
  BY DEF FlushWaitBlock, Settled!FlushWaitBlock
<1>10. \A t \in Callers : FlushWaitSpurious(t) => Settled!FlushWaitSpurious(t)
  BY DEF FlushWaitSpurious, Settled!FlushWaitSpurious
<1>11. \A t \in Threads : Destroy(t) => Settled!Destroy(t)
  BY DEF Destroy, Settled!Destroy
<1>12. DestroyStop => Settled!DestroyStop
  BY DEF DestroyStop, Settled!DestroyStop
<1>13. DestroyJoin => Settled!DestroyJoin
  BY DEF DestroyJoin, Settled!DestroyJoin
<1>14. WorkerAcquire => Settled!WorkerAcquire
  BY DEF WorkerAcquire, Settled!WorkerAcquire
<1>15. WorkerTimeout => Settled!WorkerTimeout
  BY DEF WorkerTimeout, Settled!WorkerTimeout
<1>16. WorkerDrained => Settled!WorkerDrained
  BY DEF WorkerDrained, Settled!WorkerDrained
<1>17. WorkerHasWork => Settled!WorkerHasWork
  BY DEF WorkerHasWork, Settled!WorkerHasWork
<1>18. Gather => Settled!Gather
  BY DEF Gather, Settled!Gather
<1>19. GatherTooBig => Settled!GatherTooBig
  BY DEF GatherTooBig, Settled!GatherTooBig
<1>20. GatherDone => Settled!GatherDone
  BY DEF GatherDone, Settled!GatherDone
<1>21. WaitForMore => Settled!WaitForMore
  BY DEF WaitForMore, Settled!WaitForMore
<1>22. StartPost => Settled!StartPost
  BY DEF StartPost, Settled!StartPost
<1>23. PostOk => Settled!PostOk
  BY DEF PostOk, Settled!PostOk
<1>24. PostRetry => Settled!PostRetry
  BY DEF PostRetry, Settled!PostRetry
<1>25. PostGiveUp => Settled!PostGiveUp
  BY DEF PostGiveUp, Settled!PostGiveUp
<1>26. NotifyNext => Settled!NotifyNext
  BY DEF NotifyNext, Settled!NotifyNext
<1>27. CallbackReturn => Settled!CallbackReturn
  BY DEF CallbackReturn, Settled!CallbackReturn
<1>28. NotifyDone => Settled!NotifyDone
  BY DEF NotifyDone, Settled!NotifyDone
<1>29. WorkerSpurious => Settled!WorkerSpurious
  BY DEF WorkerSpurious, Settled!WorkerSpurious
<1>30. Tick => Settled!Tick
  BY DEF Tick, Settled!Tick
<1>31. Destroyed => Settled!Destroyed
  BY DEF Destroyed, Settled!Destroyed
<1>. QED
  BY <1>4, <1>5, <1>6, <1>7, <1>8, <1>9, <1>10, <1>11, <1>12, <1>13, <1>14, <1>15,
     <1>16, <1>17, <1>18, <1>19, <1>20, <1>21, <1>22, <1>23, <1>24, <1>25, <1>26,
     <1>27, <1>28, <1>29, <1>30, <1>31
  DEF Next, Settled!Next, Application, Settled!Application, WorkerStep, Settled!WorkerStep

\* StartInv is inductive.
LEMMA StartInvInit == UnsetShutdown = {FALSE} /\ StartInit => StartInv
<1> SUFFICES ASSUME UnsetShutdown = {FALSE}, StartInit  PROVE StartInv
  OBVIOUS
<1>1. needFlush \in BOOLEAN /\ shutdown \in BOOLEAN /\ ~shutdown
  BY DEF StartInit
<1>2. assigned \in 0..8 /\ wakeIn = 0 /\ retryIn = 0 /\ \A e \in Events : dueIn[e] = 0
  BY DEF StartInit, Fresh
<1>3. ~Has("wakeTime")
  BY DEF StartInit, Has
<1>4. Unbuilt
  BY <1>1, <1>2, <1>3 DEF Unbuilt
<1>. QED BY <1>1, <1>4, NothingToDoInit DEF StartInv

\* The only steps there are before the object is built.
LEMMA UnbuiltSteps ==
  ASSUME StartInv, ~Built, [StartNext]_startVars
  PROVE  \/ \E member \in ToSet(Members) : Assign(member)
         \/ /\ UNCHANGED assigned
            /\ WorkerAcquire \/ WorkerTimeout \/ WorkerDrained \/ WorkerSpurious
         \/ UNCHANGED startVars
<1>1. /\ Drained /\ wpc \in {"ready", "sleep", "waiting", "done"}
      /\ wakeIn \in {0, Never} /\ retryIn = 0 /\ \A e \in Events : dueIn[e] = 0
  BY DEF StartInv, NothingToDo, Unbuilt
<1>2. ~Tick
  <2>1. ~InSend /\ ~(retryIn > 0) /\ \A e \in Events : ~(dueIn[e] > 0)
    BY <1>1 DEF InSend
  <2>. QED BY <1>1, <2>1 DEF Tick, ClockRuns
<1>3. ~(WorkerHasWork \/ Gather \/ GatherTooBig \/ GatherDone \/ WaitForMore \/ StartPost
        \/ PostOk \/ PostRetry \/ PostGiveUp \/ NotifyNext \/ CallbackReturn \/ NotifyDone)
  BY <1>1 DEF WorkerHasWork, Gather, GatherTooBig, GatherDone, WaitForMore, StartPost,
     PostOk, PostRetry, PostGiveUp, FinishBatch, NotifyNext, CallbackReturn, NotifyDone,
     WorkerGoes
<1>. QED BY <1>2, <1>3 DEF StartNext, WorkerStep, Destroyed, startVars

\* Which members the next assignment adds.
LEMMA AssignHas ==
  ASSUME assigned \in 0..8, NEW member, Assign(member)
  PROVE  /\ ~Has(member) /\ \A m : Has(m)' <=> Has(m) \/ m = member
         /\ ~Built' => assigned' \in 0..8
BY DEF Assign, Has, Members, Built

\* An assignment changes nothing as far as the settled values go.
LEMMA AssignSettled ==
  ASSUME StartInv, ~Built, NEW member, Assign(member)
  PROVE  UNCHANGED Settled!vars
<1>1. assigned \in 0..8 /\ ~shutdown /\ (wakeIn = Never \/ ~Has("wakeTime"))
  BY DEF StartInv, Unbuilt
<1>2. ~Has(member) /\ \A m : Has(m)' <=> Has(m) \/ m = member
  BY <1>1, AssignHas
<1>3. (shutdown /\ Has("shutdown"))' = (shutdown /\ Has("shutdown"))
  BY <1>1 DEF Assign, SetFlags
<1>4. (needFlush /\ Has("needFlush"))' = (needFlush /\ Has("needFlush"))
  BY <1>2 DEF Assign, SetFlags
<1>5. (IF Has("wakeTime") THEN wakeIn ELSE Never)' = (IF Has("wakeTime") THEN wakeIn ELSE Never)
  BY <1>1, <1>2 DEF Assign, Never
<1>. QED BY <1>3, <1>4, <1>5 DEF Assign, Settled!vars, Settled!queues, Settled!flags,
  Settled!timers, Settled!locals, Settled!control, Settled!callers, Settled!observers,
  queues, locals, control, callers, observers, Settled!Never, Never

\* The worker beside the constructor takes steps it might take later.
LEMMA WorkerSettled ==
  ASSUME StartInv, ~Built, UNCHANGED assigned,
         WorkerAcquire \/ WorkerTimeout \/ WorkerDrained \/ WorkerSpurious
  PROVE  Settled!WorkerAcquire \/ Settled!WorkerTimeout \/ Settled!WorkerDrained
         \/ Settled!WorkerSpurious
<1>1. \A m : Has(m)' <=> Has(m)
  BY DEF Has
<1>2. ~shutdown /\ UNCHANGED <<shutdown, needFlush>>
  BY DEF StartInv, Unbuilt, WorkerAcquire, WorkerTimeout, WorkerDrained, WorkerSpurious, flags
<1>3. (shutdown /\ Has("shutdown"))' = (shutdown /\ Has("shutdown"))
  BY <1>2
<1>4. (needFlush /\ Has("needFlush"))' = (needFlush /\ Has("needFlush"))
  BY <1>1, <1>2
<1> USE <1>1, <1>2, <1>3, <1>4
  DEF WorkerGoes, Settled!WorkerGoes, NotifyEmptyCv, Settled!NotifyEmptyCv,
      Drained, Settled!Drained, Callers, Settled!Callers, Never, Settled!Never,
      queues, Settled!queues, flags, Settled!flags, timers, Settled!timers,
      locals, Settled!locals, callers, Settled!callers, observers, Settled!observers
<1>5. WorkerAcquire => Settled!WorkerAcquire
  BY DEF WorkerAcquire, Settled!WorkerAcquire
<1>6. WorkerTimeout => Settled!WorkerTimeout
  BY DEF WorkerTimeout, Settled!WorkerTimeout
<1>7. WorkerDrained => Settled!WorkerDrained
  BY DEF WorkerDrained, Settled!WorkerDrained
<1>8. WorkerSpurious => Settled!WorkerSpurious
  BY DEF WorkerSpurious, Settled!WorkerSpurious
<1>. QED BY <1>5, <1>6, <1>7, <1>8

LEMMA StartInvStep == StartInv /\ [StartNext]_startVars => StartInv'
<1> SUFFICES ASSUME StartInv, [StartNext]_startVars  PROVE StartInv'
  OBVIOUS
<1>1. NothingToDo'
  BY NothingToDoStep DEF StartInv
<1>2. CASE ~Built
  <2>1. /\ assigned \in 0..8 /\ ~shutdown
        /\ wakeIn = Never \/ (wakeIn = 0 /\ ~Has("wakeTime"))
        /\ retryIn = 0 /\ \A e \in Events : dueIn[e] = 0
        /\ needFlush \in BOOLEAN /\ shutdown \in BOOLEAN
    BY <1>2 DEF StartInv, Unbuilt
  <2>2. CASE \E member \in ToSet(Members) : Assign(member)
    <3>0. PICK member \in ToSet(Members) : Assign(member)
      BY <2>2
    <3>1. /\ ~Has(member) /\ \A m : Has(m)' <=> Has(m) \/ m = member
          /\ ~Built' => assigned' \in 0..8
      BY <2>1, <3>0, AssignHas
    <3>2. needFlush' \in BOOLEAN /\ shutdown' \in BOOLEAN /\ ~shutdown'
      BY <2>1, <3>0 DEF Assign, SetFlags
    <3>3. wakeIn' = Never \/ (wakeIn' = 0 /\ ~Has("wakeTime")')
      <4>1. CASE member = "wakeTime"
        BY <3>0, <4>1 DEF Assign, Never
      <4>2. CASE member # "wakeTime"
        BY <2>1, <3>0, <3>1, <4>2 DEF Assign
      <4>. QED BY <4>1, <4>2
    <3>4. retryIn' = 0 /\ \A e \in Events : dueIn'[e] = 0
      BY <2>1, <3>0 DEF Assign, observers
    <3>. QED BY <1>1, <3>1, <3>2, <3>3, <3>4 DEF StartInv, Unbuilt, Never
  <2>3. CASE /\ UNCHANGED assigned
             /\ WorkerAcquire \/ WorkerTimeout \/ WorkerDrained \/ WorkerSpurious
    <3>1. /\ UNCHANGED <<assigned, shutdown, needFlush, retryIn, dueIn>>
          /\ wakeIn' = wakeIn \/ wakeIn' = Never
      BY <2>3 DEF WorkerAcquire, WorkerTimeout, WorkerDrained, WorkerSpurious, flags, timers,
         observers
    <3>2. needFlush' \in BOOLEAN /\ shutdown' \in BOOLEAN /\ ~shutdown'
      BY <2>1, <3>1
    <3>3. wakeIn' = Never \/ (wakeIn' = 0 /\ ~Has("wakeTime")')
      BY <2>1, <3>1 DEF Has
    <3>. QED BY <1>1, <2>1, <3>1, <3>2, <3>3 DEF StartInv, Unbuilt, Never
  <2>4. CASE UNCHANGED startVars
    BY <1>1, <2>1, <2>4 DEF StartInv, Unbuilt, startVars, vars, flags, timers, observers, Has,
       Built, Never
  <2>. QED BY <1>2, <2>2, <2>3, <2>4, UnbuiltSteps
<1>3. CASE Built
  <2>1. Built' /\ [Next]_vars
    BY <1>3 DEF StartNext, Next, Built, Assign, startVars
  <2>2. needFlush' \in BOOLEAN /\ shutdown' \in BOOLEAN
    <3> USE DEF StartInv, flags, FinishBatch
    <3>1. CASE Application
      BY <3>1 DEF Application, Enqueue, Flush, Scrub, FlushWaitCall, FlushWaitReturn,
         FlushWaitBlock, FlushWaitSpurious, Destroy, DestroyStop, DestroyJoin
    <3>2. CASE WorkerStep
      BY <3>2 DEF WorkerStep, WorkerAcquire, WorkerTimeout, WorkerDrained, WorkerHasWork,
         Gather, GatherTooBig, GatherDone, WaitForMore, StartPost, PostOk, PostRetry,
         PostGiveUp, NotifyNext, CallbackReturn, NotifyDone
    <3>3. CASE WorkerSpurious \/ Tick \/ Destroyed \/ UNCHANGED vars
      BY <3>3 DEF WorkerSpurious, Tick, Destroyed, vars
    <3>. QED BY <2>1, <3>1, <3>2, <3>3 DEF Next
  <2>. QED BY <1>1, <2>1, <2>2 DEF StartInv
<1>. QED BY <1>2, <1>3

(* What the application, the constructor and the worker do together is a   *)
(* run of Analytics.tla: the worker may start early, and wakeTime may be   *)
(* written by either thread last, provided shutdown happens to hold false  *)
(* until it is assigned.                                                   *)
THEOREM StartImplements ==
  ASSUME UnsetShutdown = {FALSE}  PROVE StartSpec => StartsClean
<1>1. StartInit => Settled!Init
  <2> SUFFICES ASSUME StartInit  PROVE Settled!Init
    OBVIOUS
  <2>1. \A m : ~Has(m)
    BY DEF StartInit, Has
  <2>. QED BY <2>1 DEF StartInit, Fresh, Settled!Init, Settled!Fresh, Callers, Settled!Callers,
           Never, Settled!Never
<1>2. ASSUME StartInv, StartInv', [StartNext]_startVars
      PROVE  [Settled!Next]_(Settled!vars)
  <2>1. CASE ~Built
    <3>1. CASE \E member \in ToSet(Members) : Assign(member)
      BY <1>2, <2>1, <3>1, AssignSettled
    <3>2. CASE /\ UNCHANGED assigned
               /\ WorkerAcquire \/ WorkerTimeout \/ WorkerDrained \/ WorkerSpurious
      BY <1>2, <2>1, <3>2, WorkerSettled DEF Settled!Next, Settled!WorkerStep
    <3>3. CASE UNCHANGED startVars
      BY <3>3 DEF startVars, Has, Settled!vars, Settled!queues, Settled!flags, Settled!timers,
         Settled!locals, Settled!control, Settled!callers, Settled!observers, vars, queues,
         flags, timers, locals, control, callers, observers, Never, Settled!Never
    <3>. QED BY <1>2, <2>1, <3>1, <3>2, <3>3, UnbuiltSteps
  <2>2. CASE Built
    <3>1. Built' /\ (Next \/ UNCHANGED startVars)
      BY <1>2, <2>2 DEF StartNext, Next, Built, Assign, startVars
    <3>2. CASE Next
      BY <1>2, <2>2, <3>1, <3>2, BuiltSteps
    <3>3. CASE UNCHANGED startVars
      BY <3>3 DEF startVars, Has, Settled!vars, Settled!queues, Settled!flags, Settled!timers,
         Settled!locals, Settled!control, Settled!callers, Settled!observers, vars, queues,
         flags, timers, locals, control, callers, observers, Never, Settled!Never
    <3>. QED BY <3>1, <3>2, <3>3
  <2>. QED BY <2>1, <2>2
<1>3. StartSpec => []StartInv
  BY StartInvInit, StartInvStep, PTL DEF StartSpec
<1>. QED BY <1>1, <1>2, <1>3, PTL DEF StartSpec, StartsClean, Settled!Spec

=============================================================================
