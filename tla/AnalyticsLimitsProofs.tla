------------------------ MODULE AnalyticsLimitsProofs ------------------------
(***************************************************************************)
(* Proofs about the limits of the event queue: the deadline of the         *)
(* worker's wait, the number of posts, the size of a batch.                *)
(***************************************************************************)
EXTENDS AnalyticsProofs

-----------------------------------------------------------------------------
(* What the proofs use of the invariants of AnalyticsProofs.tla.           *)

LineInv == TypeOK /\ ControlInv /\ OnePlace

LEMMA LineCorrect == Spec => []LineInv
BY ControlCorrect, InOnePlace, PTL DEF LineInv

\* The queues hold different events, and only queued ones.
LEMMA QueuesApart ==
  ASSUME LineInv
  PROVE  /\ Distinct(events) /\ Distinct(batch)
         /\ ToSet(events) \intersect ToSet(batch) = {}
         /\ ToSet(events) \subseteq Events /\ ToSet(batch) \subseteq Events
         /\ \A e \in ToSet(events) \union ToSet(batch) : outcome[e] = "queued"
<1>1. notifyq \in Seq(Events) /\ batch \in Seq(Events) /\ events \in Seq(Events)
  BY DEF LineInv, TypeOK
<1>2. /\ Pending = notifyq \o (batch \o events)
      /\ batch \o events \in Seq(Events)
  BY PendingType DEF LineInv
<1>3. Distinct(Pending) /\ \A e \in Events : outcome[e] = "queued" <=> e \in ToSet(Pending)
  BY DEF LineInv, OnePlace, Delivery!OnePlace, Delivery!ToSet, ToSet, Distinct
<1>4. Distinct(batch \o events) /\ ToSet(batch \o events) \subseteq ToSet(Pending)
  <2> DEFINE rest == batch \o events
  <2>0. rest \in Seq(Events) /\ Pending = notifyq \o rest
    BY <1>2
  <2> HIDE DEF rest
  <2>1. Distinct(notifyq \o rest) => Distinct(rest)
    BY <1>1, <2>0, ConcatToSet
  <2>2. ToSet(notifyq \o rest) = ToSet(notifyq) \union ToSet(rest)
    BY <1>1, <2>0, ConcatToSet
  <2>3. Distinct(rest) /\ ToSet(rest) \subseteq ToSet(Pending)
    BY <1>3, <2>0, <2>1, <2>2
  <2>. QED BY <2>3 DEF rest
<1>5. /\ Distinct(events) /\ Distinct(batch)
      /\ ToSet(batch) \intersect ToSet(events) = {}
      /\ ToSet(batch \o events) = ToSet(batch) \union ToSet(events)
  BY <1>1, <1>4, ConcatToSet
<1>6. ToSet(events) \subseteq Events /\ ToSet(batch) \subseteq Events
  BY <1>1, ToSetIndexed
<1>. QED BY <1>3, <1>4, <1>5, <1>6

\* The gather loop moves the front of one queue to the end of the other.
LEMMA GatherMoves ==
  ASSUME LineInv, Gather
  PROVE  /\ Head(events) \in ToSet(events)
         /\ ToSet(events) = {Head(events)} \union ToSet(events')
         /\ ToSet(batch') = ToSet(batch) \union {Head(events)}
<1>1. events \in Seq(Events) /\ batch \in Seq(Events) /\ events # <<>>
  BY DEF LineInv, TypeOK, Gather, BatchHasRoom
<1>2. Head(events) \in Events
  BY <1>1, HeadTailProperties
<1>. QED BY <1>1, <1>2, TailToSet, AppendToSet DEF Gather, TakeFront

\* The steps that the proofs below look into; the others leave alone what they are about.
LEMMA StepsThatMatter ==
  ASSUME [Next]_vars
  PROVE  \/ \E t \in Callers, e \in Events : Enqueue(t, e)
         \/ \E t \in Callers : Scrub(t)
         \/ Gather \/ WorkerDrained \/ StartPost \/ PostOk \/ PostGiveUp \/ PostRetry
         \/ NotifyNext \/ Tick
         \/ /\ UNCHANGED <<events, batch, notifyq, wakeIn, ok, fails, outcome, dueIn, attempts>>
            /\ wpc' = "sending" <=> wpc = "sending"
<1> DEFINE Quiet == /\ UNCHANGED <<events, batch, notifyq, wakeIn, ok, fails, outcome, dueIn, attempts>>
                    /\ wpc' = "sending" <=> wpc = "sending"
<1> USE DEF queues, timers, locals, control, observers
<1>1. ASSUME NEW t \in Callers, Flush(t) \/ FlushWaitBlock(t) PROVE Quiet
  BY <1>1 DEF Flush, FlushWaitBlock, NotifyFlushCv, LockFree
<1>2. ASSUME NEW t \in Callers, FlushWaitCall(t) \/ FlushWaitReturn(t) \/ FlushWaitSpurious(t)
      PROVE  Quiet
  BY <1>2 DEF FlushWaitCall, FlushWaitReturn, FlushWaitSpurious
<1>3. ASSUME NEW t \in Threads, Destroy(t) PROVE Quiet
  BY <1>3 DEF Destroy
<1>4. CASE DestroyStop \/ DestroyJoin
  BY <1>4 DEF DestroyStop, DestroyJoin, NotifyFlushCv, LockFree
<1>5. CASE WorkerAcquire \/ WorkerTimeout \/ WorkerSpurious \/ WorkerHasWork
             \/ CallbackReturn \/ NotifyDone
  BY <1>5 DEF WorkerAcquire, WorkerTimeout, WorkerSpurious, WorkerHasWork, CallbackReturn,
              NotifyDone, WorkerGoes
<1>6. CASE GatherTooBig \/ GatherDone \/ WaitForMore
  BY <1>6 DEF GatherTooBig, GatherDone, WaitForMore, WorkerGoes
<1>7. CASE UNCHANGED vars
  BY <1>7 DEF vars
<1>. QED
  BY <1>1, <1>2, <1>3, <1>4, <1>5, <1>6, <1>7 DEF Next, Application, WorkerStep, Destroyed

-----------------------------------------------------------------------------
(* The deadline.                                                           *)

\* wakeTime is never later than FlushInterval after an event not yet uploaded was queued.
WakeInTime == \A e \in ToSet(events) \union ToSet(batch) : wakeIn <= dueIn[e]

LEMMA InitWakeInTime == Init => WakeInTime
BY ToSetEmpty DEF Init, Fresh, WakeInTime

LEMMA NextWakeInTime ==
  ASSUME LineInv, WakeInTime, [Next]_vars
  PROVE  WakeInTime'
<1> USE DEF WakeInTime
<1>0. /\ events \in Seq(Events) /\ batch \in Seq(Events)
      /\ wakeIn \in 0..Never /\ dueIn \in [Events -> 0..FlushInterval]
      /\ ToSet(events) \subseteq Events /\ ToSet(batch) \subseteq Events
  BY QueuesApart DEF LineInv, TypeOK
<1>1. ASSUME NEW t \in Callers, NEW e \in Events, Enqueue(t, e) PROVE WakeInTime'
  <2>1. ToSet(events') = ToSet(events) \union {e} /\ batch' = batch
    BY <1>0, <1>1, AppendToSet DEF Enqueue
  <2>2. /\ dueIn'[e] = FlushInterval
        /\ \A f \in Events : f # e => dueIn'[f] = dueIn[f]
    BY <1>0, <1>1 DEF Enqueue
  <2>3. e \notin ToSet(events) \union ToSet(batch)
    BY <1>1, QueuesApart DEF Enqueue
  <2>4. wakeIn' \in 0..Never /\ wakeIn' <= wakeIn
    BY <1>0, <1>1, NeverIsLate, EarlierType, SMT DEF Enqueue
  <2>5. wakeIn' <= FlushInterval
    <3>1. CASE events = <<>>
      <4>1. Len(events') = 1
        BY <1>0, <1>1, <3>1, AppendProperties, EmptySeq, SMT DEF Enqueue
      <4>. QED BY <1>0, <1>1, <4>1, NeverIsLate, EarlierType DEF Enqueue
    <3>2. CASE events # <<>>
      <4>1. PICK f \in ToSet(events) : wakeIn <= dueIn[f]
        BY <1>0, <3>2, EmptyToSet
      <4>2. dueIn[f] \in 0..FlushInterval
        BY <1>0
      <4>. QED BY <1>0, <2>4, <4>1, <4>2, ConfigAssumption, NeverIsLate, SMT
    <3>. QED BY <3>1, <3>2
  <2>6. ASSUME NEW f \in ToSet(events) \union ToSet(batch) PROVE wakeIn' <= dueIn'[f]
    <3>1. wakeIn <= dueIn[f] /\ dueIn'[f] = dueIn[f] /\ dueIn[f] \in 0..FlushInterval
      BY <1>0, <2>2, <2>3
    <3>. QED BY <1>0, <2>4, <3>1, ConfigAssumption, NeverIsLate, SMT
  <2>. QED BY <2>1, <2>2, <2>5, <2>6
<1>2. ASSUME NEW t \in Callers, Scrub(t) PROVE WakeInTime'
  <2>1. ToSet(events') = {} /\ batch' = batch /\ wakeIn' = wakeIn
    BY <1>2, ToSetEmpty DEF Scrub, timers
  <2>2. \A f \in ToSet(batch) : dueIn'[f] = dueIn[f]
    BY <1>0, <1>2, QueuesApart DEF Scrub
  <2>. QED BY <2>1, <2>2
<1>3. CASE Gather
  BY <1>3, GatherMoves DEF Gather, timers, observers
<1>4. CASE WorkerDrained
  BY <1>4, ToSetEmpty DEF WorkerDrained, Drained, queues
<1>5. CASE PostOk \/ PostGiveUp
  <2>1. events' = events /\ ToSet(batch') = {} /\ wakeIn' = wakeIn
    BY <1>5, ToSetEmpty DEF PostOk, PostGiveUp, FinishBatch, HandOver, timers
  <2>2. \A f \in ToSet(events) : dueIn'[f] = dueIn[f]
    BY <1>0, <1>5, QueuesApart DEF PostOk, PostGiveUp, FinishBatch
  <2>. QED BY <2>1, <2>2
<1>6. CASE PostRetry
  <2>1. retryIn' \in 0..RetryInterval
    BY <1>6, NextTypeOK DEF LineInv, TypeOK, Next, WorkerStep
  <2>2. retryIn' \in 0..Never
    BY <2>1, NeverIsLate, ConfigAssumption, SMT
  <2>3. wakeIn' \in 0..Never /\ wakeIn' <= wakeIn
    BY <1>0, <1>6, <2>2, EarlierType DEF PostRetry
  <2>4. UNCHANGED <<events, batch, dueIn>>
    BY <1>6 DEF PostRetry, queues, observers
  <2>5. \A f \in ToSet(events) \union ToSet(batch) :
          wakeIn <= dueIn[f] /\ dueIn[f] \in 0..FlushInterval
    BY <1>0
  <2>6. \A f \in ToSet(events) \union ToSet(batch) : wakeIn' <= dueIn[f]
    BY <1>0, <2>3, <2>5, NeverIsLate, ConfigAssumption, SMT
  <2>. QED BY <2>4, <2>6
<1>7. CASE Tick
  <2>1. \A f \in ToSet(events) \union ToSet(batch) : Elapse(wakeIn) <= Elapse(dueIn[f])
    BY <1>0, ElapseMonotone
  <2>2. /\ events' = events /\ batch' = batch /\ wakeIn' = Elapse(wakeIn)
        /\ \A f \in Events : dueIn'[f] = Elapse(dueIn[f])
    BY <1>7 DEF Tick, queues
  <2>. QED BY <1>0, <2>1, <2>2
<1>8. CASE StartPost \/ NotifyNext
  <2>1. UNCHANGED <<events, batch, wakeIn, dueIn>>
    BY <1>8 DEF StartPost, NotifyNext, queues, timers
  <2>. QED BY <2>1
<1>9. CASE UNCHANGED <<events, batch, wakeIn, dueIn>>
  BY <1>9
<1>. QED BY <1>1, <1>2, <1>3, <1>4, <1>5, <1>6, <1>7, <1>8, <1>9, StepsThatMatter

(* The worker never sleeps past FlushInterval after an event it has not    *)
(* uploaded was queued, although queueEvent sets wakeTime only for the     *)
(* first event of a queue and a failed post may have set it before.        *)
THEOREM WakesInTime == Spec => []NoOversleep
<1>1. LineInv /\ WakeInTime => NoOversleep
  <2> SUFFICES ASSUME LineInv, WakeInTime, wpc = "waiting", NEW e \in ToSet(batch \o events)
               PROVE  waitIn <= dueIn[e]
    BY DEF NoOversleep
  <2>1. waitIn = wakeIn
    BY DEF LineInv, ControlInv, WorkerInv
  <2>2. e \in ToSet(events) \union ToSet(batch)
    BY ConcatToSet DEF LineInv, TypeOK
  <2>. QED BY <2>1, <2>2 DEF WakeInTime
<1>2. Spec => []WakeInTime
  BY InitWakeInTime, NextWakeInTime, LineCorrect, PTL DEF Spec
<1>. QED BY <1>1, <1>2, LineCorrect, PTL

-----------------------------------------------------------------------------
(* The number of posts.                                                    *)

\* The failures counted by the worker cover the posts of every event in the batch.
PostsCounted ==
  /\ \A e \in Events : attempts[e] <= MaxRetries + 1
  /\ \A e \in Events : outcome[e] = "unsent" \/ e \in ToSet(events) => attempts[e] = 0
  /\ \A e \in ToSet(batch) : attempts[e] <= IF wpc = "sending" THEN fails + 1 ELSE fails

LEMMA InitPostsCounted == Init => PostsCounted
BY ConfigAssumption, ToSetEmpty, SMT DEF Init, Fresh, PostsCounted

LEMMA NextPostsCounted ==
  ASSUME LineInv, PostsCounted, [Next]_vars
  PROVE  PostsCounted'
<1> USE ConfigAssumption
<1>0. /\ events \in Seq(Events) /\ batch \in Seq(Events)
      /\ outcome \in [Events -> Outcomes] /\ attempts \in [Events -> Nat]
      /\ fails \in Nat /\ fails <= MaxRetries
      /\ ToSet(events) \subseteq Events /\ ToSet(batch) \subseteq Events
      /\ ToSet(events) \intersect ToSet(batch) = {}
      /\ \A e \in ToSet(events) \union ToSet(batch) : outcome[e] = "queued"
  BY QueuesApart, SMT DEF LineInv, TypeOK
<1>1. ASSUME NEW t \in Callers, NEW e \in Events, Enqueue(t, e) PROVE PostsCounted'
  <2>1. ToSet(events') = ToSet(events) \union {e} /\ batch' = batch
    BY <1>0, <1>1, AppendToSet DEF Enqueue
  <2>2. attempts' = attempts /\ fails' = fails /\ outcome[e] = "unsent"
    BY <1>1 DEF Enqueue, locals
  <2>3. \A f \in Events : outcome'[f] = "unsent" => outcome[f] = "unsent"
    BY <1>0, <1>1 DEF Enqueue
  <2>4. wpc # "sending" /\ wpc' # "sending"
    BY <1>1 DEF Enqueue, LockFree, NotifyFlushCv
  <2>. QED BY <1>0, <2>1, <2>2, <2>3, <2>4 DEF PostsCounted
<1>2. ASSUME NEW t \in Callers, Scrub(t) PROVE PostsCounted'
  <2>1. ToSet(events') = {} /\ batch' = batch /\ attempts' = attempts /\ fails' = fails
    BY <1>2, ToSetEmpty DEF Scrub, locals
  <2>2. \A f \in Events : outcome'[f] = "unsent" => outcome[f] = "unsent"
    BY <1>0, <1>2 DEF Scrub
  <2>3. wpc # "sending" /\ wpc' # "sending"
    BY <1>2 DEF Scrub, LockFree, NotifyFlushCv
  <2>. QED BY <1>0, <2>1, <2>2, <2>3 DEF PostsCounted
<1>3. CASE Gather
  <2>1. wpc' = "gather" /\ wpc = "gather" /\ UNCHANGED <<fails, outcome, attempts>>
    BY <1>3 DEF Gather, control, locals, observers
  <2>2. attempts[Head(events)] <= fails
    BY <1>0, <1>3, GatherMoves, SMT DEF PostsCounted
  <2>. QED BY <1>0, <1>3, <2>1, <2>2, GatherMoves DEF PostsCounted
<1>4. CASE WorkerDrained
  <2>1. /\ batch' = <<>> /\ events' = <<>> /\ UNCHANGED <<outcome, attempts>>
    BY <1>4 DEF WorkerDrained, Drained, queues, observers
  <2>. QED BY <2>1, ToSetEmpty DEF PostsCounted
<1>5. CASE StartPost
  <2>1. wpc # "sending" /\ wpc' = "sending" /\ UNCHANGED <<events, batch, fails, outcome>>
    BY <1>5 DEF StartPost, WorkerGoes, queues, locals
  <2>2. \A f \in Events : attempts'[f] = IF f \in ToSet(batch) THEN attempts[f] + 1 ELSE attempts[f]
    BY <1>5 DEF StartPost
  <2>3. \A f \in ToSet(batch) : attempts'[f] <= fails + 1
    BY <1>0, <2>1, <2>2, SMT DEF PostsCounted
  <2>4. \A f \in Events : attempts'[f] <= MaxRetries + 1
    <3> TAKE f \in Events
    <3>1. attempts[f] \in Nat /\ attempts[f] <= MaxRetries + 1
      BY <1>0 DEF PostsCounted
    <3>2. CASE f \in ToSet(batch)
      BY <1>0, <2>2, <2>3, <3>1, <3>2, SMT
    <3>3. CASE f \notin ToSet(batch)
      BY <2>2, <3>1, <3>3
    <3>. QED BY <3>2, <3>3
  <2>. QED BY <1>0, <2>1, <2>2, <2>3, <2>4 DEF PostsCounted
<1>6. CASE PostOk \/ PostGiveUp
  <2>1. /\ events' = events /\ batch' = <<>> /\ UNCHANGED <<outcome, attempts>>
    BY <1>6 DEF PostOk, PostGiveUp, FinishBatch, HandOver
  <2>. QED BY <2>1, ToSetEmpty DEF PostsCounted
<1>7. CASE PostRetry
  <2>1. /\ wpc = "sending" /\ wpc' = "waiting" /\ fails' = fails + 1
        /\ UNCHANGED <<events, batch, outcome, attempts>>
    BY <1>7 DEF PostRetry, WorkerGoes, CountFailure, queues, observers
  <2>. QED BY <2>1 DEF PostsCounted
<1>8. CASE NotifyNext
  <2>1. /\ wpc = "notify" /\ wpc' = "callback"
        /\ UNCHANGED <<events, batch, fails, attempts>>
    BY <1>8 DEF NotifyNext, WorkerGoes, locals
  <2>2. \A f \in Events : outcome'[f] = "unsent" => outcome[f] = "unsent"
    BY <1>0, <1>8 DEF NotifyNext
  <2>. QED BY <2>1, <2>2 DEF PostsCounted
<1>9. CASE Tick
  BY <1>9 DEF Tick, PostsCounted, queues, locals
<1>10. CASE /\ UNCHANGED <<events, batch, notifyq, wakeIn, ok, fails, outcome, dueIn, attempts>>
            /\ wpc' = "sending" <=> wpc = "sending"
  BY <1>10 DEF PostsCounted
<1>. QED BY <1>1, <1>2, <1>3, <1>4, <1>5, <1>6, <1>7, <1>8, <1>9, <1>10, StepsThatMatter

(* No event is posted more often than MaxRetries allows, whatever batches  *)
(* it shares and however the batch grows between two attempts.             *)
THEOREM PostsBounded == Spec => []AttemptsBounded
<1>1. PostsCounted => AttemptsBounded
  BY DEF PostsCounted, AttemptsBounded
<1>. QED BY <1>1, InitPostsCounted, NextPostsCounted, LineCorrect, PTL DEF Spec

-----------------------------------------------------------------------------
(* The retries.                                                            *)

\* Nothing is decided of what is still in events or batch while the worker gathers or posts.
LEMMA FateOpen ==
  ASSUME LineInv, wpc \in {"gather", "decide", "sending"}
  PROVE  /\ ToSet(notifyq) = {}
         /\ \A e \in ToSet(events) \union ToSet(batch) : Fate(e) = "open"
<1>1. ToSet(notifyq) = {}
  BY ToSetEmpty DEF LineInv, ControlInv, WorkerInv
<1>. QED BY <1>1, QueuesApart DEF Fate

\* Handing the batch over is what decides of its events.
LEMMA FinishDecides ==
  ASSUME LineInv, FinishBatch, NEW verdict, verdict = IF ok' THEN "success" ELSE "failure"
  PROVE  Tries!Decide(verdict)
<1>1. /\ ToSet(notifyq) = {} /\ ToSet(notifyq') = ToSet(batch) /\ ToSet(batch') = {}
      /\ outcome' = outcome
  BY FateOpen, ToSetEmpty DEF FinishBatch, WorkerGoes, HandOver
<1>2. \A e \in Events : Fate(e)' = IF e \in ToSet(batch) THEN verdict ELSE Fate(e)
  <2>1. \A e \in ToSet(batch) : outcome[e] = "queued"
    BY QueuesApart
  <2>. QED BY <1>1, <2>1 DEF Fate
<1>. QED BY <1>1, <1>2 DEF Tries!Decide

LEMMA NextTries ==
  ASSUME LineInv, [Next]_vars
  PROVE  [Tries!Next]_(Tries!vars)
<1>0. /\ fails \in Nat /\ fails <= MaxRetries /\ MaxRetries \in Nat
      /\ outcome \in [Events -> Outcomes] /\ ToSet(batch) \subseteq Events
      /\ notifyq \in Seq(Events)
  BY QueuesApart, ConfigAssumption, SMT DEF LineInv, TypeOK
<1>1. ASSUME UNCHANGED <<batch, fails>>, \A e \in Events : Fate(e)' = Fate(e)
      PROVE  UNCHANGED Tries!vars
  BY <1>1 DEF Tries!vars
<1>2. ASSUME NEW t \in Callers, NEW e \in Events, Enqueue(t, e) PROVE UNCHANGED Tries!vars
  <2>1. \A f \in Events : Fate(f)' = Fate(f)
    BY <1>0, <1>2 DEF Enqueue, locals, Fate
  <2>. QED BY <1>1, <1>2, <2>1 DEF Enqueue, locals
<1>3. ASSUME NEW t \in Callers, Scrub(t) PROVE UNCHANGED Tries!vars
  <2>1. \A f \in Events : Fate(f)' = Fate(f)
    BY <1>3, QueuesApart DEF Scrub, locals, Fate
  <2>. QED BY <1>1, <1>3, <2>1 DEF Scrub, locals
<1>4. CASE Gather
  <2>1. /\ Head(events) \in Events /\ Head(events) \notin ToSet(batch)
        /\ Fate(Head(events)) = "open"
    BY <1>4, GatherMoves, FateOpen, QueuesApart DEF Gather
  <2>2. \A f \in Events : Fate(f)' = Fate(f)
    BY <1>4 DEF Gather, locals, observers, Fate
  <2>3. Tries!Join(Head(events))
    BY <1>4, GatherMoves, <2>1, <2>2 DEF Gather, locals, Tries!Join
  <2>. QED BY <2>1, <2>3 DEF Tries!Next
<1>5. CASE WorkerDrained
  <2>1. \A f \in Events : Fate(f)' = Fate(f)
    BY <1>5 DEF WorkerDrained, queues, observers, Fate
  <2>. QED BY <1>5, <2>1, ToSetEmpty
           DEF WorkerDrained, Drained, queues, Tries!Drained, Tries!Next
<1>6. CASE PostOk
  BY <1>6, FinishDecides DEF PostOk, Tries!Succeed, Tries!Next
<1>7. CASE PostGiveUp
  <2>1. fails = MaxRetries
    BY <1>0, <1>7, SMT DEF PostGiveUp, RetriesLeft
  <2>. QED BY <1>7, <2>1, FinishDecides DEF PostGiveUp, Tries!GiveUp, Tries!Next
<1>8. CASE PostRetry
  <2>1. \A f \in Events : Fate(f)' = Fate(f)
    BY <1>8 DEF PostRetry, queues, observers, Fate
  <2>. QED BY <1>8, <2>1
           DEF PostRetry, RetriesLeft, CountFailure, queues, Tries!Retry, Tries!Next
<1>9. CASE NotifyNext
  <2>1. ToSet(notifyq) = {Head(notifyq)} \union ToSet(notifyq')
    BY <1>0, <1>9, TailToSet DEF NotifyNext
  <2>2. \A f \in Events : Fate(f)' = Fate(f)
    BY <1>0, <1>9, <2>1 DEF NotifyNext, locals, Fate
  <2>. QED BY <1>1, <1>9, <2>2 DEF NotifyNext, locals
<1>10. CASE StartPost \/ Tick
  <2>1. \A f \in Events : Fate(f)' = Fate(f)
    BY <1>10 DEF StartPost, Tick, queues, locals, Fate
  <2>. QED BY <1>1, <1>10, <2>1 DEF StartPost, Tick, queues, locals
<1>11. CASE UNCHANGED <<events, batch, notifyq, wakeIn, ok, fails, outcome, dueIn, attempts>>
  <2>1. \A f \in Events : Fate(f)' = Fate(f)
    BY <1>11 DEF Fate
  <2>. QED BY <1>1, <1>11, <2>1
<1>. QED
  BY <1>2, <1>3, <1>4, <1>5, <1>6, <1>7, <1>8, <1>9, <1>10, <1>11, StepsThatMatter

(* The worker counts failures and gives up as BatchRetry.tla says, whoever *)
(* queues, flushes and scrubs meanwhile, and every event of a batch is     *)
(* reported with the verdict the batch was handed over with.               *)
THEOREM RetriesImplemented == Spec => RetriesAsAgreed
<1>1. Init => Tries!Init
  BY ToSetEmpty DEF Init, Fresh, Tries!Init, Fate
<1>2. LineInv /\ [Next]_vars => [Tries!Next]_(Tries!vars)
  BY NextTries
<1>. QED BY <1>1, <1>2, LineCorrect, PTL DEF Spec, RetriesAsAgreed, Tries!Spec

-----------------------------------------------------------------------------
(* The batch.                                                              *)

LEMMA NextBatchWithinLimits ==
  ASSUME TypeOK, BatchWithinLimits, [Next]_vars
  PROVE  BatchWithinLimits'
<1>1. CASE Gather
  <2>1. Len(batch') = Len(batch) + 1 /\ Len(batch) \in Nat /\ Len(batch) < FlushCount
    BY <1>1, HeadTailProperties, AppendProperties, LenProperties
       DEF Gather, BatchHasRoom, TakeFront, TypeOK
  <2>2. BatchBytes(batch') < FlushSize
    BY <1>1 DEF Gather, TakeFront, Fits
  <2>. QED BY <2>1, <2>2, ConfigAssumption, SMT DEF BatchWithinLimits
<1>2. CASE PostOk \/ PostGiveUp
  <2>1. batch' = <<>>
    BY <1>2 DEF PostOk, PostGiveUp, FinishBatch, HandOver
  <2>. QED BY <2>1, EmptySeq, ConfigAssumption, SMT DEF BatchWithinLimits
<1>3. CASE batch' = batch
  BY <1>3 DEF BatchWithinLimits
<1>. QED
  BY <1>1, <1>2, <1>3, StepsThatMatter
  DEF Enqueue, Scrub, WorkerDrained, StartPost, PostRetry, NotifyNext, Tick, queues

(* A batch never outgrows FlushCount and FlushSize.                        *)
THEOREM BatchLimited == Spec => []BatchWithinLimits
<1>1. Init => BatchWithinLimits
  BY EmptySeq, ConfigAssumption, SMT DEF Init, Fresh, BatchWithinLimits
<1>. QED BY <1>1, NextBatchWithinLimits, TypeCorrect, PTL DEF Spec

\* No event is too big to be sent alone.
EachFits == \A e \in Events : BatchBytes(<<e>>) < FlushSize

\* The gather loop ends with something in the batch.
HasBatch == wpc \in {"decide", "sending"} => batch # <<>>

LEMMA NextHasBatch ==
  ASSUME EachFits, TypeOK, ControlInv, HasBatch, [Next]_vars
  PROVE  HasBatch'
<1> USE DEF HasBatch
<1>1. CASE GatherTooBig
  <2>1. batch # <<>>
    <3> SUFFICES ASSUME batch = <<>> PROVE FALSE
      OBVIOUS
    <3>1. Head(events) \in Events
      BY <1>1, HeadTailProperties DEF GatherTooBig, BatchHasRoom, TypeOK
    <3>2. Append(batch, Head(events)) = <<Head(events)>>
      BY <3>1, AppendIsConcat, ConcatEmptySeq DEF TypeOK
    <3>. QED BY <1>1, <3>1, <3>2 DEF GatherTooBig, Fits, EachFits
  <2>. QED BY <1>1, <2>1 DEF GatherTooBig, queues
<1>2. CASE GatherDone
  <2>1. events # <<>> \/ batch # <<>>
    BY <1>2 DEF GatherDone, WorkerGoes, ControlInv, WorkerInv, Drained
  <2>2. batch # <<>>
    BY <1>2, <2>1, EmptySeq, ConfigAssumption, SMT DEF GatherDone, BatchHasRoom
  <2>. QED BY <1>2, <2>2 DEF GatherDone, queues
<1>3. CASE StartPost
  BY <1>3 DEF StartPost, WorkerGoes, queues
<1>4. CASE wpc' \notin {"decide", "sending"}
  BY <1>4
<1>5. ASSUME NEW t \in Callers,
             (\E e \in Events : Enqueue(t, e)) \/ Flush(t) \/ Scrub(t) \/ FlushWaitBlock(t)
      PROVE  HasBatch'
  BY <1>5 DEF Enqueue, Flush, Scrub, FlushWaitBlock, NotifyFlushCv, LockFree
<1>6. ASSUME NEW t \in Callers, FlushWaitCall(t) \/ FlushWaitReturn(t) \/ FlushWaitSpurious(t)
      PROVE  HasBatch'
  BY <1>6 DEF FlushWaitCall, FlushWaitReturn, FlushWaitSpurious, queues, control
<1>7. ASSUME (\E t \in Threads : Destroy(t)) \/ DestroyStop \/ DestroyJoin
      PROVE  HasBatch'
  BY <1>7 DEF Destroy, DestroyStop, DestroyJoin, NotifyFlushCv, queues, control
<1>8. CASE WorkerAcquire \/ WorkerTimeout \/ WorkerSpurious \/ WorkerDrained
             \/ WorkerHasWork \/ CallbackReturn \/ NotifyDone
  BY <1>4, <1>8 DEF WorkerAcquire, WorkerTimeout, WorkerSpurious, WorkerDrained,
                    WorkerHasWork, CallbackReturn, NotifyDone, WorkerGoes
<1>9. CASE Gather \/ WaitForMore \/ PostOk \/ PostGiveUp \/ PostRetry \/ NotifyNext
  BY <1>4, <1>9 DEF Gather, WaitForMore, PostOk, PostGiveUp, FinishBatch, PostRetry,
                     NotifyNext, WorkerGoes, control
<1>10. CASE Tick
  BY <1>10 DEF Tick, queues
<1>11. CASE UNCHANGED vars
  BY <1>11 DEF vars, queues, control
<1>. QED
  BY <1>1, <1>2, <1>3, <1>5, <1>6, <1>7, <1>8, <1>9, <1>10, <1>11
  DEF Next, Application, WorkerStep, Destroyed

(* sendBatch is never called with an empty batch, provided that no event   *)
(* is too big to be sent alone: without that the code does call it.        *)
THEOREM PostsSomething ==
  ASSUME EachFits
  PROVE  Spec => []NoEmptyPost
<1>1. Init => HasBatch
  BY DEF Init, Fresh, HasBatch
<1>2. TypeOK /\ ControlInv /\ HasBatch /\ [Next]_vars => HasBatch'
  BY NextHasBatch
<1>3. HasBatch => NoEmptyPost
  BY DEF HasBatch, NoEmptyPost
<1>. QED BY <1>1, <1>2, <1>3, ControlCorrect, PTL DEF Spec

-----------------------------------------------------------------------------
(* Who may look or wait while the worker does not.                         *)

(* As long as no event is pending the worker reads no public member: the   *)
(* application may assign them then.                                       *)
THEOREM QuietThen == Spec => []QuietWhenSettled
<1>1. LineInv => QuietWhenSettled
  <2> SUFFICES ASSUME LineInv, \A e \in Events : outcome[e] # "queued",
                      wpc \in {"gather", "decide", "sending"}
               PROVE  FALSE
    BY DEF QuietWhenSettled
  <2>1. ToSet(events) = {} /\ ToSet(batch) = {}
    BY QueuesApart
  <2>2. events = <<>> /\ batch = <<>>
    BY <2>1, EmptyToSet DEF LineInv, TypeOK
  <2>. QED BY <2>2 DEF LineInv, ControlInv, WorkerInv, Drained
<1>. QED BY <1>1, LineCorrect, PTL

\* Only a callback calls FlushWait in the worker's thread.
InCallback ==
  /\ fw[Worker] # "idle" => wpc = "callback"
  /\ fw[Worker] = "wait" => events # <<>>

LEMMA NextInCallback ==
  ASSUME TypeOK, InCallback, [Next]_vars
  PROVE  InCallback'
<1> USE DEF TypeOK, InCallback, queues, control, callers
<1>0. Worker \in Callers /\ Worker \notin Threads
  BY ConfigAssumption DEF Callers
<1>1. ASSUME NEW t \in Callers, NEW e \in Events, Enqueue(t, e) PROVE InCallback'
  <2>1. events' # <<>>
    BY <1>1, EnqueueFills
  <2>. QED BY <1>1, <2>1 DEF Enqueue, NotifyFlushCv
<1>2. ASSUME NEW t \in Callers, Flush(t) PROVE InCallback'
  BY <1>2 DEF Flush, NotifyFlushCv
<1>3. ASSUME NEW t \in Callers, Scrub(t) PROVE InCallback'
  BY <1>0, <1>3 DEF Scrub, NotifyFlushCv, NotifyEmptyCv
<1>4. ASSUME NEW t \in Callers,
             FlushWaitCall(t) \/ FlushWaitReturn(t) \/ FlushWaitSpurious(t)
      PROVE  InCallback'
  BY <1>0, <1>4 DEF FlushWaitCall, FlushWaitReturn, FlushWaitSpurious, CanCall
<1>5. ASSUME NEW t \in Callers, FlushWaitBlock(t) PROVE InCallback'
  BY <1>0, <1>5 DEF FlushWaitBlock, NotifyFlushCv
<1>6. ASSUME NEW t \in Threads, Destroy(t) PROVE InCallback'
  BY <1>0, <1>6 DEF Destroy
<1>7. CASE DestroyStop \/ DestroyJoin
  BY <1>7 DEF DestroyStop, DestroyJoin, NotifyFlushCv
<1>8. CASE WorkerAcquire \/ WorkerTimeout \/ WorkerSpurious \/ WorkerHasWork \/ NotifyDone
           \/ GatherTooBig \/ GatherDone \/ WaitForMore \/ StartPost \/ NotifyNext
  BY <1>8 DEF WorkerAcquire, WorkerTimeout, WorkerSpurious, WorkerHasWork, NotifyDone,
              GatherTooBig, GatherDone, WaitForMore, StartPost, NotifyNext, WorkerGoes
<1>9. CASE WorkerDrained \/ Gather \/ PostOk \/ PostGiveUp \/ PostRetry
  BY <1>0, <1>9 DEF WorkerDrained, NotifyEmptyCv, Gather, PostOk, PostGiveUp, PostRetry,
              FinishBatch, WorkerGoes
<1>10. CASE CallbackReturn
  BY <1>10 DEF CallbackReturn, WorkerGoes
<1>11. CASE Tick
  BY <1>11 DEF Tick
<1>12. CASE UNCHANGED vars
  BY <1>12 DEF vars
<1>. QED
  BY <1>1, <1>2, <1>3, <1>4, <1>5, <1>6, <1>7, <1>8, <1>9, <1>10, <1>11, <1>12
  DEF Next, Application, WorkerStep, Destroyed

(* A callback that waits in FlushWait always has an event left that a      *)
(* Scrub of another thread can take away; it does not wait on an empty     *)
(* queue, where nobody would wake it.                                      *)
THEOREM CallbackNotLeft == Spec => []CallbackFlushEnds
<1>1. Init => InCallback
  BY ConfigAssumption DEF Init, Fresh, InCallback, Callers
<1>2. InCallback => CallbackFlushEnds
  BY DEF InCallback, CallbackFlushEnds
<1>. QED BY <1>1, <1>2, NextInCallback, TypeCorrect, PTL DEF Spec

=============================================================================
