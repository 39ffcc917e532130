--------------------------- MODULE AnalyticsProofs ---------------------------
(***************************************************************************)
(* Proofs, for every number of threads and events, every size, limit and   *)
(* interval, of safety properties of AnalyticsProperties.tla.              *)
(***************************************************************************)
EXTENDS AnalyticsProperties, QueueLemmas

-----------------------------------------------------------------------------
(* The clock.                                                              *)

LEMMA NeverIsLate ==
  /\ Never \in Nat \ {0}
  /\ FlushInterval \in 0..Never /\ RetryInterval \in 0..Never
  /\ FlushInterval < Never /\ RetryInterval < Never
BY ConfigAssumption, SMT DEF Never

LEMMA EarlierType ==
  ASSUME NEW a \in 0..Never, NEW b \in 0..Never
  PROVE  Earlier(a, b) \in 0..Never /\ Earlier(a, b) <= a /\ Earlier(a, b) <= b
BY NeverIsLate, SMT DEF Earlier

\* A countdown stays in its range, and two countdowns keep their order.
LEMMA ElapseType ==
  ASSUME NEW c \in 0..Never
  PROVE  /\ Elapse(c) \in 0..Never
         /\ c <= FlushInterval => Elapse(c) \in 0..FlushInterval
         /\ c <= RetryInterval => Elapse(c) \in 0..RetryInterval
BY NeverIsLate, ConfigAssumption, SMT DEF Elapse

LEMMA ElapseMonotone ==
  ASSUME NEW c \in 0..Never, NEW d \in 0..FlushInterval, c <= d
  PROVE  Elapse(c) <= Elapse(d)
BY NeverIsLate, ConfigAssumption, SMT DEF Elapse

-----------------------------------------------------------------------------
(* Type correctness.                                                       *)

LEMMA InitTypeOK == Init => TypeOK
<1> SUFFICES ASSUME Init PROVE TypeOK
  OBVIOUS
<1> USE ConfigAssumption, NeverIsLate DEF Init, Fresh
<1>1. events \in Seq(Events) /\ batch \in Seq(Events) /\ notifyq \in Seq(Events)
  BY EmptySeq
<1>2. ok \in BOOLEAN /\ needFlush \in BOOLEAN /\ shutdown \in BOOLEAN
  OBVIOUS
<1>3. wakeIn \in 0..Never /\ waitIn \in 0..Never
  BY SMT
<1>4. retryIn \in 0..RetryInterval /\ sinceNow \in 0..RetryInterval /\ fails \in 0..MaxRetries
  BY SMT
<1>5. wpc \in WorkerStates /\ closing \in {"no", "flush", "join", "gone"}
  BY SMT DEF WorkerStates
<1>6. fw \in [Callers -> {"idle", "check", "wait"}]
  BY SMT
<1>7. outcome \in [Events -> Outcomes]
  BY SMT DEF Outcomes
<1>8. dueIn \in [Events -> 0..FlushInterval] /\ attempts \in [Events -> Nat]
  BY SMT
<1>. QED BY <1>1, <1>2, <1>3, <1>4, <1>5, <1>6, <1>7, <1>8 DEF TypeOK

LEMMA NextTypeOK ==
  ASSUME TypeOK, [Next]_vars
  PROVE  TypeOK'
<1> USE ConfigAssumption, NeverIsLate DEF TypeOK
<1>1. ASSUME NEW t \in Callers, NEW e \in Events, Enqueue(t, e) PROVE TypeOK'
  <2>1. wakeIn' \in 0..Never
    BY <1>1, EarlierType, SMT DEF Enqueue
  <2>2. wpc' \in WorkerStates
    BY <1>1, SMT DEF Enqueue, NotifyFlushCv, WorkerStates
  <2>3. events' \in Seq(Events)
    BY <1>1, AppendProperties, SMT DEF Enqueue
  <2>4. outcome' \in [Events -> Outcomes] /\ dueIn' \in [Events -> 0..FlushInterval]
    BY <1>1, SMT DEF Enqueue, Outcomes
  <2>. QED BY <1>1, <2>1, <2>2, <2>3, <2>4, SMT
         DEF Enqueue, flags, locals, callers
<1>2. ASSUME NEW t \in Callers, Flush(t) PROVE TypeOK'
  BY <1>2, SMT DEF Flush, NotifyFlushCv, WorkerStates, queues, timers, locals, callers, observers
<1>3. ASSUME NEW t \in Callers, Scrub(t) PROVE TypeOK'
  <2>1. outcome' \in [Events -> Outcomes] /\ dueIn' \in [Events -> 0..FlushInterval]
    BY <1>3, SMT DEF Scrub, Outcomes
  <2>2. fw' \in [Callers -> {"idle", "check", "wait"}]
    BY <1>3, SMT DEF Scrub, NotifyEmptyCv
  <2>3. wpc' \in WorkerStates /\ events' \in Seq(Events)
    BY <1>3, SMT DEF Scrub, NotifyFlushCv, WorkerStates
  <2>. QED BY <1>3, <2>1, <2>2, <2>3, SMT DEF Scrub, flags, timers, locals
<1>4. ASSUME NEW t \in Callers, FlushWaitCall(t) \/ FlushWaitReturn(t) \/ FlushWaitSpurious(t)
      PROVE  TypeOK'
  <2>1. fw' \in [Callers -> {"idle", "check", "wait"}]
    <3>1. \E place \in {"idle", "check"} : fw' = [fw EXCEPT ![t] = place]
      BY <1>4 DEF FlushWaitCall, FlushWaitReturn, FlushWaitSpurious
    <3>. QED BY <3>1, SMT
  <2>2. UNCHANGED <<queues, flags, timers, locals, control, closing, observers>>
    BY <1>4 DEF FlushWaitCall, FlushWaitReturn, FlushWaitSpurious
  <2>. QED BY <2>1, <2>2, SMT DEF queues, flags, timers, locals, control, observers
<1>5. ASSUME NEW t \in Callers, FlushWaitBlock(t) PROVE TypeOK'
  BY <1>5, SMT DEF FlushWaitBlock, NotifyFlushCv, WorkerStates,
                   queues, timers, locals, observers
<1>6. ASSUME NEW t \in Threads, Destroy(t) PROVE TypeOK'
  BY <1>6, SMT DEF Destroy, Callers, queues, flags, timers, locals, control, observers
<1>7. CASE DestroyStop
  BY <1>7, SMT DEF DestroyStop, NotifyFlushCv, WorkerStates,
                   queues, timers, locals, observers
<1>8. CASE DestroyJoin
  BY <1>8, SMT DEF DestroyJoin, queues, flags, timers, locals, control, observers
<1>9. CASE WorkerAcquire \/ WorkerTimeout \/ WorkerSpurious \/ WorkerHasWork
             \/ CallbackReturn \/ NotifyDone
  <2>1. wpc' \in WorkerStates
    BY <1>9, SMT DEF WorkerAcquire, WorkerTimeout, WorkerSpurious, WorkerHasWork,
                     CallbackReturn, NotifyDone, WorkerGoes, WorkerStates
  <2>2. UNCHANGED <<queues, flags, timers, locals, waitIn, callers, observers>>
    BY <1>9 DEF WorkerAcquire, WorkerTimeout, WorkerSpurious, WorkerHasWork,
                CallbackReturn, NotifyDone
  <2>. QED BY <2>1, <2>2, SMT DEF queues, flags, timers, locals, callers, observers
<1>10. CASE WorkerDrained
  <2>1. fw' \in [Callers -> {"idle", "check", "wait"}]
    BY <1>10, SMT DEF WorkerDrained, NotifyEmptyCv
  <2>. QED BY <1>10, <2>1, SMT DEF WorkerDrained, WorkerStates, queues, flags, observers
<1>11. CASE Gather
  <2>1. batch' \in Seq(Events) /\ events' \in Seq(Events)
    BY <1>11, HeadTailProperties, AppendProperties, SMT DEF Gather, BatchHasRoom, TakeFront
  <2>. QED BY <1>11, <2>1, SMT DEF Gather, flags, timers, locals, control, callers, observers
<1>12. CASE GatherTooBig \/ GatherDone
  <2>1. needFlush' \in BOOLEAN
    BY <1>12 DEF GatherTooBig, GatherDone
  <2>2. wpc' \in WorkerStates
    BY <1>12, SMT DEF GatherTooBig, GatherDone, WorkerGoes, WorkerStates
  <2>3. UNCHANGED <<queues, shutdown, timers, locals, waitIn, callers, observers>>
    BY <1>12 DEF GatherTooBig, GatherDone
  <2>. QED BY <2>1, <2>2, <2>3, SMT DEF queues, timers, locals, callers, observers
<1>13. CASE WaitForMore
  BY <1>13, SMT DEF WaitForMore, WorkerGoes, WorkerStates,
                    queues, flags, timers, locals, callers, observers
<1>14. CASE StartPost
  <2>1. attempts' \in [Events -> Nat]
    BY <1>14, SMT DEF StartPost
  <2>2. sinceNow' \in 0..RetryInterval
    BY <1>14, SMT DEF StartPost
  <2>3. wpc' \in WorkerStates /\ needFlush' \in BOOLEAN
    BY <1>14 DEF StartPost, WorkerGoes, WorkerStates
  <2>4. UNCHANGED <<queues, shutdown, wakeIn, retryIn, locals, waitIn, callers, outcome, dueIn>>
    BY <1>14 DEF StartPost
  <2>. QED BY <2>1, <2>2, <2>3, <2>4, SMT DEF queues, locals, callers
<1>15. CASE PostOk \/ PostGiveUp
  <2>1. dueIn' \in [Events -> 0..FlushInterval]
    BY <1>15, SMT DEF PostOk, PostGiveUp, FinishBatch
  <2>2. batch' \in Seq(Events) /\ notifyq' \in Seq(Events)
    <3>1. <<>> \in Seq(Events)
      BY EmptySeq
    <3>. QED BY <1>15, <3>1 DEF PostOk, PostGiveUp, FinishBatch, HandOver
  <2>3. wpc' \in WorkerStates
    BY <1>15, SMT DEF PostOk, PostGiveUp, FinishBatch, WorkerGoes, WorkerStates
  <2>4. ok' \in BOOLEAN /\ fails' \in 0..MaxRetries
    <3>1. ok' \in BOOLEAN
      BY <1>15 DEF PostOk, PostGiveUp
    <3>2. fails' \in 0..MaxRetries
      BY <1>15, SMT DEF PostOk, PostGiveUp
    <3>. QED BY <3>1, <3>2
  <2>5. UNCHANGED <<events, flags, timers, waitIn, callers, outcome, attempts>>
    BY <1>15 DEF PostOk, PostGiveUp, FinishBatch
  <2>. QED BY <2>1, <2>2, <2>3, <2>4, <2>5, SMT DEF flags, timers, callers
<1>16. CASE PostRetry
  <2>1. retryIn' \in 0..RetryInterval
    BY <1>16, SMT DEF PostRetry
  <2>2. wakeIn' \in 0..Never
    <3>1. retryIn' \in 0..Never
      BY <2>1, SMT
    <3>2. Earlier(retryIn', wakeIn) \in 0..Never
      BY <3>1, EarlierType
    <3>. QED BY <1>16, <3>2 DEF PostRetry
  <2>. QED BY <1>16, <2>1, <2>2, SMT
         DEF PostRetry, RetriesLeft, CountFailure, WorkerGoes, WorkerStates,
             queues, flags, callers, observers
<1>17. CASE NotifyNext
  <2>1. notifyq' \in Seq(Events)
    BY <1>17, HeadTailProperties, SMT DEF NotifyNext
  <2>2. outcome' \in [Events -> Outcomes]
    BY <1>17, SMT DEF NotifyNext, Outcomes
  <2>. QED BY <1>17, <2>1, <2>2, SMT
         DEF NotifyNext, WorkerGoes, WorkerStates, flags, timers, locals, callers
<1>18. CASE Tick
  <2>1. \A e \in Events : Elapse(dueIn[e]) \in 0..FlushInterval
    <3>1. \A e \in Events : dueIn[e] \in 0..Never /\ dueIn[e] <= FlushInterval
      BY SMT
    <3>. QED BY <3>1, ElapseType
  <2>2. wakeIn' \in 0..Never /\ waitIn' \in 0..Never
    BY <1>18, ElapseType DEF Tick
  <2>3. retryIn' \in 0..RetryInterval
    <3>1. retryIn \in 0..Never /\ retryIn <= RetryInterval
      BY SMT
    <3>. QED BY <1>18, <3>1, ElapseType DEF Tick
  <2>4. sinceNow' \in 0..RetryInterval
    BY <1>18, SMT DEF Tick, InSend
  <2>. QED BY <1>18, <2>1, <2>2, <2>3, <2>4, SMT DEF Tick, queues, flags, locals, callers
<1>19. CASE UNCHANGED vars
  BY <1>19, SMT DEF vars, queues, flags, timers, locals, control, callers, observers
<1>. QED
  BY <1>1, <1>2, <1>3, <1>4, <1>5, <1>6, <1>7, <1>8, <1>9, <1>10, <1>11, <1>12, <1>13,
     <1>14, <1>15, <1>16, <1>17, <1>18, <1>19
  DEF Next, Application, WorkerStep, Destroyed

(* Every variable keeps to its type, however many threads and events there *)
(* are and whatever the limits: the countdowns never leave their range and *)
(* the failure count of processQueue never passes MaxRetries.              *)
THEOREM TypeCorrect == Spec => []TypeOK
BY InitTypeOK, NextTypeOK, PTL DEF Spec

-----------------------------------------------------------------------------
(* The control state of the worker, of the destructor and of FlushWait.    *)

\* What the lock and the order of processQueue's statements keep true of the worker.
WorkerInv ==
  /\ wpc \notin {"notify", "callback"} => notifyq = <<>>
  /\ wpc \in {"gather", "decide", "sending"} => ~Drained
  /\ wpc = "sending" => ~needFlush
  /\ wpc = "waiting" => waitIn = wakeIn

\* The worker stops only for the destructor, and with nothing left to do.
ClosingInv ==
  /\ shutdown <=> closing \in {"join", "gone"}
  /\ wpc = "done" => shutdown /\ Drained
  /\ closing = "gone" => wpc = "done"

ControlInv == WorkerInv /\ ClosingInv /\ NoLostFlush /\ NoMissedSignal

LEMMA InitControlInv == Init => ControlInv
BY SMT DEF Init, Fresh, ControlInv, WorkerInv, ClosingInv, NoLostFlush, NoMissedSignal, Drained

\* No queue, flag or deadline is touched, and the worker stays where it is.
LEMMA CallersMoveControlInv ==
  ASSUME ControlInv,
         UNCHANGED <<queues, flags, wakeIn, waitIn, wpc>>,
         ~shutdown \/ closing' \in {"join", "gone"},
         shutdown \/ closing' \notin {"join", "gone"},
         closing' = "gone" => wpc = "done",
         \A t \in Callers : fw'[t] = "wait" => fw[t] = "wait"
  PROVE  ControlInv'
BY DEF ControlInv, WorkerInv, ClosingInv, NoLostFlush, NoMissedSignal, Drained, queues, flags

LEMMA EnqueueFills ==
  ASSUME TypeOK, NEW t \in Callers, NEW e \in Events, Enqueue(t, e)
  PROVE  events' # <<>>
<1>1. events \in Seq(Events)
  BY DEF TypeOK
<1>2. Append(events, e) # <<>>
  BY <1>1, AppendProperties
<1>. QED BY <1>2 DEF Enqueue

LEMMA NextControlInv ==
  ASSUME TypeOK, ControlInv, [Next]_vars
  PROVE  ControlInv'
<1> USE DEF ControlInv, WorkerInv, ClosingInv, NoLostFlush, NoMissedSignal, Drained, TypeOK,
            queues, flags
<1>1. ASSUME NEW t \in Callers, NEW e \in Events, Enqueue(t, e) PROVE ControlInv'
  <2>1. events' # <<>>
    BY <1>1, EnqueueFills
  <2>2. wpc # "done"
    BY <1>1 DEF Enqueue, CanCall, Callers
  <2>. QED BY <1>1, <2>1, <2>2 DEF Enqueue, LockFree, NotifyFlushCv, callers
<1>2. ASSUME NEW t \in Callers, Flush(t) PROVE ControlInv'
  BY <1>2 DEF Flush, LockFree, NotifyFlushCv, timers, callers
<1>3. ASSUME NEW t \in Callers, Scrub(t) PROVE ControlInv'
  BY <1>3 DEF Scrub, LockFree, NotifyFlushCv, NotifyEmptyCv, timers
<1>4. ASSUME NEW t \in Callers, FlushWaitCall(t) \/ FlushWaitReturn(t) \/ FlushWaitSpurious(t)
      PROVE  ControlInv'
  BY <1>4, CallersMoveControlInv
     DEF FlushWaitCall, FlushWaitReturn, FlushWaitSpurious, timers, control
<1>5. ASSUME NEW t \in Callers, FlushWaitBlock(t) PROVE ControlInv'
  BY <1>5 DEF FlushWaitBlock, LockFree, NotifyFlushCv, timers
<1>6. ASSUME NEW t \in Threads, Destroy(t) PROVE ControlInv'
  BY <1>6, CallersMoveControlInv DEF Destroy, timers, control
<1>7. CASE DestroyStop
  BY <1>7 DEF DestroyStop, LockFree, NotifyFlushCv, timers
<1>8. CASE DestroyJoin
  BY <1>8, CallersMoveControlInv DEF DestroyJoin, timers, control
<1>9. CASE WorkerAcquire \/ WorkerTimeout \/ WorkerSpurious \/ WorkerHasWork
             \/ CallbackReturn \/ NotifyDone
  <2>1. CASE WorkerAcquire \/ WorkerTimeout \/ WorkerSpurious
    BY <2>1 DEF WorkerAcquire, WorkerTimeout, WorkerSpurious, WorkerGoes, timers, callers
  <2>2. CASE WorkerHasWork
    BY <2>2 DEF WorkerHasWork, WorkerGoes, timers, callers
  <2>3. CASE CallbackReturn
    BY <2>3 DEF CallbackReturn, WorkerGoes, timers, callers
  <2>4. CASE NotifyDone
    BY <2>4 DEF NotifyDone, WorkerGoes, timers, callers
  <2>. QED BY <1>9, <2>1, <2>2, <2>3, <2>4
<1>10. CASE WorkerDrained
  BY <1>10 DEF WorkerDrained, NotifyEmptyCv
<1>11. CASE Gather
  <2>1. batch' # <<>>
    BY <1>11, HeadTailProperties, AppendProperties DEF Gather, BatchHasRoom, TakeFront
  <2>. QED BY <1>11, <2>1 DEF Gather, control, callers
<1>12. CASE GatherTooBig \/ GatherDone
  <2>1. wpc = "gather" /\ wpc' = "decide" /\ UNCHANGED <<queues, shutdown, callers>>
    BY <1>12 DEF GatherTooBig, GatherDone, WorkerGoes
  <2>. QED BY <2>1 DEF callers
<1>13. CASE WaitForMore
  BY <1>13 DEF WaitForMore, MayWait, WorkerGoes, timers, callers
<1>14. CASE StartPost
  BY <1>14 DEF StartPost, WorkerGoes, callers
<1>15. CASE PostOk \/ PostGiveUp
  <2>1. wpc = "sending" /\ wpc' = "notify" /\ UNCHANGED <<flags, callers>>
    BY <1>15 DEF PostOk, PostGiveUp, FinishBatch, WorkerGoes
  <2>. QED BY <2>1 DEF callers
<1>16. CASE PostRetry
  BY <1>16 DEF PostRetry, WorkerGoes, callers
<1>17. CASE NotifyNext
  BY <1>17 DEF NotifyNext, WorkerGoes, callers
<1>18. CASE Tick
  BY <1>18 DEF Tick, callers
<1>19. CASE UNCHANGED vars
  BY <1>19, CallersMoveControlInv DEF vars, timers, control, callers
<1>. QED
  BY <1>1, <1>2, <1>3, <1>4, <1>5, <1>6, <1>7, <1>8, <1>9, <1>10, <1>11, <1>12, <1>13,
     <1>14, <1>15, <1>16, <1>17, <1>18, <1>19
  DEF Next, Application, WorkerStep, Destroyed

THEOREM ControlCorrect == Spec => [](TypeOK /\ ControlInv)
BY InitTypeOK, NextTypeOK, InitControlInv, NextControlInv, PTL DEF Spec

(* A Flush that comes while the worker posts, calls back or waits is       *)
(* never slept through.                                                    *)
THEOREM FlushNotLost == Spec => []NoLostFlush
BY ControlCorrect, PTL DEF ControlInv

(* The worker does not wait for ever on an empty queue when the destructor *)
(* has asked it to stop, or while a FlushWait waits for it.                *)
THEOREM SignalNotMissed == Spec => []NoMissedSignal
BY ControlCorrect, PTL DEF ControlInv

-----------------------------------------------------------------------------
(* Every step of the threads and the worker is one of EventDelivery's, or  *)
(* none: Pending, the three queues laid end to end, is its line.           *)

LEMMA EventsConcat ==
  \A s, t \in Seq(Events) : /\ s \o t \in Seq(Events)
                            /\ \A u \in Seq(Events) : (s \o t) \o u = s \o (t \o u)
BY ConcatProperties, ConcatAssociative

LEMMA PendingType ==
  ASSUME TypeOK
  PROVE  /\ batch \o events \in Seq(Events)
         /\ notifyq \o batch \in Seq(Events)
         /\ Pending \in Seq(Events)
         /\ Pending = notifyq \o (batch \o events)
BY EventsConcat DEF TypeOK, Pending

\* Neither the queues nor the outcomes change.
LEMMA DeliveryStutters ==
  ASSUME UNCHANGED <<queues, outcome>>
  PROVE  [Delivery!Next]_(Delivery!vars)
BY DEF queues, Pending, Delivery!vars

LEMMA InitDelivery == Init => Delivery!Init
<1> SUFFICES ASSUME Init PROVE Delivery!Init
  OBVIOUS
<1>1. <<>> \in Seq(Events)
  BY EmptySeq
<1>2. Pending = <<>>
  BY <1>1, ConcatEmptySeq DEF Init, Fresh, Pending
<1>. QED BY <1>2 DEF Init, Fresh, Delivery!Init

LEMMA EnqueueAccepts ==
  ASSUME TypeOK, NEW t \in Callers, NEW e \in Events, Enqueue(t, e)
  PROVE  Delivery!Accept(e)
<1>1. Pending' = notifyq \o (batch \o Append(events, e))
  <2>1. Append(events, e) \in Seq(Events)
    BY AppendProperties DEF TypeOK
  <2>. QED BY <2>1, EventsConcat DEF Enqueue, Pending, TypeOK
<1>2. Append(events, e) = events \o <<e>> /\ <<e>> \in Seq(Events)
  BY AppendIsConcat DEF TypeOK
<1>3. Append(Pending, e) = Pending \o <<e>>
  BY AppendIsConcat, PendingType
<1>4. Pending \o <<e>> = (notifyq \o batch) \o (events \o <<e>>)
  <2>1. notifyq \o batch \in Seq(Events) /\ events \in Seq(Events)
    BY PendingType DEF TypeOK
  <2>. QED BY <1>2, <2>1, EventsConcat DEF Pending
<1>5. Pending' = Append(Pending, e)
  BY <1>2, <1>3, <1>4 DEF Enqueue, Pending
<1>. QED BY <1>5 DEF Enqueue, Delivery!Accept

LEMMA ScrubWithdraws ==
  ASSUME TypeOK, NEW t \in Callers, Scrub(t)
  PROVE  \E kept \in 0..Len(Pending) : Delivery!Withdraw(kept)
<1> DEFINE held == notifyq \o batch
           kept == Len(held)
<1>1. /\ held \in Seq(Events) /\ events \in Seq(Events)
      /\ Pending = held \o events
      /\ Pending' = held \o <<>>
  BY PendingType DEF Scrub, Pending, TypeOK
<1> HIDE DEF held
<1>2. /\ Pending \in Seq(Events) /\ Len(held) \in Nat /\ Len(events) \in Nat
      /\ Len(Pending) = Len(held) + Len(events)
      /\ \A i \in 1..Len(Pending) :
           Pending[i] = IF i <= Len(held) THEN held[i] ELSE events[i - Len(held)]
  BY <1>1, ConcatProperties, LenProperties, SMT
<1>3. SubSeq(Pending, 1, kept) = held
  <2>1. \A i \in 1..kept : Pending[i] \in Events /\ Pending[i] = held[i]
    BY <1>1, <1>2, ElementOfSeq, SMT
  <2>2. /\ SubSeq(Pending, 1, kept) \in Seq(Events)
        /\ Len(SubSeq(Pending, 1, kept)) = kept
        /\ \A i \in 1..kept : SubSeq(Pending, 1, kept)[i] = Pending[i]
    BY <1>2, <2>1, SubSeqProperties, SMT
  <2>. QED BY <1>1, <2>1, <2>2, SeqEqual
<1>4. SubSeq(Pending, kept + 1, Len(Pending)) = events
  <2>1. \A i \in (kept + 1)..Len(Pending) : Pending[i] \in Events
    BY <1>2, ElementOfSeq, SMT
  <2>2. /\ SubSeq(Pending, kept + 1, Len(Pending)) \in Seq(Events)
        /\ Len(SubSeq(Pending, kept + 1, Len(Pending))) = Len(events)
        /\ \A i \in 1..Len(events) :
             SubSeq(Pending, kept + 1, Len(Pending))[i] = Pending[kept + i]
    <3>1. kept + 1 \in Int /\ Len(Pending) \in Int
      BY <1>2, SMT
    <3>2. /\ SubSeq(Pending, kept + 1, Len(Pending)) \in Seq(Events)
          /\ Len(SubSeq(Pending, kept + 1, Len(Pending)))
               = IF kept + 1 <= Len(Pending) THEN Len(Pending) - (kept + 1) + 1 ELSE 0
          /\ \A i \in 1..(Len(Pending) - (kept + 1) + 1) :
               SubSeq(Pending, kept + 1, Len(Pending))[i] = Pending[(kept + 1) + i - 1]
      BY <2>1, <3>1, SubSeqProperties
    <3>. QED BY <1>2, <3>2, SMT
  <2>3. \A i \in 1..Len(events) : Pending[kept + i] = events[i]
    BY <1>2, SMT
  <2>. QED BY <1>1, <2>2, <2>3, SeqEqual
<1>5. Pending' = SubSeq(Pending, 1, kept)
  BY <1>1, <1>3, ConcatEmptySeq
<1>6. kept \in 0..Len(Pending)
  BY <1>2, SMT
<1>7. outcome' = [e \in Events |-> IF e \in ToSet(SubSeq(Pending, kept + 1, Len(Pending)))
                                   THEN "scrubbed" ELSE outcome[e]]
  BY <1>4 DEF Scrub
<1>8. Delivery!Withdraw(kept)
  BY <1>5, <1>7 DEF Delivery!Withdraw, Delivery!ToSet, ToSet
<1>. QED BY <1>6, <1>8

LEMMA GatherStutters ==
  ASSUME TypeOK, Gather
  PROVE  Pending' = Pending /\ outcome' = outcome
<1> DEFINE first == Head(events)
<1>1. /\ first \in Events /\ Tail(events) \in Seq(Events) /\ <<first>> \in Seq(Events)
      /\ events # <<>>
  BY HeadTailProperties DEF Gather, BatchHasRoom, TypeOK
<1>2. events = <<first>> \o Tail(events)
  <2>1. /\ Len(<<first>> \o Tail(events)) = 1 + Len(Tail(events))
        /\ <<first>> \o Tail(events) \in Seq(Events)
        /\ \A i \in 1..(1 + Len(Tail(events))) :
             (<<first>> \o Tail(events))[i] = IF i <= 1 THEN <<first>>[i] ELSE Tail(events)[i - 1]
    <3>1. Len(<<first>>) = 1
      OBVIOUS
    <3>. QED BY <1>1, <3>1, ConcatProperties
  <2>2. /\ Len(events) \in Nat \ {0} /\ Len(Tail(events)) = Len(events) - 1
        /\ \A i \in 1..Len(Tail(events)) : Tail(events)[i] = events[i + 1]
        /\ first = events[1]
    BY <1>1, HeadTailProperties, EmptySeq DEF TypeOK
  <2>3. \A i \in 1..Len(events) : (<<first>> \o Tail(events))[i] = events[i]
    BY <2>1, <2>2, SMT
  <2>. QED BY <2>1, <2>2, <2>3, SeqEqual, SMT DEF TypeOK
<1> HIDE DEF first
<1>3. batch' = batch \o <<first>> /\ events' = Tail(events) /\ notifyq' = notifyq
  BY <1>1, AppendIsConcat DEF Gather, TakeFront, TypeOK, first
<1>4. notifyq \o (batch \o <<first>>) = (notifyq \o batch) \o <<first>>
  BY <1>1, EventsConcat DEF TypeOK
<1>5. ((notifyq \o batch) \o <<first>>) \o Tail(events)
        = (notifyq \o batch) \o (<<first>> \o Tail(events))
  BY <1>1, EventsConcat, PendingType
<1>. QED BY <1>2, <1>3, <1>4, <1>5 DEF Pending, Gather, observers

LEMMA FinishStutters ==
  ASSUME TypeOK, ControlInv, FinishBatch
  PROVE  Pending' = Pending /\ outcome' = outcome
<1>1. notifyq = <<>>
  BY DEF FinishBatch, WorkerGoes, ControlInv, WorkerInv
<1>2. Pending = batch \o events
  BY <1>1, PendingType, ConcatEmptySeq DEF TypeOK
<1>3. Pending' = batch \o events
  BY ConcatEmptySeq DEF FinishBatch, HandOver, Pending, TypeOK
<1>. QED BY <1>2, <1>3 DEF FinishBatch

LEMMA NotifySettles ==
  ASSUME TypeOK, NotifyNext
  PROVE  Delivery!Settle
<1> DEFINE rest == batch \o events
<1>1. notifyq \in Seq(Events) /\ notifyq # <<>> /\ rest \in Seq(Events)
  BY PendingType DEF NotifyNext, TypeOK
<1>2. Pending = notifyq \o rest /\ Pending \in Seq(Events)
  BY PendingType
<1>3. Pending' = Tail(notifyq) \o rest
  <2>1. Tail(notifyq) \in Seq(Events)
    BY <1>1, HeadTailProperties
  <2>. QED BY <2>1, EventsConcat DEF NotifyNext, Pending, TypeOK
<1> HIDE DEF rest
<1>4. /\ Len(notifyq) \in Nat \ {0} /\ Len(rest) \in Nat
      /\ Len(Pending) = Len(notifyq) + Len(rest)
      /\ \A i \in 1..(Len(notifyq) + Len(rest)) :
           Pending[i] = IF i <= Len(notifyq) THEN notifyq[i] ELSE rest[i - Len(notifyq)]
  BY <1>1, <1>2, ConcatProperties, LenProperties, EmptySeq
<1>5. Pending # <<>> /\ Head(Pending) = Head(notifyq)
  BY <1>1, <1>2, <1>4, EmptySeq, SMT
<1>6. /\ Tail(notifyq) \in Seq(Events) /\ Len(Tail(notifyq)) = Len(notifyq) - 1
      /\ \A i \in 1..Len(Tail(notifyq)) : Tail(notifyq)[i] = notifyq[i + 1]
  BY <1>1, HeadTailProperties
<1>7. /\ Tail(Pending) \in Seq(Events) /\ Len(Tail(Pending)) = Len(Pending) - 1
      /\ \A i \in 1..Len(Tail(Pending)) : Tail(Pending)[i] = Pending[i + 1]
  BY <1>2, <1>5, HeadTailProperties
<1>8. /\ Tail(notifyq) \o rest \in Seq(Events)
      /\ Len(Tail(notifyq) \o rest) = Len(Tail(notifyq)) + Len(rest)
      /\ \A i \in 1..(Len(Tail(notifyq)) + Len(rest)) :
           (Tail(notifyq) \o rest)[i] = IF i <= Len(Tail(notifyq)) THEN Tail(notifyq)[i]
                                        ELSE rest[i - Len(Tail(notifyq))]
  BY <1>1, <1>6, ConcatProperties
<1>9. Tail(notifyq) \o rest = Tail(Pending)
  <2>1. \A i \in 1..Len(Tail(Pending)) : (Tail(notifyq) \o rest)[i] = Tail(Pending)[i]
    BY <1>4, <1>6, <1>7, <1>8, SMT
  <2>2. Len(Tail(notifyq) \o rest) = Len(Tail(Pending))
    BY <1>4, <1>6, <1>7, <1>8, SMT
  <2>. QED BY <1>7, <1>8, <2>1, <2>2, SeqEqual
<1>10. \E verdict \in {"success", "failure"} :
         outcome' = [outcome EXCEPT ![Head(notifyq)] = verdict]
  BY DEF NotifyNext
<1>. QED BY <1>3, <1>5, <1>9, <1>10 DEF Delivery!Settle

LEMMA NextDelivery ==
  ASSUME TypeOK, ControlInv, [Next]_vars
  PROVE  [Delivery!Next]_(Delivery!vars)
<1>1. ASSUME NEW t \in Callers, NEW e \in Events, Enqueue(t, e)
      PROVE  Delivery!Next
  BY <1>1, EnqueueAccepts DEF Delivery!Next
<1>2. ASSUME NEW t \in Callers, Scrub(t) PROVE Delivery!Next
  BY <1>2, ScrubWithdraws DEF Delivery!Next
<1>3. CASE NotifyNext
  BY <1>3, NotifySettles DEF Delivery!Next
<1>4. CASE Gather
  BY <1>4, GatherStutters DEF Delivery!vars
<1>5. CASE PostOk \/ PostGiveUp
  BY <1>5, FinishStutters DEF PostOk, PostGiveUp, Delivery!vars
<1>6. ASSUME NEW t \in Callers,
             Flush(t) \/ FlushWaitCall(t) \/ FlushWaitReturn(t) \/ FlushWaitSpurious(t)
               \/ FlushWaitBlock(t)
      PROVE  [Delivery!Next]_(Delivery!vars)
  BY <1>6, DeliveryStutters
     DEF Flush, FlushWaitCall, FlushWaitReturn, FlushWaitSpurious, FlushWaitBlock, observers
<1>7. ASSUME (\E t \in Threads : Destroy(t)) \/ DestroyStop \/ DestroyJoin
      PROVE  [Delivery!Next]_(Delivery!vars)
  BY <1>7, DeliveryStutters DEF Destroy, DestroyStop, DestroyJoin, observers
<1>8. CASE WorkerAcquire \/ WorkerTimeout \/ WorkerSpurious \/ WorkerDrained
             \/ WorkerHasWork \/ CallbackReturn \/ NotifyDone
  BY <1>8, DeliveryStutters
     DEF WorkerAcquire, WorkerTimeout, WorkerSpurious, WorkerDrained, WorkerHasWork,
         CallbackReturn, NotifyDone, observers
<1>9. CASE GatherTooBig \/ GatherDone \/ WaitForMore \/ StartPost \/ PostRetry \/ Tick
  BY <1>9, DeliveryStutters
     DEF GatherTooBig, GatherDone, WaitForMore, StartPost, PostRetry, Tick, observers
<1>10. CASE UNCHANGED vars
  BY <1>10, DeliveryStutters DEF vars, observers
<1>. QED
  BY <1>1, <1>2, <1>3, <1>4, <1>5, <1>6, <1>7, <1>8, <1>9, <1>10
  DEF Next, Application, WorkerStep, Destroyed

(* The threads, the worker, its batch, its retries and the callbacks do    *)
(* what EventDelivery.tla promises: events are settled in the order they   *)
(* were queued, each once, and a scrub takes only what was not gathered.   *)
THEOREM Implements == Spec => DeliversInOrder
<1>1. Init => Delivery!Init
  BY InitDelivery
<1>2. TypeOK /\ ControlInv /\ [Next]_vars => [Delivery!Next]_(Delivery!vars)
  BY NextDelivery
<1>. QED BY <1>1, <1>2, ControlCorrect, PTL DEF Spec, DeliversInOrder, Delivery!Spec

\* What EventDeliveryProofs.tla proves of the line, with Pending for it.
Promise == INSTANCE EventDeliveryProofs WITH pending <- Pending

LEMMA KeepsPromise == Spec => Promise!Spec
<1>1. Delivery!Init => Promise!Init
  BY DEF Delivery!Init, Promise!Init
<1>2. [Delivery!Next]_(Delivery!vars) => [Promise!Next]_(Promise!vars)
  BY DEF Delivery!Next, Promise!Next, Delivery!vars, Promise!vars, Delivery!Accept,
         Promise!Accept, Delivery!Settle, Promise!Settle, Delivery!Withdraw,
         Promise!Withdraw, Delivery!ToSet, Promise!ToSet
<1>. QED BY <1>1, <1>2, Implements, PTL DEF DeliversInOrder, Delivery!Spec, Promise!Spec

(* Neither the gather loop nor the hand-over to the callbacks loses an     *)
(* event or doubles one, however the calls of any threads interleave.      *)
THEOREM InOnePlace == Spec => []OnePlace
<1>1. Promise!OnePlace => OnePlace
  BY DEF OnePlace, Delivery!OnePlace, Promise!OnePlace, Delivery!ToSet, Promise!ToSet
<1>. QED BY <1>1, KeepsPromise, Promise!PendingOnce, PTL

(* No event is reported twice, or after a Scrub dropped it.                *)
THEOREM ReportedOnce == Spec => OutcomeFinal
<1>1. Promise!OutcomeFinal => OutcomeFinal
  <2>1. [\A e \in Events : outcome[e] \in {"success", "failure", "scrubbed"}
                            => outcome'[e] = outcome[e]]_(Promise!vars)
        => [\A e \in Events : outcome[e] \in {"success", "failure", "scrubbed"}
                            => outcome'[e] = outcome[e]]_(Delivery!vars)
    BY DEF Promise!vars, Delivery!vars
  <2>. QED BY <2>1, PTL DEF OutcomeFinal, Delivery!OutcomeFinal, Promise!OutcomeFinal
<1>. QED BY <1>1, KeepsPromise, Promise!Final, PTL

(* When the destructor has returned, no event is left without an outcome.  *)
THEOREM NoneLeftBehind == Spec => []NothingLeftBehind
<1>1. TypeOK /\ ControlInv /\ OnePlace => NothingLeftBehind
  <2> SUFFICES ASSUME TypeOK, ControlInv, OnePlace, closing = "gone",
                      NEW e \in Events, outcome[e] = "queued"
               PROVE  FALSE
    BY DEF NothingLeftBehind
  <2>1. notifyq = <<>> /\ batch = <<>> /\ events = <<>>
    BY DEF ControlInv, WorkerInv, ClosingInv, Drained
  <2>2. Pending = <<>>
    BY <2>1, EmptySeq, ConcatEmptySeq DEF Pending
  <2>3. e \in ToSet(Pending)
    BY DEF OnePlace, Delivery!OnePlace, Delivery!ToSet, ToSet
  <2>. QED BY <2>2, <2>3, ToSetEmpty
<1>. QED BY <1>1, ControlCorrect, InOnePlace, PTL

=============================================================================
