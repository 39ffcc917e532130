------------------------------ MODULE Analytics ------------------------------
(***************************************************************************)
(* The event queue of segment::analytics::Analytics (analytics.cpp): the   *)
(* application threads that queue events and call Flush, FlushWait, Scrub  *)
(* and the destructor, and the one worker thread that gathers events into  *)
(* a batch, posts it, retries it and reports the outcome to the callback.  *)
(*                                                                         *)
(* The mutex.  An application call holds `lock` for one short critical     *)
(* section, which is one action here.  The worker holds it across several  *)
(* steps; LockFree says when it does not.                                  *)
(*                                                                         *)
(* Time.  Clock readings matter to the code only through differences with  *)
(* the current time, so a time point p is kept as the countdown            *)
(* max(0, p - now), and Tick advances the clock by counting down.          *)
(* time_point::max() is Never, later than any deadline the code computes.  *)
(***************************************************************************)
EXTENDS Naturals, Sequences, SequencesExt

CONSTANTS
  Threads,        \* the application's threads
  Worker,         \* the thread the constructor starts
  Events,         \* the events the application may queue, each at most once
  SizeOf,         \* bytes an event adds to the serialised batch
  FlushCount, FlushSize, FlushInterval, RetryInterval, MaxRetries,
  CallbackOps     \* what the application's Success/Failure may call back

ApiOps == {"Enqueue", "Flush", "Scrub", "FlushWait"}

ASSUME ConfigAssumption ==
  /\ Worker \notin Threads
  /\ SizeOf \in [Events -> Nat]
  /\ FlushCount \in Nat \ {0}
  /\ FlushSize \in Nat
  /\ FlushInterval \in Nat
  /\ RetryInterval \in Nat
  /\ MaxRetries \in Nat
  /\ CallbackOps \subseteq ApiOps

VARIABLES
  events, batch,  \* the deques of the same names
  notifyq,        \* processQueue's local: finished events still to be reported
  ok, fails,      \* processQueue's locals
  needFlush, shutdown,
  wakeIn,         \* wakeTime, as a countdown
  retryIn,        \* retryTime, as a countdown
  sinceNow,       \* time since processQueue read `now`, up to RetryInterval
  wpc,            \* where the worker is
  waitIn,         \* the deadline the worker's wait on flushCv was given
  fw,             \* where each caller of FlushWait is
  closing         \* how far the destructor has come

(***************************************************************************)
(* Observers: what the application can tell of an event, the time left     *)
(* until FlushInterval has passed since it was queued (while it is in      *)
(* events or batch), and how often it was posted.  No guard reads dueIn or *)
(* attempts; outcome only keeps an event from being queued twice.          *)
(***************************************************************************)
VARIABLES outcome, dueIn, attempts

queues    == <<events, batch, notifyq>>
flags     == <<needFlush, shutdown>>
timers    == <<wakeIn, retryIn, sinceNow>>
locals    == <<ok, fails>>
control   == <<wpc, waitIn>>
callers   == <<fw, closing>>
observers == <<outcome, dueIn, attempts>>
vars == <<queues, flags, timers, locals, control, callers, observers>>

Never == FlushInterval + RetryInterval + 1

Callers == Threads \union {Worker}

WorkerStates == {"ready", "sleep", "gather", "decide", "sending", "waiting",
                 "notify", "callback", "done"}
Outcomes == {"unsent", "queued", "success", "failure", "scrubbed"}

Pending == notifyq \o batch \o events

\* The size of the serialised batch; what encloses the events is counted off FlushSize.
BatchBytes(b) == FoldSeq(LAMBDA e, n : SizeOf[e] + n, 0, b)

TypeOK ==
  /\ events \in Seq(Events) /\ batch \in Seq(Events) /\ notifyq \in Seq(Events)
  /\ ok \in BOOLEAN /\ fails \in 0..MaxRetries
  /\ needFlush \in BOOLEAN /\ shutdown \in BOOLEAN
  /\ wakeIn \in 0..Never /\ retryIn \in 0..RetryInterval
  /\ sinceNow \in 0..RetryInterval
  /\ wpc \in WorkerStates /\ waitIn \in 0..Never
  /\ fw \in [Callers -> {"idle", "check", "wait"}]
  /\ closing \in {"no", "flush", "join", "gone"}
  /\ outcome \in [Events -> Outcomes]
  /\ dueIn \in [Events -> 0..FlushInterval]
  /\ attempts \in [Events -> Nat]

-----------------------------------------------------------------------------
(***************************************************************************)
(* Plausible mistakes.  No definition of the model uses them: each is put  *)
(* in the place of one that it resembles to see a property fail.           *)
(***************************************************************************)
EarlierSwapped(a, b)     == IF a < b THEN b ELSE a
NotifyFlushCvForgotten   == UNCHANGED wpc
NotifyEmptyCvForgotten   == UNCHANGED fw
DrainedButForBatch       == events = <<>>
DrainedUnlessFlush       == events = <<>> /\ batch = <<>> /\ ~needFlush
TakeFrontWithoutPop      == batch' = Append(batch, Head(events)) /\ events' = events
TakeFrontReversed        == batch' = <<Head(events)>> \o batch /\ events' = Tail(events)
MayWaitIgnoringFlush     == wakeIn > 0
MayWaitIgnoringClock     == ~needFlush
RetriesLeftOffByOne      == fails <= MaxRetries
CountFailureForgotten    == fails' = fails
FitsToTheByte(b)         == BatchBytes(b) <= FlushSize
HandOverWithoutClear     == notifyq' = batch /\ batch' = batch

-----------------------------------------------------------------------------
(* What the members' own constructors and processQueue's locals start with. *)
Fresh ==
  /\ events = <<>> /\ batch = <<>> /\ notifyq = <<>>
  /\ ok = FALSE /\ fails = 0
  /\ retryIn = 0 /\ sinceNow = 0
  /\ wpc = "ready" /\ waitIn = Never
  /\ fw = [t \in Callers |-> "idle"]
  /\ closing = "no"
  /\ outcome = [e \in Events |-> "unsent"]
  /\ dueIn = [e \in Events |-> 0]
  /\ attempts = [e \in Events |-> 0]

(* The state the constructors leave, the worker about to take the lock.    *)
Init == Fresh /\ needFlush = FALSE /\ shutdown = FALSE /\ wakeIn = Never

-----------------------------------------------------------------------------
(* Locks, condition variables, deadlines.                                  *)

LockFree == wpc \in {"ready", "waiting", "notify", "callback", "done"}

\* Only the worker waits on flushCv.
NotifyFlushCv == wpc' = IF wpc = "waiting" THEN "ready" ELSE wpc

NotifyEmptyCv == fw' = [t \in Callers |-> IF fw[t] = "wait" THEN "check" ELSE fw[t]]

\* wakeTime is only ever lowered, until the queues are empty.
Earlier(a, b) == IF a < b THEN a ELSE b

\* A thread may call in until the destructor starts; a callback, while it runs.
CanCall(t, op) ==
  /\ fw[t] = "idle"
  /\ IF t = Worker THEN wpc = "callback" /\ op \in CallbackOps ELSE closing = "no"

-----------------------------------------------------------------------------
(* The application's calls.                                                *)

\* queueEvent, which Track, Identify, Page, Screen, Alias, Group and PostEvent end in.
Enqueue(t, e) ==
  /\ CanCall(t, "Enqueue") /\ LockFree
  /\ outcome[e] = "unsent"
  /\ events' = Append(events, e)
  /\ wakeIn' = IF Len(events') = 1 THEN Earlier(FlushInterval, wakeIn) ELSE wakeIn
  /\ NotifyFlushCv
  /\ outcome' = [outcome EXCEPT ![e] = "queued"]
  /\ dueIn' = [dueIn EXCEPT ![e] = FlushInterval]
  /\ UNCHANGED <<batch, notifyq, flags, retryIn, sinceNow, locals, waitIn, callers, attempts>>

Flush(t) ==
  /\ CanCall(t, "Flush") /\ LockFree
  /\ needFlush' = TRUE
  /\ NotifyFlushCv
  /\ UNCHANGED <<queues, shutdown, timers, locals, waitIn, callers, observers>>

Scrub(t) ==
  /\ CanCall(t, "Scrub") /\ LockFree
  /\ events' = <<>>
  /\ NotifyEmptyCv /\ NotifyFlushCv
  /\ outcome' = [e \in Events |-> IF e \in ToSet(events) THEN "scrubbed" ELSE outcome[e]]
  /\ dueIn' = [e \in Events |-> IF e \in ToSet(events) THEN 0 ELSE dueIn[e]]
  /\ UNCHANGED <<batch, notifyq, flags, timers, locals, waitIn, closing, attempts>>

FlushWaitCall(t) ==
  /\ CanCall(t, "FlushWait")
  /\ fw' = [fw EXCEPT ![t] = "check"]
  /\ UNCHANGED <<queues, flags, timers, locals, control, closing, observers>>

\* One turn of FlushWait's loop: return, or ask for a flush and wait on emptyCv.
FlushWaitReturn(t) ==
  /\ fw[t] = "check" /\ LockFree
  /\ events = <<>>
  /\ fw' = [fw EXCEPT ![t] = "idle"]
  /\ UNCHANGED <<queues, flags, timers, locals, control, closing, observers>>

FlushWaitBlock(t) ==
  /\ fw[t] = "check" /\ LockFree
  /\ events # <<>>
  /\ needFlush' = TRUE
  /\ NotifyFlushCv
  /\ fw' = [fw EXCEPT ![t] = "wait"]
  /\ UNCHANGED <<queues, shutdown, timers, locals, waitIn, closing, observers>>

\* emptyCv may wake a waiter that nobody notified.
FlushWaitSpurious(t) ==
  /\ fw[t] = "wait"
  /\ fw' = [fw EXCEPT ![t] = "check"]
  /\ UNCHANGED <<queues, flags, timers, locals, control, closing, observers>>

\* ~Analytics: FlushWait, then shutdown under the lock, then join.
Destroy(t) ==
  /\ closing = "no"
  /\ \A u \in Threads : fw[u] = "idle"
  /\ closing' = "flush"
  /\ fw' = [fw EXCEPT ![t] = "check"]
  /\ UNCHANGED <<queues, flags, timers, locals, control, observers>>

DestroyStop ==
  /\ closing = "flush" /\ LockFree
  /\ \A u \in Threads : fw[u] = "idle"
  /\ shutdown' = TRUE
  /\ NotifyFlushCv
  /\ closing' = "join"
  /\ UNCHANGED <<queues, needFlush, timers, locals, waitIn, fw, observers>>

DestroyJoin ==
  /\ closing = "join" /\ wpc = "done"
  /\ closing' = "gone"
  /\ UNCHANGED <<queues, flags, timers, locals, control, fw, observers>>

-----------------------------------------------------------------------------
(* The worker: processQueue.                                               *)

WorkerGoes(from, to) == wpc = from /\ wpc' = to

\* The lock is taken at the start and again when a wait on flushCv ends.
WorkerAcquire ==
  /\ WorkerGoes("ready", "sleep")
  /\ UNCHANGED <<queues, flags, timers, locals, waitIn, callers, observers>>

WorkerTimeout ==
  /\ WorkerGoes("waiting", "ready")
  /\ waitIn = 0
  /\ UNCHANGED <<queues, flags, timers, locals, waitIn, callers, observers>>

WorkerSpurious ==
  /\ WorkerGoes("waiting", "ready")
  /\ waitIn > 0
  /\ UNCHANGED <<queues, flags, timers, locals, waitIn, callers, observers>>

Drained == events = <<>> /\ batch = <<>>

\* Nothing to do: reset, tell the flushers, then stop or wait without a deadline.
WorkerDrained ==
  /\ wpc = "sleep" /\ Drained
  /\ fails' = 0
  /\ wakeIn' = Never
  /\ NotifyEmptyCv
  /\ \/ shutdown  /\ wpc' = "done"    /\ UNCHANGED waitIn
     \/ ~shutdown /\ wpc' = "waiting" /\ waitIn' = Never
  /\ UNCHANGED <<queues, flags, retryIn, sinceNow, ok, closing, observers>>

WorkerHasWork ==
  /\ WorkerGoes("sleep", "gather") /\ ~Drained
  /\ UNCHANGED <<queues, flags, timers, locals, waitIn, callers, observers>>

\* The gather loop keeps an event in the batch only below FlushSize.
Fits(b) == BatchBytes(b) < FlushSize

\* One turn of the gather loop, and the ways out of it.
BatchHasRoom == events # <<>> /\ Len(batch) < FlushCount

TakeFront == batch' = Append(batch, Head(events)) /\ events' = Tail(events)

Gather ==
  /\ wpc = "gather" /\ BatchHasRoom
  /\ Fits(Append(batch, Head(events)))
  /\ TakeFront
  /\ UNCHANGED <<notifyq, flags, timers, locals, control, callers, observers>>

GatherTooBig ==
  /\ WorkerGoes("gather", "decide") /\ BatchHasRoom
  /\ ~Fits(Append(batch, Head(events)))
  /\ needFlush' = TRUE
  /\ UNCHANGED <<queues, shutdown, timers, locals, waitIn, callers, observers>>

GatherDone ==
  /\ WorkerGoes("gather", "decide") /\ ~BatchHasRoom
  /\ needFlush' = (needFlush \/ Len(batch) >= FlushCount)
  /\ UNCHANGED <<queues, shutdown, timers, locals, waitIn, callers, observers>>

MayWait == ~needFlush /\ wakeIn > 0

WaitForMore ==
  /\ WorkerGoes("decide", "waiting") /\ MayWait
  /\ waitIn' = wakeIn
  /\ UNCHANGED <<queues, flags, timers, locals, callers, observers>>

\* sendBatch is entered with the lock held; `now` was read just before.
StartPost ==
  /\ WorkerGoes("decide", "sending") /\ ~MayWait
  /\ needFlush' = FALSE
  /\ sinceNow' = 0
  /\ attempts' = [e \in Events |-> IF e \in ToSet(batch) THEN attempts[e] + 1 ELSE attempts[e]]
  /\ UNCHANGED <<queues, shutdown, wakeIn, retryIn, locals, waitIn, callers, outcome, dueIn>>

HandOver == notifyq' = batch /\ batch' = <<>>

\* The batch is finished: hand it to the callbacks and unlock.
FinishBatch ==
  /\ WorkerGoes("sending", "notify")
  /\ HandOver
  /\ dueIn' = [e \in Events |-> IF e \in ToSet(batch) THEN 0 ELSE dueIn[e]]
  /\ UNCHANGED <<events, flags, timers, waitIn, callers, outcome, attempts>>

\* The transport answered 200.
PostOk ==
  /\ ok' = TRUE
  /\ fails' = 0
  /\ FinishBatch

RetriesLeft == fails < MaxRetries

CountFailure == fails' = fails + 1

\* The transport threw, or answered anything but 200: try again later.
PostRetry ==
  /\ WorkerGoes("sending", "waiting")
  /\ RetriesLeft
  /\ CountFailure
  /\ retryIn' = RetryInterval - sinceNow
  /\ wakeIn' = Earlier(retryIn', wakeIn)
  /\ waitIn' = wakeIn'
  /\ UNCHANGED <<queues, flags, sinceNow, ok, callers, observers>>

\* The same, with no retry left; fails stays at MaxRetries.
PostGiveUp ==
  /\ ~RetriesLeft
  /\ ok' = FALSE
  /\ FinishBatch
  /\ UNCHANGED fails

\* cb->Success or cb->Failure is called without the lock; it may call back in.
NotifyNext ==
  /\ WorkerGoes("notify", "callback")
  /\ notifyq # <<>>
  /\ notifyq' = Tail(notifyq)
  /\ outcome' = [outcome EXCEPT ![Head(notifyq)] = IF ok THEN "success" ELSE "failure"]
  /\ UNCHANGED <<events, batch, flags, timers, locals, waitIn, callers, dueIn, attempts>>

\* It returns or throws: the worker carries on either way.
CallbackReturn ==
  /\ WorkerGoes("callback", "notify")
  /\ fw[Worker] = "idle"
  /\ UNCHANGED <<queues, flags, timers, locals, waitIn, callers, observers>>

NotifyDone ==
  /\ WorkerGoes("notify", "sleep")
  /\ notifyq = <<>>
  /\ UNCHANGED <<queues, flags, timers, locals, waitIn, callers, observers>>

-----------------------------------------------------------------------------
(* The clock.                                                              *)

Elapse(countdown) ==
  IF countdown = 0 \/ countdown = Never THEN countdown ELSE countdown - 1

InSend == wpc = "sending" /\ sinceNow < RetryInterval

ClockRuns ==
  \/ wakeIn \notin {0, Never}
  \/ retryIn > 0
  \/ InSend
  \/ \E e \in Events : dueIn[e] > 0

Tick ==
  /\ ClockRuns
  /\ wakeIn' = Elapse(wakeIn)
  /\ waitIn' = Elapse(waitIn)
  /\ retryIn' = Elapse(retryIn)
  /\ sinceNow' = IF InSend THEN sinceNow + 1 ELSE sinceNow
  /\ dueIn' = [e \in Events |-> Elapse(dueIn[e])]
  /\ UNCHANGED <<queues, flags, locals, wpc, callers, outcome, attempts>>

-----------------------------------------------------------------------------

Application ==
  \/ \E t \in Callers :
       \/ \E e \in Events : Enqueue(t, e)
       \/ Flush(t)
       \/ Scrub(t)
       \/ FlushWaitCall(t)
       \/ FlushWaitReturn(t)
       \/ FlushWaitBlock(t)
       \/ FlushWaitSpurious(t)
  \/ \E t \in Threads : Destroy(t)
  \/ DestroyStop
  \/ DestroyJoin

\* What the worker does of itself: all its steps but a spurious wake-up.
WorkerStep ==
  \/ WorkerAcquire \/ WorkerTimeout \/ WorkerDrained \/ WorkerHasWork
  \/ Gather \/ GatherTooBig \/ GatherDone
  \/ WaitForMore \/ StartPost
  \/ PostOk \/ PostRetry \/ PostGiveUp
  \/ NotifyNext \/ CallbackReturn \/ NotifyDone

\* After the destructor nothing is left to happen.
Destroyed == closing = "gone" /\ UNCHANGED vars

Next == Application \/ WorkerStep \/ WorkerSpurious \/ Tick \/ Destroyed

Spec == Init /\ [][Next]_vars

\* The worker runs, the handler and the callbacks return, the clock advances, and a
\* thread that waits for a mutex that keeps being released gets it in the end.
Fairness ==
  /\ WF_vars(WorkerStep)
  /\ WF_vars(Tick)
  /\ \A t \in Callers : SF_vars(FlushWaitReturn(t) \/ FlushWaitBlock(t))
  /\ SF_vars(DestroyStop)
  /\ WF_vars(DestroyJoin)

FairSpec == Spec /\ Fairness
=============================================================================
