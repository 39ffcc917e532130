------------------------- MODULE AnalyticsProperties -------------------------
(***************************************************************************)
(* What must hold of the event queue of Analytics.tla.                     *)
(***************************************************************************)
EXTENDS Analytics

Delivery == INSTANCE EventDelivery WITH pending <- Pending

\* What is decided of an event: of those in notifyq by ok, though it is not reported yet.
Fate(e) ==
  IF e \in ToSet(notifyq) THEN IF ok THEN "success" ELSE "failure"
  ELSE IF outcome[e] \in {"success", "failure"} THEN outcome[e] ELSE "open"

Tries == INSTANCE BatchRetry WITH batch <- ToSet(batch), fate <- [e \in Events |-> Fate(e)]

(* Every event is where its outcome says it is, and in one place only: an  *)
(* event queueEvent took and nobody was told about is in exactly one of    *)
(* events, batch and notifyq, once.  The gather loop, which pushes an      *)
(* event into the batch before it pops it off the queue, and the hand-over *)
(* to the callbacks neither lose nor double one.                           *)
OnePlace == Delivery!OnePlace

(* A worker that waits on flushCv will wake no later than FlushInterval    *)
(* after the oldest of the events it has not uploaded was queued, whatever *)
(* wakeTime was when it went to sleep and whoever queued events since.     *)
NoOversleep ==
  wpc = "waiting" => \A e \in ToSet(batch \o events) : waitIn <= dueIn[e]

(* The worker never waits while a Flush is wanted and there is something   *)
(* to upload: needFlush set during a post, a callback or a wait is seen.   *)
NoLostFlush ==
  wpc = "waiting" /\ needFlush => events = <<>> /\ batch = <<>>

(* With both queues empty the worker waits only if no destructor has asked *)
(* it to stop, and neither then nor after it stopped is a FlushWait left   *)
(* waiting on emptyCv: the notifications of the two condition variables,   *)
(* which are not remembered, are not missed.                               *)
NoMissedSignal ==
  wpc \in {"waiting", "done"} /\ events = <<>> /\ batch = <<>> =>
    /\ wpc = "waiting" => ~shutdown
    /\ \A t \in Callers : fw[t] # "wait"

(* When the destructor has returned, every event ever queued has been      *)
(* reported to the callback or scrubbed, though FlushWait does not look    *)
(* into the batch and callbacks may queue events until the worker stops.   *)
NothingLeftBehind ==
  closing = "gone" => \A e \in Events : outcome[e] # "queued"

(* No event is posted more than once and MaxRetries times more, although   *)
(* the failure count belongs to the worker and not to the batch, and the   *)
(* batch may grow between two attempts.                                    *)
AttemptsBounded == \A e \in Events : attempts[e] <= MaxRetries + 1

(* A batch keeps to FlushCount and stays below FlushSize, also when it     *)
(* grows while it is being retried.  That is the size of {"batch": ...},   *)
(* which the code measures; Context and Integrations are sent beside it.   *)
BatchWithinLimits ==
  /\ Len(batch) <= FlushCount
  /\ batch # <<>> => BatchBytes(batch) < FlushSize

(* While no event is pending the worker reads none of the limits, Callback, *)
(* Handler, Context and Integrations, public members it reads under a lock  *)
(* the application cannot take: assigning them then is no race.             *)
QuietWhenSettled ==
  (\A e \in Events : outcome[e] # "queued") => wpc \notin {"gather", "decide", "sending"}

(* A callback that waits in FlushWait holds up the worker, which alone      *)
(* uploads; as long as it waits there is an event left for another thread's *)
(* Scrub to take away, and that Scrub does free it.                         *)
CallbackFlushEnds == fw[Worker] = "wait" => events # <<>>

(* sendBatch is never entered with an empty batch, if each event is small  *)
(* enough to be sent alone.                                                *)
NoEmptyPost == wpc = "sending" => batch # <<>>

(* What the application was told of an event is never taken back: no       *)
(* second callback, none after a Scrub.                                    *)
OutcomeFinal == Delivery!OutcomeFinal

(* The worker, the batch, the retries and the locks together do no more    *)
(* than EventDelivery.tla promises: events are settled in the order they   *)
(* were queued, each once, and only the not yet gathered are scrubbed.     *)
DeliversInOrder == Delivery!Spec

(* ... and the head of the line is always settled in the end.              *)
KeepsDelivering == Delivery!FairSpec

(* Failures are counted, forgiven and given up on as in BatchRetry.tla,    *)
(* which SendBatch.tla implements too: whatever is queued, flushed or      *)
(* scrubbed meanwhile, an event fails only when MaxRetries posts in a row  *)
(* had failed before, together with all of its batch, and what is decided  *)
(* when the batch is handed over is what the callback is told later.       *)
RetriesAsAgreed == Tries!Spec

(* Every event queued is uploaded, reported failed or scrubbed in the end. *)
EventuallySettled ==
  \A e \in Events : outcome[e] = "queued" ~> outcome[e] # "queued"

(* FlushWait returns, in any thread, whoever else flushes or scrubs.       *)
FlushWaitReturns == \A t \in Callers : fw[t] # "idle" ~> fw[t] = "idle"

(* The destructor returns: the worker sees shutdown and stops.             *)
DestructorReturns == closing = "flush" ~> closing = "gone"

-----------------------------------------------------------------------------
(***************************************************************************)
(* What the comments say and the code does not do.                         *)
(***************************************************************************)

(* analytics.cpp:252-254: when FlushWait looks at the queue, no event taken *)
(* off it is still being processed, "the lock will be held".               *)
FlushWaitSeesAll ==
  [][\A t \in Callers :
       fw[t] = "check" /\ fw'[t] = "idle" => batch = <<>> /\ notifyq = <<>>]_vars

(* analytics.hpp:133: RetryInterval is "the amount of time to wait before  *)
(* retrying a post".  A post that no flush and no full batch asks for      *)
(* again does not come before retryTime.                                   *)
RetryWaits ==
  [][wpc = "decide" /\ wpc' = "sending" /\ ~needFlush
       /\ (\E e \in ToSet(batch) : attempts[e] > 0)
     => retryIn = 0]_vars

(* analytics.hpp:126-130: a batch goes up when it is full, when            *)
(* FlushInterval has passed or when a flush is asked for.  A first post    *)
(* that is neither full nor flushed holds an event queued that long ago.   *)
NoEarlyUpload ==
  [][wpc = "decide" /\ wpc' = "sending" /\ ~needFlush
       /\ (\A e \in ToSet(batch) : attempts[e] = 0)
     => \E e \in ToSet(batch) : dueIn[e] = 0]_vars

(* analytics.hpp:111-113: "the failure will not be reported until all      *)
(* retries are exhausted": an event reported failed was posted that often. *)
FailureExhaustsRetries ==
  \A e \in Events : outcome[e] = "failure" => attempts[e] = MaxRetries + 1

(* analytics.hpp:96-99: Scrub "deletes all events that are queued for      *)
(* processing": it leaves none behind but those being reported.            *)
ScrubLeavesNone ==
  [][(\E e \in Events : outcome[e] = "queued" /\ outcome'[e] = "scrubbed")
     => \A e \in Events : outcome'[e] = "queued" => e \in ToSet(notifyq)]_vars

=============================================================================
