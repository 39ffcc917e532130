----------------------------- MODULE BatchRetry ------------------------------
(***************************************************************************)
(* How processQueue retries, and nothing else: no queue before the batch,  *)
(* no request, no clock, no callback.  One count of failures in a row      *)
(* serves batch after batch, and a batch grows while it is retried.  Both  *)
(* views of the worker, Analytics.tla and SendBatch.tla, implement this.   *)
(***************************************************************************)
EXTENDS Naturals

CONSTANTS Events, MaxRetries

VARIABLES
  batch,   \* the set of events being tried
  fails,
  fate     \* what was decided of each event, also if it is not reported yet

vars == <<batch, fails, fate>>

Init == batch = {} /\ fails = 0 /\ fate = [e \in Events |-> "open"]

\* An event that nothing is decided of joins the batch, between two attempts too.
Join(e) ==
  /\ fate[e] = "open" /\ e \notin batch
  /\ batch' = batch \union {e}
  /\ UNCHANGED <<fails, fate>>

\* The same verdict for all that is in the batch.
Decide(verdict) ==
  /\ batch' = {}
  /\ fate' = [e \in Events |-> IF e \in batch THEN verdict ELSE fate[e]]

Succeed == fails' = 0 /\ Decide("success")

Retry == fails < MaxRetries /\ fails' = fails + 1 /\ UNCHANGED <<batch, fate>>

\* The count stays at the limit: the next batch gets no retry unless it succeeds.
GiveUp == fails = MaxRetries /\ UNCHANGED fails /\ Decide("failure")

\* Nothing to do, which forgives the failures.
Drained == batch = {} /\ fails' = 0 /\ UNCHANGED <<batch, fate>>

Next == (\E e \in Events : Join(e)) \/ Succeed \/ Retry \/ GiveUp \/ Drained

Spec == Init /\ [][Next]_vars

=============================================================================
