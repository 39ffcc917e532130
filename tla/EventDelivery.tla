---------------------------- MODULE EventDelivery ----------------------------
(***************************************************************************)
(* What analytics.hpp promises an application about the events it queues,  *)
(* with no worker, lock, batch, retry or clock: events are accepted into   *)
(* one line; the head of the line is settled, once, as uploaded or failed; *)
(* a scrub drops the events at the end of the line that no upload holds.   *)
(***************************************************************************)
EXTENDS Naturals, Sequences, SequencesExt

CONSTANT Events

VARIABLES
  pending,   \* the events accepted and not settled, in the order accepted
  outcome    \* what became of each event

vars == <<pending, outcome>>

Init ==
  /\ pending = <<>>
  /\ outcome = [e \in Events |-> "unsent"]

Accept(e) ==
  /\ outcome[e] = "unsent"
  /\ pending' = Append(pending, e)
  /\ outcome' = [outcome EXCEPT ![e] = "queued"]

Settle ==
  /\ pending # <<>>
  /\ pending' = Tail(pending)
  /\ \E verdict \in {"success", "failure"} :
       outcome' = [outcome EXCEPT ![Head(pending)] = verdict]

Withdraw(kept) ==
  /\ pending' = SubSeq(pending, 1, kept)
  /\ outcome' = [e \in Events |-> IF e \in ToSet(SubSeq(pending, kept + 1, Len(pending)))
                                  THEN "scrubbed" ELSE outcome[e]]

Next ==
  \/ \E e \in Events : Accept(e)
  \/ Settle
  \/ \E kept \in 0..Len(pending) : Withdraw(kept)

Spec == Init /\ [][Next]_vars

\* Whoever is at the head of the line is settled in the end.
FairSpec == Spec /\ WF_vars(Settle)

-----------------------------------------------------------------------------

TypeOK ==
  /\ pending \in Seq(Events)
  /\ outcome \in [Events -> {"unsent", "queued", "success", "failure", "scrubbed"}]

(* Every event is where its outcome says it is, and in one place only: an  *)
(* event accepted and not settled is pending, once.                        *)
OnePlace ==
  /\ \A i, j \in 1..Len(pending) : pending[i] = pending[j] => i = j
  /\ \A e \in Events : outcome[e] = "queued" <=> e \in ToSet(pending)

(* What became of an event is never taken back: it is not settled twice,   *)
(* not after it was scrubbed, and not queued again.                        *)
OutcomeFinal ==
  [][\A e \in Events :
       outcome[e] \in {"success", "failure", "scrubbed"} => outcome'[e] = outcome[e]]_vars

=============================================================================
