----------------------------- MODULE MCAnalytics -----------------------------
(* Values for TLC's runs of Analytics.tla. *)
EXTENDS AnalyticsProperties, FiniteSets

CONSTANTS e1, e2, e3

\* e1 and e2 fit a batch together; neither fits one with e3; each fits alone.
MixedSizes == [e \in Events |-> IF e = e3 THEN 3 ELSE 1]

\* e1 alone is too big for any batch.
OversizedFirst == [e \in Events |-> IF e = e1 THEN 9 ELSE 1]

=============================================================================
