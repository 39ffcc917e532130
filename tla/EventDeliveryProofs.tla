------------------------- MODULE EventDeliveryProofs -------------------------
(***************************************************************************)
(* What follows from EventDelivery.tla alone, for every set of events.     *)
(***************************************************************************)
EXTENDS EventDelivery, QueueLemmas

LEMMA InitInv == Init => TypeOK /\ OnePlace
<1> SUFFICES ASSUME Init PROVE TypeOK /\ OnePlace
  OBVIOUS
<1>1. pending \in Seq(Events) /\ Len(pending) = 0
  BY EmptySeq DEF Init
<1>2. outcome \in [Events -> {"unsent", "queued", "success", "failure", "scrubbed"}]
  BY DEF Init
<1>3. OnePlace
  BY <1>1, ToSetEmpty, SMT DEF Init, OnePlace
<1>. QED BY <1>1, <1>2, <1>3 DEF TypeOK

LEMMA AcceptInv ==
  ASSUME TypeOK, OnePlace, NEW e \in Events, Accept(e)
  PROVE  TypeOK' /\ OnePlace'
<1> USE DEF TypeOK
<1>1. pending' \in Seq(Events)
  BY AppendProperties DEF Accept
<1>2. outcome' \in [Events -> {"unsent", "queued", "success", "failure", "scrubbed"}]
  BY DEF Accept
<1>3. Distinct(pending) /\ e \notin ToSet(pending)
  BY DEF OnePlace, Accept, Distinct
<1>4. Distinct(pending') /\ ToSet(pending') = ToSet(pending) \union {e}
  BY <1>3, AppendToSet DEF Accept
<1>5. \A f \in Events : outcome'[f] = "queued" <=> f \in ToSet(pending')
  BY <1>4 DEF OnePlace, Accept
<1>. QED BY <1>1, <1>2, <1>4, <1>5 DEF OnePlace, Distinct

LEMMA SettleInv ==
  ASSUME TypeOK, OnePlace, Settle
  PROVE  TypeOK' /\ OnePlace'
<1> USE DEF TypeOK
<1>1. pending' \in Seq(Events)
  BY HeadTailProperties DEF Settle
<1>2. outcome' \in [Events -> {"unsent", "queued", "success", "failure", "scrubbed"}]
  BY DEF Settle
<1>3. Distinct(pending)
  BY DEF OnePlace, Distinct
<1>4. /\ Distinct(pending') /\ Head(pending) \notin ToSet(pending')
      /\ ToSet(pending) = {Head(pending)} \union ToSet(pending')
  BY <1>3, TailToSet DEF Settle
<1>5. \A f \in Events : outcome'[f] = "queued" <=> f \in ToSet(pending')
  BY <1>4 DEF OnePlace, Settle
<1>. QED BY <1>1, <1>2, <1>4, <1>5 DEF OnePlace, Distinct

LEMMA WithdrawInv ==
  ASSUME TypeOK, OnePlace, NEW kept \in 0..Len(pending), Withdraw(kept)
  PROVE  TypeOK' /\ OnePlace'
<1> USE DEF TypeOK
<1> DEFINE gone == SubSeq(pending, kept + 1, Len(pending))
<1>1. Distinct(pending)
  BY DEF OnePlace, Distinct
<1>2. /\ pending' \in Seq(Events) /\ Distinct(pending')
      /\ ToSet(pending) = ToSet(pending') \union ToSet(gone)
      /\ ToSet(pending') \intersect ToSet(gone) = {}
  BY <1>1, CutToSet DEF Withdraw
<1>3. outcome' = [e \in Events |-> IF e \in ToSet(gone) THEN "scrubbed" ELSE outcome[e]]
  BY DEF Withdraw
<1> HIDE DEF gone
<1>4. outcome' \in [Events -> {"unsent", "queued", "success", "failure", "scrubbed"}]
  BY <1>3
<1>5. \A f \in Events : outcome'[f] = "queued" <=> f \in ToSet(pending')
  BY <1>2, <1>3 DEF OnePlace
<1>. QED BY <1>2, <1>4, <1>5 DEF OnePlace, Distinct

LEMMA NextInv ==
  ASSUME TypeOK, OnePlace, [Next]_vars
  PROVE  TypeOK' /\ OnePlace'
<1>1. CASE UNCHANGED vars
  BY <1>1 DEF vars, TypeOK, OnePlace
<1>. QED BY <1>1, AcceptInv, SettleInv, WithdrawInv DEF Next

LEMMA NextFinal ==
  ASSUME TypeOK, OnePlace, [Next]_vars,
         NEW e \in Events, outcome[e] \in {"success", "failure", "scrubbed"}
  PROVE  outcome'[e] = outcome[e]
<1> USE DEF TypeOK
<1>1. e \notin ToSet(pending)
  BY DEF OnePlace
<1>2. CASE \E f \in Events : Accept(f)
  BY <1>2 DEF Accept
<1>3. CASE Settle
  BY <1>1, <1>3, TailToSet DEF Settle
<1>4. ASSUME NEW kept \in 0..Len(pending), Withdraw(kept) PROVE outcome'[e] = outcome[e]
  BY <1>1, <1>4, CutToSet DEF Withdraw
<1>5. CASE UNCHANGED vars
  BY <1>5 DEF vars
<1>. QED BY <1>2, <1>3, <1>4, <1>5 DEF Next

(* Whatever is accepted, settled and withdrawn, an event is pending        *)
(* exactly while its outcome is open, and once.                            *)
THEOREM PendingOnce == Spec => [](TypeOK /\ OnePlace)
BY InitInv, NextInv, PTL DEF Spec

(* The outcome of an event is final.                                       *)
THEOREM Final == Spec => OutcomeFinal
<1>1. TypeOK /\ OnePlace /\ [Next]_vars
        => [\A e \in Events : outcome[e] \in {"success", "failure", "scrubbed"}
                                => outcome'[e] = outcome[e]]_vars
  BY NextFinal
<1>. QED BY <1>1, PendingOnce, PTL DEF Spec, OutcomeFinal

=============================================================================
