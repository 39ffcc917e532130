----------------------------- MODULE MCSendBatch -----------------------------
(* Values for TLC's runs of SendBatch.tla. *)
EXTENDS SendBatchProperties

\* Success and another answer, which is not counted as one.
MCCodes == {200, 204}

MCInts == MCCodes \union {0}

\* An event like any other, and two that PostEvent takes and Track would not make.
MCCalls ==
  {[fn |-> "Identify", args |-> <<"me", JsonNull>>],
   [fn |-> "PostEvent", args |-> <<JsonOther>>],
   [fn |-> "PostEvent", args |-> <<JsonNull>>]}

\* A group's event that says who is in it, and a null for an event.
MCDocumentedCalls ==
  {[fn |-> "Group", args |-> <<"group", "me", "", JsonNull, JsonNull, JsonNull>>],
   [fn |-> "PostEvent", args |-> <<JsonNull>>]}

MCContexts ==
  {JsonOther, JsonObject("library" :> JsonString("mine")),
   JsonObject("app" :> JsonNull)}

MCIntegrations == {JsonNull, JsonObject("All" :> JsonNull)}

\* Every residue of the length modulo 3, and keys that overflow 16 bits.
MCKeys == UNION {[1..n -> {0, 97, 255}] : n \in 0..4}

MCWriteKey == <<97, 98, 255>>

=============================================================================
