------------------------------ MODULE SendBatch ------------------------------
(***************************************************************************)
(* One batch after another through sendBatch, which builds the request,    *)
(* and any http::Handler, which may throw, lose the answer or relay what   *)
(* the server says; with the retries of processQueue around it.  The queue *)
(* before the batch, the deadlines and the callbacks are Analytics.tla's.  *)
(***************************************************************************)
EXTENDS Events, Base64, FiniteSets

CONSTANTS
  Calls,          \* the calls that queue an event, each made at most once
  ContextValues, IntegrationsValues,  \* what the application may assign to the members
  WriteKey,       \* the bytes of the write key
  MaxRetries,
  Codes,          \* the HTTP status codes a server sends
  Ints            \* the values of an int

ASSUME SendAssumption ==
  /\ WriteKey \in Seq(Byte)
  /\ MaxRetries \in Nat
  /\ Codes \subseteq Nat \ {0} /\ 200 \in Codes
  /\ Codes \union {0} \subseteq Ints /\ Ints \subseteq Int

VARIABLES
  context, integrations,         \* the public members Context and Integrations
  batch,                         \* the calls whose events are in the batch
  fails,
  posting,                       \* sendBatch has called the handler
  request,                       \* what it was called with
  busy, answer, taken, result, unread,   \* the handler, see Handler.tla
  assigned,                      \* what the application last assigned to Context
  reason,                        \* the HTTP code the last Failure was given, 0 for another text
  told,                          \* what was reported of each call's event
  copies                         \* how often the server took it

members   == <<context, integrations, assigned>>
handler   == <<busy, answer, taken, result, unread>>
observers == <<reason, told, copies>>
vars == <<members, batch, fails, posting, request, handler, observers>>

H == INSTANCE Handler

TypeOK ==
  /\ batch \subseteq Calls
  /\ fails \in 0..MaxRetries
  /\ posting \in BOOLEAN
  /\ H!TypeOK
  /\ reason \in Ints
  /\ told \in [Calls -> {"unsent", "queued", "success", "failure"}]
  /\ copies \in [Calls -> Nat]

-----------------------------------------------------------------------------
(* Plausible mistakes, used by no definition of the model. *)
AcceptedAnySuccess(r)      == r.kind = "response" /\ r.code \in 200..299
RetriesLeftOffByOne        == fails <= MaxRetries
AfterLibraryByReference(c) == Put(c, "library", Indexed(At(c, "library"), "name"))
ReasonKeepsFirst(code)     == reason' = IF reason = 0 THEN code ELSE reason
BuildFailsUncounted        == UNCHANGED <<batch, fails, observers>>
DrainedWithoutLooking      ==
  /\ ~posting /\ fails > 0 /\ fails' = 0
  /\ UNCHANGED <<members, batch, posting, request, handler, observers>>

-----------------------------------------------------------------------------
\* initContext, with the names of the system and the release that getOs finds.
DefaultContext ==
  JsonObject(
    "os" :> JsonObject("name" :> JsonString("sysname") @@ "version" :> JsonString("release")) @@
    "library" :> JsonObject("name" :> JsonString("analytics-cpp") @@ "version" :> JsonString("0.9")))

Init ==
  /\ context = DefaultContext /\ assigned = DefaultContext
  /\ integrations = JsonNull
  /\ batch = {} /\ fails = 0
  /\ posting = FALSE /\ request = JsonNull
  /\ H!Init
  /\ reason = 0
  /\ told = [c \in Calls |-> "unsent"]
  /\ copies = [c \in Calls |-> 0]

\* The application may assign the members while nothing is pending.
SetContext(c) ==
  /\ batch = {}
  /\ context' = c /\ assigned' = c
  /\ UNCHANGED <<integrations, batch, fails, posting, request, handler, observers>>

SetIntegrations(i) ==
  /\ batch = {}
  /\ integrations' = i
  /\ UNCHANGED <<context, assigned, batch, fails, posting, request, handler, observers>>

\* The worker gathers another event, also into a batch that failed.
Gather(c) ==
  /\ ~posting /\ told[c] = "unsent"
  /\ batch' = batch \union {c}
  /\ told' = [told EXCEPT ![c] = "queued"]
  /\ UNCHANGED <<members, fails, posting, request, handler, reason, copies>>

-----------------------------------------------------------------------------
(* The result of sendBatch in processQueue.                                *)

Settle(verdict) ==
  /\ batch' = {}
  /\ told' = [c \in Calls |-> IF c \in batch THEN verdict ELSE told[c]]
  /\ UNCHANGED copies

RetriesLeft == fails < MaxRetries

GiveReason(code) == reason' = code

\* An exception out of sendBatch; code is in its text if it is an http::Error.
Fail(code) ==
  \/ RetriesLeft /\ fails' = fails + 1 /\ UNCHANGED <<batch, observers>>
  \/ ~RetriesLeft /\ UNCHANGED fails /\ GiveReason(code) /\ Settle("failure")

\* Both queues are found empty.
Drained ==
  /\ batch = {} /\ fails > 0
  /\ fails' = 0
  /\ UNCHANGED <<members, batch, posting, request, handler, observers>>

-----------------------------------------------------------------------------
(* sendBatch.                                                              *)

\* The loop that stamps copies of the events; operator[] throws on what is no object.
StampCopies == \A c \in batch : Indexable(EventOf(c))

CanBuild ==
  /\ StampCopies
  /\ Indexable(context) /\ Indexable(At(context, "library"))

\* Context["library"] inserts what it does not find; library is a copy of it.
AfterLibrary(c) == Indexed(c, "library")

Body ==
  LET With(body, name, j) == IF IsObject(j) THEN Put(body, name, j) ELSE body
      events == Put(JsonNull, "batch", {EventOf(c) : c \in batch})
  IN  With(With(events, "integrations", integrations), "context", context)

UserAgent ==
  LET library == At(context, "library")
  IN  <<At(library, "name"), At(Indexed(library, "name"), "version")>>

Authorization == base64_encode(Append(WriteKey, 58))

Build ==
  /\ request' = [body |-> Body, agent |-> UserAgent, authorization |-> Authorization]
  /\ context' = AfterLibrary(context)

Post ==
  /\ batch # {} /\ ~posting
  /\ CanBuild /\ Build
  /\ H!Call
  /\ posting' = TRUE
  /\ UNCHANGED <<integrations, assigned, batch, fails, observers>>

BuildFails == Fail(0)

\* It throws before it calls the handler, and has changed nothing.
PostThrows ==
  /\ batch # {} /\ ~posting
  /\ ~CanBuild
  /\ BuildFails
  /\ UNCHANGED <<members, posting, request, handler>>

\* The handler's side: Handler.tla's steps, and what the server takes by them.
HandlerExchange ==
  /\ H!Exchange
  /\ copies' = [c \in Calls |->
       IF c \in batch /\ taken' /\ ~taken THEN copies[c] + 1 ELSE copies[c]]
  /\ UNCHANGED <<members, batch, fails, posting, request, reason, told>>

HandlerFinish ==
  /\ H!Finish \/ H!FinishUnread
  /\ UNCHANGED <<members, batch, fails, posting, request, observers>>

Accepted(r) == r.kind = "response" /\ r.code = 200

Return ==
  /\ posting /\ ~busy
  /\ posting' = FALSE
  /\ IF Accepted(result)
     THEN fails' = 0 /\ Settle("success") /\ UNCHANGED reason
     ELSE Fail(result.code)
  /\ request' = JsonNull
  /\ UNCHANGED <<members, handler>>

Worker == Drained \/ Post \/ PostThrows \/ HandlerExchange \/ HandlerFinish \/ Return

Next ==
  \/ \E c \in ContextValues : SetContext(c)
  \/ \E i \in IntegrationsValues : SetIntegrations(i)
  \/ \E c \in Calls : Gather(c)
  \/ Worker

Spec == Init /\ [][Next]_vars

\* The worker runs, and the handler returns or throws as Handler.tla has it.
FairSpec == Spec /\ WF_vars(Post \/ PostThrows \/ Return) /\ WF_vars(HandlerFinish)

=============================================================================
