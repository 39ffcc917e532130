------------------------- MODULE SendBatchProperties -------------------------
(***************************************************************************)
(* What must hold of events, requests and their results (SendBatch.tla).   *)
(***************************************************************************)
EXTENDS SendBatch, SequencesExt

CONSTANT Keys   \* write keys to encode, as sequences of bytes

-----------------------------------------------------------------------------
(* The overloads that analytics.hpp declares, by the names of their parameters. *)

ShortParams ==
  [Track    |-> <<"userId", "event", "properties">>,
   Identify |-> <<"userId", "traits">>,
   Page     |-> <<"name", "userId", "properties">>,
   Screen   |-> <<"name", "userId", "properties">>,
   Alias    |-> <<"previousId", "userId">>,
   Group    |-> <<"groupId", "traits">>]

LongParams ==
  [Track    |-> <<"userId", "anonymousId", "event", "properties", "context", "integrations">>,
   Identify |-> <<"userId", "anonymousId", "traits", "context", "integrations">>,
   Page     |-> <<"name", "userId", "anonymousId", "properties", "context", "integrations">>,
   Screen   |-> <<"name", "userId", "anonymousId", "properties", "context", "integrations">>,
   Alias    |-> <<"previousId", "userId", "anonymousId", "context", "integrations">>,
   Group    |-> <<"groupId", "userId", "anonymousId", "traits", "context", "integrations">>]

TypeNames ==
  [Track |-> "track", Identify |-> "identify", Page |-> "page", Screen |-> "screen",
   Alias |-> "alias", Group |-> "group"]

ApiFunctions == {"Track", "Identify", "Page", "Screen", "Alias", "Group"}

IsCall(call) ==
  call.fn \in ApiFunctions /\ Len(call.args) \in {Len(ShortParams[call.fn]), Len(LongParams[call.fn])}

ASSUME CallsAssumption ==
  /\ \A c \in Calls : c.fn = "PostEvent" \/ IsCall(c)
  /\ Keys \subseteq Seq(Byte)

ObjectParams == {"properties", "traits", "context", "integrations"}

-----------------------------------------------------------------------------
(* What an event is to say: its fields, as pairs of a name and a value.    *)

Fields(j) == {<<n, j.members[n]>> : n \in Members(j)}

\* An argument is a field of the name of its parameter, if it says something.
Said(name, arg) ==
  IF name \in ObjectParams
  THEN IF IsObject(arg) THEN {<<name, arg>>} ELSE {}
  ELSE IF arg # "" THEN {<<name, JsonString(arg)>>} ELSE {}

Params(call) ==
  IF Len(call.args) = Len(ShortParams[call.fn]) THEN ShortParams[call.fn] ELSE LongParams[call.fn]

\* Every argument, under the name the header gives its parameter.
Promised(call) ==
  {<<"timestamp", Now>>, <<"type", JsonString(TypeNames[call.fn])>>}
    \union UNION {Said(Params(call)[i], call.args[i]) : i \in DOMAIN Params(call)}

\* A call of Group with a userId, see SentAsDocumented.
GroupOfUser(call) ==
  call.fn = "Group" /\ \E i \in DOMAIN Params(call) : Params(call)[i] = "userId" /\ call.args[i] # ""

\* The event says what it was given and nothing else.
Says(ev, call) ==
  /\ IsObject(ev) /\ Fields(ev) \subseteq Promised(call)
  /\ ~GroupOfUser(call) => Fields(ev) = Promised(call)

\* A call with a value of its own for each parameter in given; "" or no object for the others.
CallOf(fn, params, given, noObject) ==
  [fn |-> fn,
   args |-> [i \in DOMAIN params |->
     LET name == params[i]
     IN  IF name \in ObjectParams
         THEN IF name \in given THEN JsonObject(name :> JsonNull) ELSE noObject
         ELSE IF name \in given THEN name ELSE ""]]

\* Each overload with each choice of what it is given.
CallsOf(fn, params) ==
  {CallOf(fn, params, given, no) : given \in SUBSET ToSet(params), no \in {JsonNull, JsonOther}}

ApiCalls == UNION {CallsOf(fn, ShortParams[fn]) \union CallsOf(fn, LongParams[fn]) : fn \in ApiFunctions}

-----------------------------------------------------------------------------

\* Of the calls and keys that can be made, not only those of a run; evaluated once.
WrongEvents == {call \in ApiCalls : ~Says(EventOf(call), call)}
WrongKeys   == {key \in Keys : Decoded(base64_encode(Append(key, 58))) # Append(key, 58)}

(* A request carries the event of each call in the batch, with its type    *)
(* and every argument that is not empty in the field of its name; so would *)
(* it for any call of the twelve overloads, though they hand up to six     *)
(* arguments of two types on by position.  Calls of Group with a userId    *)
(* are left out: only that their event says nothing else is claimed here,  *)
(* and SentAsDocumented shows what it does not say.                        *)
EventFields ==
  /\ WrongEvents = {}
  /\ busy => \A c \in batch : c.fn # "PostEvent" =>
       \E ev \in request.body.members["batch"] : Says(ev, c)

(* The credentials of a request decode to the write key and a colon, and   *)
(* would for a key of any length, although the accumulator overflows on    *)
(* all but the shortest.                                                   *)
AuthorizationDecodes ==
  /\ WrongKeys = {}
  /\ busy => Decoded(request.authorization) = Append(WriteKey, 58)

(* An event is reported uploaded only if the server has taken it: whatever *)
(* the handler threw, lost or relayed, in this attempt or an earlier one,  *)
(* but for a handler that could not read the status of this very attempt   *)
(* and did not notice, as libcurl's may.                                   *)
SuccessMeansTaken ==
  [][\A c \in Calls : told[c] # "success" /\ told'[c] = "success" =>
       copies[c] > 0 \/ (posting /\ unread)]_vars

(* The server takes an event at most once and once for each retry, though  *)
(* a post whose answer is lost or unclear is repeated as it is.            *)
CopiesBounded == \A c \in Calls : copies[c] <= MaxRetries + 1

(* A failure that names an HTTP code names the server's answer to the last *)
(* attempt, and not that of an earlier one or of another batch, unless the *)
(* handler could not read that answer.                                     *)
ReasonIsTheAnswer ==
  [][\A c \in Calls : told[c] = "queued" /\ told'[c] = "failure" =>
       \/ reason' = 0
       \/ posting /\ (unread \/ (reason' = answer /\ reason' # 200))]_vars

\* What is decided of an event.
Fate(c) == IF told[c] \in {"success", "failure"} THEN told[c] ELSE "open"

Tries == INSTANCE BatchRetry WITH Events <- Calls, fate <- [c \in Calls |-> Fate(c)]

(* Failures are counted, forgiven and given up on as in BatchRetry.tla,    *)
(* which Analytics.tla implements too, whether a request cannot be built,  *)
(* the handler throws or the server says anything but 200.                 *)
RetriesAsAgreed == Tries!Spec

(* Posting leaves Context as the application assigned it, but for a null   *)
(* `library` if that was missing: one that was there stays, and so does a  *)
(* Context that is no object, whatever the retries between.                *)
ContextKept ==
  context = assigned \/ (Indexable(assigned) /\ context = Indexed(assigned, "library"))

(* Each batch is settled, also one that cannot be built into a request.    *)
BatchSettles == batch # {} ~> batch = {}

(* A request that carries every event does it as documented.  Events are   *)
(* objects (analytics.hpp:30-36).  Each says all that its call was given   *)
(* (the parameters that analytics.hpp declares, Group's userId at 247-253  *)
(* among them).  Each has the time of the attempt (analytics.cpp:453-455). *)
SentAsDocumented ==
  busy /\ batch = Calls =>
    LET events == request.body.members["batch"]
    IN  /\ \A ev \in events : IsObject(ev) /\ "sentAt" \in Members(ev)
        /\ \A c \in batch : c.fn # "PostEvent" =>
             \E ev \in events : Promised(c) \subseteq Fields(ev)

=============================================================================
