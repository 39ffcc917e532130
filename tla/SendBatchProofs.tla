-------------------------- MODULE SendBatchProofs ----------------------------
(***************************************************************************)
(* Proofs, for every set of calls, whatever the application assigns to     *)
(* Context and Integrations, every MaxRetries and every set of status      *)
(* codes, of the safety properties of SendBatch.tla.                       *)
(***************************************************************************)
EXTENDS SendBatchProperties, Base64Proofs

-----------------------------------------------------------------------------
(* The inductive invariant.                                                *)

\* What the handler's result says of the server's answer, if it could read that.
ResultInv ==
  /\ busy => posting
  /\ busy => result.kind = "none"
  /\ result.kind = "none" => result.code = 0
  /\ result.kind = "response" /\ ~unread => result.code = answer
  /\ result.kind = "exception" /\ ~unread => result.code \in {0, answer} \ {200}
  /\ answer = 200 => taken

ToldInv ==
  \A c \in Calls :
    /\ told[c] = "queued" <=> c \in batch
    /\ told[c] = "unsent" => copies[c] = 0

\* Each failure in a row may have cost a copy, and so may the post under way.
CopiesInv ==
  /\ \A c \in batch : copies[c] <= fails + 1
  /\ ~(posting /\ taken) => \A c \in batch : copies[c] <= fails
  /\ posting /\ taken => \A c \in batch : copies[c] > 0

IInv ==
  /\ TypeOK /\ ResultInv /\ ToldInv /\ CopiesInv
  /\ CopiesBounded

-----------------------------------------------------------------------------
LEMMA InitIInv == Init => IInv
<1> SUFFICES ASSUME Init PROVE IInv
  OBVIOUS
<1>1. result \in H!Results
  BY SendAssumption DEF Init, H!Init, H!NoResult, H!Results
<1>2. /\ told \in [Calls -> {"unsent", "queued", "success", "failure"}]
      /\ copies \in [Calls -> Nat]
  BY DEF Init
<1>3. TypeOK
  <2>1. fails \in 0..MaxRetries
    BY SendAssumption, SMT DEF Init
  <2>. QED BY <1>1, <1>2, <2>1, SendAssumption DEF Init, H!Init, TypeOK, H!TypeOK
<1>4. ResultInv
  BY DEF Init, H!Init, H!NoResult, ResultInv
<1>5. ToldInv /\ CopiesInv
  BY DEF Init, ToldInv, CopiesInv
<1>6. CopiesBounded
  BY SendAssumption, SMT DEF Init, CopiesBounded
<1>. QED BY <1>3, <1>4, <1>5, <1>6 DEF IInv

LEMMA NextTypeOK ==
  ASSUME TypeOK, [Next]_vars
  PROVE  TypeOK'
<1> USE SendAssumption
<1>1. CASE (\E c \in ContextValues : SetContext(c)) \/
        (\E i \in IntegrationsValues : SetIntegrations(i))
  BY <1>1 DEF SetContext, SetIntegrations, TypeOK, H!TypeOK, handler, observers
<1>2. ASSUME NEW c \in Calls, Gather(c) PROVE TypeOK'
  BY <1>2 DEF Gather, TypeOK, H!TypeOK, handler
<1>3. CASE Drained
  BY <1>3, SMT DEF Drained, TypeOK, H!TypeOK, handler, observers
<1>4. CASE Post
  <2>1. /\ result' \in H!Results /\ answer' \in Codes \union {0}
        /\ busy' \in BOOLEAN /\ taken' \in BOOLEAN /\ unread' \in BOOLEAN
    BY <1>4 DEF Post, H!Call, H!NoResult, H!Results
  <2>. QED BY <1>4, <2>1 DEF Post, TypeOK, H!TypeOK, observers
<1>5. ASSUME NEW code \in Ints, Fail(code)
      PROVE  /\ batch' \subseteq Calls /\ fails' \in 0..MaxRetries /\ reason' \in Ints
             /\ told' \in [Calls -> {"unsent", "queued", "success", "failure"}]
             /\ copies' \in [Calls -> Nat]
  BY <1>5, SMT DEF Fail, RetriesLeft, GiveReason, Settle, TypeOK, observers
<1>6. CASE PostThrows
  BY <1>5, <1>6 DEF PostThrows, BuildFails, TypeOK, H!TypeOK, handler
<1>7. CASE HandlerExchange
  <2>1. copies' \in [Calls -> Nat]
    BY <1>7, SMT DEF HandlerExchange, TypeOK
  <2>. QED BY <1>7, <2>1 DEF HandlerExchange, H!Exchange, TypeOK, H!TypeOK
<1>8. CASE HandlerFinish
  <2>1. result' \in H!Results
    BY <1>8, SMT DEF HandlerFinish, H!Finish, H!FinishUnread, H!Response, H!Thrown, H!Results,
                     TypeOK, H!TypeOK
  <2>. QED BY <1>8, <2>1 DEF HandlerFinish, H!Finish, H!FinishUnread, TypeOK, H!TypeOK, observers
<1>9. CASE Return
  <2>1. result.code \in Ints
    BY DEF TypeOK, H!TypeOK, H!Results
  <2>2. CASE Accepted(result)
    <3>1. /\ batch' = {} /\ fails' = 0 /\ posting' = FALSE
          /\ UNCHANGED <<handler, reason, copies>>
          /\ told' = [c \in Calls |-> IF c \in batch THEN "success" ELSE told[c]]
      BY <1>9, <2>2 DEF Return, Settle
    <3>2. told' \in [Calls -> {"unsent", "queued", "success", "failure"}]
      BY <3>1 DEF TypeOK
    <3>3. fails' \in 0..MaxRetries
      BY <3>1, SMT
    <3>. QED BY <3>1, <3>2, <3>3 DEF handler, TypeOK, H!TypeOK
  <2>3. CASE ~Accepted(result)
    BY <1>9, <2>1, <2>3, <1>5 DEF Return, TypeOK, H!TypeOK, handler
  <2>. QED BY <2>2, <2>3
<1>10. CASE UNCHANGED vars
  BY <1>10 DEF vars, handler, observers, members, TypeOK, H!TypeOK
<1>. QED BY <1>1, <1>2, <1>3, <1>4, <1>6, <1>7, <1>8, <1>9, <1>10 DEF Next, Worker

(* The types, and that fails stays within MaxRetries.                      *)
THEOREM TypeCorrect == Spec => []TypeOK
BY InitIInv, NextTypeOK, PTL DEF Spec, IInv

-----------------------------------------------------------------------------
\* A batch that is settled or counted against fails keeps the bounds.
LEMMA FailIInv ==
  ASSUME IInv, NEW code \in Ints, Fail(code), TypeOK',
         UNCHANGED handler, posting' = FALSE, ~busy
  PROVE  IInv'
<1> USE DEF IInv
<1>1. ResultInv'
  BY DEF ResultInv, handler
<1>2. CASE RetriesLeft /\ fails' = fails + 1 /\ UNCHANGED <<batch, observers>>
  <2>1. ToldInv' /\ CopiesBounded'
    BY <1>2 DEF ToldInv, CopiesBounded, observers
  <2>2. CopiesInv'
    <3>1. \A c \in batch : copies[c] \in Nat /\ fails \in Nat /\ copies[c] <= fails + 1
      BY DEF CopiesInv, TypeOK
    <3>. QED BY <1>2, <3>1, SMT DEF CopiesInv, observers
  <2>. QED BY <1>1, <2>1, <2>2
<1>3. CASE UNCHANGED fails /\ GiveReason(code) /\ Settle("failure")
  <2>1. batch' = {} /\ copies' = copies
        /\ told' = [c \in Calls |-> IF c \in batch THEN "failure" ELSE told[c]]
    BY <1>3 DEF Settle
  <2>2. ToldInv'
    BY <2>1, SMT DEF ToldInv, TypeOK
  <2>3. CopiesInv' /\ CopiesBounded'
    BY <2>1 DEF CopiesInv, CopiesBounded
  <2>. QED BY <1>1, <2>2, <2>3
<1>. QED BY <1>2, <1>3 DEF Fail

LEMMA NextIInv ==
  ASSUME IInv, [Next]_vars
  PROVE  IInv'
<1> USE SendAssumption DEF IInv
<1>0. TypeOK'
  BY NextTypeOK
<1>1. CASE (\E c \in ContextValues : SetContext(c)) \/
        (\E i \in IntegrationsValues : SetIntegrations(i))
  BY <1>0, <1>1 DEF SetContext, SetIntegrations, handler, observers,
                    ResultInv, ToldInv, CopiesInv, CopiesBounded
<1>2. ASSUME NEW c \in Calls, Gather(c) PROVE IInv'
  <2>1. /\ ~posting /\ told[c] = "unsent" /\ batch' = batch \union {c}
        /\ told' = [told EXCEPT ![c] = "queued"]
        /\ UNCHANGED <<posting, handler, fails, copies>>
    BY <1>2 DEF Gather
  <2>2. ResultInv' /\ CopiesBounded'
    BY <2>1 DEF handler, ResultInv, CopiesBounded
  <2>3. ToldInv'
    BY <2>1 DEF ToldInv, TypeOK
  <2>4. copies[c] = 0 /\ fails \in Nat
    BY <2>1 DEF ToldInv, TypeOK
  <2>5. CopiesInv'
    BY <2>1, <2>4, SMT DEF handler, CopiesInv
  <2>. QED BY <1>0, <2>2, <2>3, <2>5
<1>3. CASE Drained
  BY <1>0, <1>3 DEF Drained, handler, observers,
                    ResultInv, ToldInv, CopiesInv, CopiesBounded
<1>4. CASE Post
  <2>1. /\ ~posting /\ posting' /\ busy' /\ answer' = 0 /\ taken' = FALSE /\ result' = H!NoResult
        /\ UNCHANGED <<batch, fails, told, copies>>
    BY <1>4 DEF Post, H!Call, observers
  <2>2. ResultInv'
    BY <2>1 DEF ResultInv, H!NoResult
  <2>3. ToldInv' /\ CopiesInv' /\ CopiesBounded'
    BY <2>1 DEF ToldInv, CopiesInv, CopiesBounded
  <2>. QED BY <1>0, <2>2, <2>3
<1>5. CASE PostThrows
  BY <1>0, <1>5, FailIInv DEF PostThrows, BuildFails, ResultInv, TypeOK
<1>6. CASE HandlerExchange
  <2>1. /\ busy /\ posting /\ UNCHANGED <<busy, posting, result, unread, batch, fails, told>>
        /\ (taken \/ answer' = 200) => taken'
        /\ result.kind = "none"
    BY <1>6 DEF HandlerExchange, H!Exchange, ResultInv, TypeOK, H!TypeOK
  <2>2. ResultInv' /\ CopiesBounded
    BY <2>1 DEF ResultInv
  <2>3. \A c \in Calls : copies'[c] =
          IF c \in batch /\ taken' /\ ~taken THEN copies[c] + 1 ELSE copies[c]
    BY <1>6 DEF HandlerExchange
  <2>4. ToldInv'
    BY <2>1, <2>3, SMT DEF ToldInv, TypeOK
  <2>5. \A c \in batch : c \in Calls /\ copies[c] \in Nat /\ fails \in Nat
    BY DEF TypeOK
  <2>6. CASE taken' = taken
    <3>1. \A c \in Calls : copies'[c] = copies[c]
      BY <2>3, <2>6
    <3>. QED BY <1>0, <2>1, <2>2, <2>4, <2>5, <2>6, <3>1 DEF CopiesInv, CopiesBounded
  <2>7. CASE taken' /\ ~taken
    <3>1. \A c \in batch : copies[c] <= fails /\ copies'[c] = copies[c] + 1
      BY <2>1, <2>3, <2>5, <2>7 DEF CopiesInv
    <3>2. CopiesInv'
      BY <2>1, <2>5, <2>7, <3>1, SMT DEF CopiesInv
    <3>3. CopiesBounded'
      BY <2>3, <2>5, <3>1, SMT DEF CopiesBounded, TypeOK
    <3>. QED BY <1>0, <2>2, <2>4, <3>2, <3>3
  <2>. QED BY <1>6, <2>1, <2>6, <2>7 DEF HandlerExchange, H!Exchange, TypeOK, H!TypeOK
<1>7. CASE HandlerFinish
  <2>1. UNCHANGED <<posting, answer, taken, batch, fails, told, copies>> /\ ~busy'
    BY <1>7 DEF HandlerFinish, H!Finish, H!FinishUnread, observers
  <2>2. /\ result'.kind \in {"response", "exception"}
        /\ \/ unread'
           \/ result' = [kind |-> "response", code |-> answer]
           \/ \E c \in {0, answer} \ {200} : result' = [kind |-> "exception", code |-> c]
    BY <1>7 DEF HandlerFinish, H!Finish, H!FinishUnread, H!Response, H!Thrown
  <2>3. ResultInv'
    BY <2>1, <2>2 DEF ResultInv
  <2>. QED BY <1>0, <2>1, <2>3 DEF ToldInv, CopiesInv, CopiesBounded
<1>8. CASE Return
  <2>1. posting /\ ~busy /\ posting' = FALSE /\ UNCHANGED handler
    BY <1>8 DEF Return
  <2>2. CASE Accepted(result)
    <3>1. /\ batch' = {} /\ copies' = copies
          /\ told' = [c \in Calls |-> IF c \in batch THEN "success" ELSE told[c]]
      BY <1>8, <2>2 DEF Return, Settle
    <3>2. ToldInv'
      BY <3>1, SMT DEF ToldInv, TypeOK
    <3>. QED BY <1>0, <2>1, <3>1, <3>2 DEF ResultInv, CopiesInv, CopiesBounded, handler
  <2>3. CASE ~Accepted(result)
    <3>1. result.code \in Ints
      BY DEF TypeOK, H!TypeOK, H!Results
    <3>. QED BY <1>0, <1>8, <2>1, <2>3, <3>1, FailIInv DEF Return
  <2>. QED BY <2>2, <2>3
<1>9. CASE UNCHANGED vars
  BY <1>0, <1>9 DEF vars, handler, observers, ResultInv, ToldInv, CopiesInv,
                    CopiesBounded
<1>. QED BY <1>1, <1>2, <1>3, <1>4, <1>5, <1>6, <1>7, <1>8, <1>9 DEF Next, Worker

LEMMA Inductive == Spec => []IInv
BY InitIInv, NextIInv, PTL DEF Spec

(* What is reported uploaded the server has taken: a handler's response    *)
(* is the answer if it could read it, 200 is answered for what was taken,  *)
(* and a post that was taken has left a copy of each event in the batch.   *)
THEOREM SuccessIsTaken == Spec => SuccessMeansTaken
<1>1. ASSUME IInv, [Next]_vars, NEW c \in Calls, told[c] # "success", told'[c] = "success"
      PROVE  copies[c] > 0 \/ (posting /\ unread)
  <2>1. ASSUME NEW code, Fail(code) PROVE FALSE
    BY <1>1, <2>1 DEF Fail, Settle, observers
  <2>2. CASE PostThrows
    BY <2>1, <2>2 DEF PostThrows, BuildFails
  <2>3. CASE Return
    <3>1. Accepted(result) /\ posting
      BY <2>1, <2>3 DEF Return
    <3>2. c \in batch
      BY <1>1, <2>3, <3>1 DEF Return, Settle
    <3>3. ~unread => taken
      BY <1>1, <3>1 DEF Accepted, IInv, ResultInv
    <3>. QED BY <1>1, <3>1, <3>2, <3>3 DEF IInv, CopiesInv
  <2>4. ASSUME NEW d \in Calls, Gather(d) PROVE FALSE
    BY <1>1, <2>4 DEF Gather, IInv, TypeOK
  <2>5. CASE ~(PostThrows \/ Return \/ \E d \in Calls : Gather(d))
    <3>1. told' = told
      BY <1>1, <2>5 DEF Next, Worker, SetContext, SetIntegrations, Drained, Post, HandlerExchange,
                        HandlerFinish, observers, vars
    <3>. QED BY <1>1, <3>1
  <2>. QED BY <2>2, <2>3, <2>4, <2>5
<1>2. IInv /\ [Next]_vars =>
        [\A c \in Calls : told[c] # "success" /\ told'[c] = "success" =>
           copies[c] > 0 \/ (posting /\ unread)]_vars
  BY <1>1
<1>. QED BY <1>2, Inductive, PTL DEF Spec, SuccessMeansTaken

(* The copies of an event are bounded by the failures in a row: fails      *)
(* never falls below what was posted with the events still in the batch.   *)
THEOREM CopiesAreBounded == Spec => []CopiesBounded
BY Inductive, PTL DEF IInv

-----------------------------------------------------------------------------
(* The HTTP code a Failure names is the answer to the last attempt, if the *)
(* handler could read that.                                                *)
THEOREM ReasonIsAnswer == Spec => ReasonIsTheAnswer
<1>1. ASSUME IInv, [Next]_vars, NEW c \in Calls, told[c] = "queued", told'[c] = "failure"
      PROVE  \/ reason' = 0
             \/ posting /\ (unread \/ (reason' = answer /\ reason' # 200))
  <2>1. ASSUME NEW code, Fail(code) PROVE reason' = code
    BY <1>1, <2>1 DEF Fail, GiveReason, observers
  <2>2. CASE PostThrows
    BY <2>1, <2>2 DEF PostThrows, BuildFails
  <2>3. CASE Return
    <3>1. posting /\ UNCHANGED handler
      BY <2>3 DEF Return
    <3>2. CASE Accepted(result)
      <4>1. told'[c] = "success" \/ told'[c] = told[c]
        BY <2>3, <3>2 DEF Return, Settle
      <4>. QED BY <1>1, <4>1
    <3>3. CASE ~Accepted(result)
      <4>1. reason' = result.code
        BY <2>1, <2>3, <3>3 DEF Return
      <4>2. result.kind \in {"none", "response", "exception"}
        BY <1>1 DEF IInv, TypeOK, H!TypeOK, H!Results
      <4>. QED BY <1>1, <3>1, <3>3, <4>1, <4>2 DEF IInv, ResultInv, Accepted
    <3>. QED BY <3>2, <3>3
  <2>4. ASSUME NEW d \in Calls, Gather(d) PROVE FALSE
    BY <1>1, <2>4 DEF Gather, IInv, TypeOK
  <2>5. CASE ~(PostThrows \/ Return \/ \E d \in Calls : Gather(d))
    <3>1. told' = told
      BY <1>1, <2>5 DEF Next, Worker, SetContext, SetIntegrations, Drained, Post, HandlerExchange,
                        HandlerFinish, observers, vars
    <3>. QED BY <1>1, <3>1
  <2>. QED BY <2>2, <2>3, <2>4, <2>5
<1>2. IInv /\ [Next]_vars =>
        [\A c \in Calls : told[c] = "queued" /\ told'[c] = "failure" =>
           \/ reason' = 0
           \/ posting /\ (unread \/ (reason' = answer /\ reason' # 200))]_vars
  BY <1>1
<1>. QED BY <1>2, Inductive, PTL DEF Spec, ReasonIsTheAnswer

-----------------------------------------------------------------------------
(* Context and what is made of it.                                         *)

\* Context is as assigned, or has got the library it lacked.
Kept(a, c) == c = a \/ (Indexable(a) /\ c = Indexed(a, "library"))

\* What sendBatch does to Context it does once.
LEMMA LibraryAdded ==
  ASSUME NEW a, NEW c, Kept(a, c), Indexable(c)
  PROVE  Kept(a, AfterLibrary(c))
<1>1. CASE c = a
  BY <1>1 DEF Kept, AfterLibrary
<1>2. CASE Indexable(a) /\ c = Indexed(a, "library")
  <2>1. "library" \in Members(c)
    BY <1>2 DEF Indexed, Put, Members, IsObject, JsonObject
  <2>2. AfterLibrary(c) = c
    BY <2>1 DEF AfterLibrary, Indexed
  <2>. QED BY <1>2, <2>2 DEF Kept
<1>. QED BY <1>1, <1>2 DEF Kept

(* However often it posts, and whatever Context was assigned, sendBatch    *)
(* changes nothing in it but that a missing library becomes null: one that *)
(* was assigned is there with its value at every later post.               *)
THEOREM ContextIsKept == Spec => []ContextKept
<1>1. Init => ContextKept
  BY DEF Init, ContextKept
<1>2. ContextKept /\ [Next]_vars => ContextKept'
  <2> SUFFICES ASSUME ContextKept, [Next]_vars PROVE ContextKept'
    OBVIOUS
  <2>1. CASE \E c \in ContextValues : SetContext(c)
    BY <2>1 DEF SetContext, ContextKept
  <2>2. CASE Post
    <3>1. context' = AfterLibrary(context) /\ assigned' = assigned /\ Indexable(context)
      BY <2>2 DEF Post, CanBuild, Build
    <3>. QED BY <3>1, LibraryAdded DEF ContextKept, Kept
  <2>3. CASE ~(Post \/ \E c \in ContextValues : SetContext(c))
    <3>1. UNCHANGED <<context, assigned>>
      BY <2>3 DEF Next, Worker, SetIntegrations, Gather, Drained, PostThrows, HandlerExchange,
                  HandlerFinish, Return, members, vars
    <3>. QED BY <3>1 DEF ContextKept
  <2>. QED BY <2>1, <2>2, <2>3
<1>. QED BY <1>1, <1>2, PTL DEF Spec

-----------------------------------------------------------------------------
(* Requests.                                                               *)

LEMMA BatchInBody == Body.members["batch"] = {EventOf(c) : c \in batch}
<1> DEFINE With(body, name, j) == IF IsObject(j) THEN Put(body, name, j) ELSE body
           events == Put(JsonNull, "batch", {EventOf(c) : c \in batch})
<1>1. ASSUME NEW body, "batch" \in Members(body), NEW name, name # "batch", NEW j
      PROVE  /\ "batch" \in Members(With(body, name, j))
             /\ With(body, name, j).members["batch"] = body.members["batch"]
  BY <1>1 DEF Put, Members, IsObject, JsonObject
<1>2. /\ "batch" \in Members(events)
      /\ events.members["batch"] = {EventOf(c) : c \in batch}
  BY DEF Put, Members, IsObject, JsonObject
<1> HIDE DEF With, events
<1>3. DEFINE f == With(events, "integrations", integrations)
<1>4. "batch" \in Members(f) /\ f.members["batch"] = {EventOf(c) : c \in batch}
  BY <1>1, <1>2
<1> HIDE DEF f
<1>5. With(f, "context", context).members["batch"] = {EventOf(c) : c \in batch}
  BY <1>1, <1>4
<1>. QED BY <1>5 DEF f, With, events, Body

-----------------------------------------------------------------------------
(* The retries.                                                            *)

LEMMA NextTries ==
  ASSUME IInv, [Next]_vars
  PROVE  [Tries!Next]_(Tries!vars)
<1> DEFINE F == [c \in Calls |-> Fate(c)]
<1>0. /\ fails \in Nat /\ fails <= MaxRetries /\ batch \subseteq Calls
      /\ told \in [Calls -> {"unsent", "queued", "success", "failure"}]
      /\ \A c \in Calls : told[c] = "queued" <=> c \in batch
  BY SendAssumption, SMT DEF IInv, TypeOK, ToldInv
<1>1. ASSUME UNCHANGED <<batch, fails, told>> PROVE UNCHANGED Tries!vars
  BY <1>1 DEF Tries!vars, Fate
<1>2. ASSUME NEW verdict \in {"success", "failure"}, Settle(verdict)
      PROVE  Tries!Decide(verdict)
  <2>1. \A c \in Calls : told'[c] = IF c \in batch THEN verdict ELSE told[c]
    BY <1>2 DEF Settle
  <2>2. \A c \in Calls : Fate(c)' = IF c \in batch THEN verdict ELSE Fate(c)
    BY <2>1 DEF Fate
  <2>. QED BY <1>2, <2>2 DEF Settle, Tries!Decide
<1>3. ASSUME NEW code, Fail(code) PROVE [Tries!Next]_(Tries!vars)
  <2>1. CASE RetriesLeft /\ fails' = fails + 1 /\ UNCHANGED <<batch, observers>>
    <3>1. F' = F
      BY <2>1 DEF observers, Fate
    <3>. QED BY <2>1, <3>1 DEF RetriesLeft, Tries!Retry, Tries!Next
  <2>2. CASE ~RetriesLeft /\ UNCHANGED fails /\ Settle("failure")
    <3>1. fails = MaxRetries
      BY <1>0, <2>2, SendAssumption, SMT DEF RetriesLeft
    <3>. QED BY <1>2, <2>2, <3>1 DEF Tries!GiveUp, Tries!Next
  <2>. QED BY <1>3, <2>1, <2>2 DEF Fail
<1>4. ASSUME NEW c \in Calls, Gather(c) PROVE Tries!Join(c)
  <2>1. told[c] = "unsent" /\ c \notin batch /\ Fate(c) = "open"
    BY <1>0, <1>4 DEF Gather, Fate
  <2>2. \A d \in Calls : Fate(d)' = Fate(d)
    BY <1>0, <1>4, <2>1 DEF Gather, Fate
  <2>. QED BY <1>4, <2>1, <2>2 DEF Gather, Tries!Join
<1>5. CASE Return
  <2>1. CASE Accepted(result)
    BY <1>2, <1>5, <2>1 DEF Return, Tries!Succeed, Tries!Next
  <2>2. CASE ~Accepted(result)
    BY <1>3, <1>5, <2>2 DEF Return
  <2>. QED BY <2>1, <2>2
<1>6. CASE PostThrows
  BY <1>3, <1>6 DEF PostThrows, BuildFails
<1>7. CASE Drained
  <2>1. F' = F
    BY <1>7 DEF Drained, observers, Fate
  <2>. QED BY <1>7, <2>1 DEF Drained, Tries!Drained, Tries!Next
<1>8. CASE ~(Return \/ PostThrows \/ Drained \/ \E c \in Calls : Gather(c))
  <2>1. UNCHANGED <<batch, fails, told>>
    BY <1>8 DEF Next, Worker, SetContext, SetIntegrations, Post, HandlerExchange, HandlerFinish,
                observers, vars
  <2>. QED BY <1>1, <2>1
<1>. QED BY <1>4, <1>5, <1>6, <1>7, <1>8 DEF Tries!Next

(* Requests that cannot be built, handlers that throw and answers other    *)
(* than 200 are counted, forgiven and given up on as BatchRetry.tla says.  *)
THEOREM RetriesImplemented == Spec => RetriesAsAgreed
<1>1. Init => Tries!Init
  BY DEF Init, Tries!Init, Fate
<1>2. IInv /\ [Next]_vars => [Tries!Next]_(Tries!vars)
  BY NextTries
<1>. QED BY <1>1, <1>2, Inductive, PTL DEF Spec, RetriesAsAgreed, Tries!Spec

-----------------------------------------------------------------------------
(* How long a batch takes.                                                 *)

\* More steps than this the worker does not take before the batch is settled.
StepsAhead ==
  IF batch = {} THEN 0
  ELSE 3 * (MaxRetries - fails) + (IF ~posting THEN 3 ELSE IF busy THEN 2 ELSE 1)

LEMMA NextAdvances ==
  ASSUME IInv, [Next]_vars, batch # {}
  PROVE  /\ StepsAhead' <= StepsAhead
         /\ Post \/ PostThrows \/ HandlerFinish \/ Return => StepsAhead' < StepsAhead
<1>0. /\ fails \in Nat /\ MaxRetries \in Nat /\ fails <= MaxRetries
      /\ posting \in BOOLEAN /\ busy \in BOOLEAN /\ (busy => posting)
  BY SendAssumption, SMT DEF IInv, TypeOK, H!TypeOK, ResultInv
<1>1. ASSUME NEW code, Fail(code), ~posting' PROVE StepsAhead' < StepsAhead
  <2>1. CASE RetriesLeft /\ fails' = fails + 1 /\ UNCHANGED <<batch, observers>>
    BY <1>0, <1>1, <2>1, SMT DEF RetriesLeft, StepsAhead
  <2>2. CASE Settle("failure")
    BY <1>0, <2>2, SMT DEF Settle, StepsAhead
  <2>. QED BY <1>1, <2>1, <2>2 DEF Fail
<1>2. ASSUME Post PROVE StepsAhead' < StepsAhead
  BY <1>0, <1>2, SMT DEF Post, H!Call, StepsAhead
<1>3. ASSUME PostThrows PROVE StepsAhead' < StepsAhead
  BY <1>0, <1>1, <1>3 DEF PostThrows, BuildFails
<1>4. ASSUME HandlerFinish PROVE StepsAhead' < StepsAhead
  BY <1>0, <1>4, SMT DEF HandlerFinish, H!Finish, H!FinishUnread, StepsAhead
<1>5. ASSUME Return PROVE StepsAhead' < StepsAhead
  <2>1. CASE Accepted(result)
    BY <1>0, <1>5, <2>1, SMT DEF Return, Settle, StepsAhead
  <2>2. CASE ~Accepted(result)
    BY <1>1, <1>5, <2>2 DEF Return
  <2>. QED BY <2>1, <2>2
<1>6. ASSUME NEW c \in Calls, Gather(c) PROVE StepsAhead' = StepsAhead
  <2>1. batch' # {} /\ UNCHANGED <<fails, posting, busy>>
    BY <1>6 DEF Gather, handler
  <2>. QED BY <2>1 DEF StepsAhead
<1>7. ASSUME ~(Post \/ PostThrows \/ HandlerFinish \/ Return \/ \E c \in Calls : Gather(c))
      PROVE  StepsAhead' = StepsAhead
  <2>1. UNCHANGED <<batch, fails, posting, busy>>
    BY <1>7 DEF Next, Worker, SetContext, SetIntegrations, Drained, HandlerExchange, H!Exchange,
                vars, handler
  <2>. QED BY <2>1 DEF StepsAhead
<1>8. StepsAhead \in Int /\ StepsAhead' \in Int
  <2>1. StepsAhead \in Int
    BY <1>0, SMT DEF StepsAhead
  <2>2. fails' \in Int
    BY NextTypeOK, SMT DEF IInv, TypeOK
  <2>. QED BY <1>0, <2>1, <2>2, SMT DEF StepsAhead
<1>. QED BY <1>2, <1>3, <1>4, <1>5, <1>6, <1>7, <1>8, SMT

(* A batch is settled after at most 3 (MaxRetries + 1) posts, ends of a    *)
(* handler and returns of sendBatch, whether its request can be built or   *)
(* not: each brings it nearer, and nothing else takes it back, neither     *)
(* events that join it while it is retried nor the server.  That these     *)
(* steps are taken is all BatchSettles has to assume.                      *)
THEOREM BatchIsBounded ==
  Spec => /\ [](StepsAhead \in 0..(3 * (MaxRetries + 1)) /\ (StepsAhead = 0 <=> batch = {}))
          /\ [][batch # {} =>
                  /\ StepsAhead' <= StepsAhead
                  /\ Post \/ PostThrows \/ HandlerFinish \/ Return => StepsAhead' < StepsAhead]_vars
<1>1. IInv => StepsAhead \in 0..(3 * (MaxRetries + 1)) /\ (StepsAhead = 0 <=> batch = {})
  <2>1. ASSUME IInv PROVE fails \in Nat /\ MaxRetries \in Nat /\ fails <= MaxRetries
    BY <2>1, SendAssumption, SMT DEF IInv, TypeOK
  <2>. QED BY <2>1, SMT DEF StepsAhead
<1>2. IInv /\ [Next]_vars =>
        [batch # {} =>
           /\ StepsAhead' <= StepsAhead
           /\ Post \/ PostThrows \/ HandlerFinish \/ Return => StepsAhead' < StepsAhead]_vars
  BY NextAdvances
<1>. QED BY <1>1, <1>2, Inductive, PTL DEF Spec

-----------------------------------------------------------------------------
(* Events.                                                                 *)

LEMMA FieldsCreated ==
  ASSUME NEW type
  PROVE  /\ IsObject(createEvent(type)) /\ Members(createEvent(type)) = {"timestamp", "type"}
         /\ Fields(createEvent(type)) = {<<"timestamp", Now>>, <<"type", JsonString(type)>>}
<1> DEFINE ev == createEvent(type)
<1>1. /\ IsObject(ev) /\ Members(ev) = {"timestamp", "type"}
      /\ ev.members["timestamp"] = Now /\ ev.members["type"] = JsonString(type)
  BY DEF createEvent, Put, IsObject, Members, JsonObject, JsonNull
<1> HIDE DEF ev
<1>2. Fields(ev) = {<<"timestamp", Now>>, <<"type", JsonString(type)>>}
  BY <1>1 DEF Fields
<1>. QED BY <1>1, <1>2 DEF ev

\* A value put under a name that is not there is one field more.
LEMMA FieldsPut ==
  ASSUME NEW ev, IsObject(ev), NEW name, name \notin Members(ev), NEW val
  PROVE  /\ IsObject(Put(ev, name, val)) /\ Members(Put(ev, name, val)) = Members(ev) \union {name}
         /\ Fields(Put(ev, name, val)) = Fields(ev) \union {<<name, val>>}
<1> DEFINE r == Put(ev, name, val)
<1>1. /\ IsObject(r) /\ Members(r) = Members(ev) \union {name}
      /\ r.members[name] = val
      /\ \A n \in Members(ev) : r.members[n] = ev.members[n]
  BY DEF Put, IsObject, Members, JsonObject
<1> HIDE DEF r
<1>2. Fields(r) = Fields(ev) \union {<<name, val>>}
  BY <1>1 DEF Fields
<1>. QED BY <1>1, <1>2 DEF r

LEMMA FieldsErase ==
  ASSUME NEW ev, IsObject(ev), NEW name, name \notin Members(ev)
  PROVE  /\ IsObject(Erase(ev, name)) /\ Members(Erase(ev, name)) = Members(ev)
         /\ Fields(Erase(ev, name)) = Fields(ev)
<1> DEFINE r == Erase(ev, name)
<1>1. /\ IsObject(r) /\ Members(r) = Members(ev)
      /\ \A n \in Members(ev) : r.members[n] = ev.members[n]
  BY DEF Erase, IsObject, Members, JsonObject
<1> HIDE DEF r
<1>2. Fields(r) = Fields(ev)
  BY <1>1 DEF Fields
<1>. QED BY <1>1, <1>2 DEF r

\* r is ev with what the argument of the parameter name says.
Adds(r, ev, name, arg) ==
  /\ IsObject(r) /\ Members(ev) \subseteq Members(r) /\
       Members(r) \subseteq Members(ev) \union {name}
  /\ Fields(r) = Fields(ev) \union Said(name, arg)

LEMMA AddsString ==
  ASSUME NEW ev, IsObject(ev), NEW name, name \notin ObjectParams, name \notin Members(ev), NEW arg
  PROVE  Adds(addEventString(ev, name, arg), ev, name, arg)
<1>1. CASE arg # ""
  <2>1. /\ addEventString(ev, name, arg) = Put(ev, name, JsonString(arg))
        /\ Said(name, arg) = {<<name, JsonString(arg)>>}
    BY <1>1 DEF addEventString, Said
  <2> DEFINE val == JsonString(arg)
  <2> HIDE DEF val
  <2>2. Adds(Put(ev, name, val), ev, name, arg)
    BY <2>1, FieldsPut DEF Adds, val
  <2>. QED BY <2>1, <2>2 DEF val
<1>2. CASE arg = ""
  BY <1>2, FieldsErase DEF Adds, addEventString, Said
<1>. QED BY <1>1, <1>2

LEMMA AddsObject ==
  ASSUME NEW ev, IsObject(ev), NEW name, name \in ObjectParams, name \notin Members(ev), NEW arg
  PROVE  Adds(addEventObject(ev, name, arg), ev, name, arg)
BY FieldsPut, FieldsErase DEF Adds, addEventObject, Said

LEMMA NothingSaid ==
  /\ Said("anonymousId", "") = {} /\ Said("userId", "") = {}
  /\ Said("context", JsonNull) = {} /\ Said("integrations", JsonNull) = {}
BY DEF Said, ObjectParams, IsObject, JsonNull

\* The fields that createEvent gives every event.
Stamped(type) == {<<"timestamp", Now>>, <<"type", JsonString(type)>>}

LEMMA TwoAdded ==
  ASSUME NEW type, NEW name, name \notin ObjectParams, name \notin {"timestamp", "type"}, NEW x,
         NEW object, object \in ObjectParams, NEW z,
         NEW r, r = addEventObject(addEventString(createEvent(type), name, x), object, z)
  PROVE  /\ IsObject(r) /\ Members(r) \subseteq {"timestamp", "type", name, object}
         /\ Fields(r) = Stamped(type) \union Said(name, x) \union Said(object, z)
<1> DEFINE e0 == createEvent(type)
           e1 == addEventString(e0, name, x)
<1>0. IsObject(e0) /\ Members(e0) = {"timestamp", "type"} /\ Fields(e0) = Stamped(type)
  BY FieldsCreated DEF Stamped
<1>1. Adds(e1, e0, name, x)
  BY <1>0, AddsString
<1>2. r = addEventObject(e1, object, z)
  OBVIOUS
<1> HIDE DEF e0, e1
<1>3. object \notin Members(e1)
  BY <1>0, <1>1 DEF Adds, ObjectParams
<1>4. Adds(r, e1, object, z)
  BY <1>1, <1>2, <1>3, AddsObject DEF Adds
<1>. QED BY <1>0, <1>1, <1>4 DEF Adds

LEMMA ThreeAdded ==
  ASSUME NEW type, NEW first, first \notin ObjectParams \union
      {"timestamp", "type", "userId"}, NEW x,
         NEW y, NEW object, object \in ObjectParams, NEW z, NEW r,
         r = addEventObject(addEventString(addEventString(createEvent(type), first, x), "userId", y),
                            object, z)
  PROVE  /\ IsObject(r) /\ Members(r) \subseteq {"timestamp", "type", first, "userId", object}
         /\ Fields(r) = Stamped(type) \union Said(first, x) \union Said("userId", y)
                                     \union Said(object, z)
<1> DEFINE e0 == createEvent(type)
           e1 == addEventString(e0, first, x)
           e2 == addEventString(e1, "userId", y)
<1>0. IsObject(e0) /\ Members(e0) = {"timestamp", "type"} /\ Fields(e0) = Stamped(type)
  BY FieldsCreated DEF Stamped
<1>1. Adds(e1, e0, first, x)
  BY <1>0, AddsString
<1>2. r = addEventObject(e2, object, z)
  OBVIOUS
<1> HIDE DEF e0, e1
<1>3. "userId" \notin Members(e1) /\ "userId" \notin ObjectParams
  BY <1>0, <1>1 DEF Adds, ObjectParams
<1>4. Adds(e2, e1, "userId", y)
  BY <1>1, <1>3, AddsString DEF Adds
<1> HIDE DEF e2
<1>5. object \notin Members(e2)
  BY <1>0, <1>1, <1>4 DEF Adds, ObjectParams
<1>6. Adds(r, e2, object, z)
  BY <1>2, <1>4, <1>5, AddsObject DEF Adds
<1>. QED BY <1>0, <1>1, <1>4, <1>6 DEF Adds

LEMMA AliasAdded ==
  ASSUME NEW x, NEW y, NEW r, r = CreateAliasEvent(x, y)
  PROVE  /\ IsObject(r) /\ Members(r) \subseteq {"timestamp", "type", "previousId", "userId"}
         /\ Fields(r) = Stamped("alias") \union Said("previousId", x) \union Said("userId", y)
<1> DEFINE e0 == createEvent("alias")
           e1 == addEventString(e0, "previousId", x)
<1>0. IsObject(e0) /\ Members(e0) = {"timestamp", "type"} /\ Fields(e0) = Stamped("alias")
  BY FieldsCreated DEF Stamped
<1>1. Adds(e1, e0, "previousId", x)
  BY <1>0, AddsString DEF ObjectParams
<1>2. r = addEventString(e1, "userId", y)
  BY DEF CreateAliasEvent
<1> HIDE DEF e0, e1
<1>3. "userId" \notin Members(e1) /\ "userId" \notin ObjectParams
  BY <1>0, <1>1 DEF Adds, ObjectParams
<1>4. Adds(r, e1, "userId", y)
  BY <1>1, <1>2, <1>3, AddsString DEF Adds
<1>. QED BY <1>0, <1>1, <1>4 DEF Adds

LEMMA CommonAdded ==
  ASSUME NEW ev, IsObject(ev), Members(ev) \intersect {"anonymousId", "context", "integrations"} = {},
         NEW x, NEW y, NEW z, NEW r, r = WithCommon(ev, x, y, z)
  PROVE  /\ IsObject(r)
         /\ Fields(r) = Fields(ev) \union Said("anonymousId", x) \union Said("context", y)
                                  \union Said("integrations", z)
<1> DEFINE e1 == addEventString(ev, "anonymousId", x)
           e2 == addEventObject(e1, "context", y)
<1>1. Adds(e1, ev, "anonymousId", x)
  BY AddsString DEF ObjectParams
<1>2. r = addEventObject(e2, "integrations", z)
  BY DEF WithCommon
<1> HIDE DEF e1
<1>3. "context" \notin Members(e1) /\ "context" \in ObjectParams
  BY <1>1 DEF Adds, ObjectParams
<1>4. Adds(e2, e1, "context", y)
  BY <1>1, <1>3, AddsObject DEF Adds
<1> HIDE DEF e2
<1>5. "integrations" \notin Members(e2) /\ "integrations" \in ObjectParams
  BY <1>1, <1>4 DEF Adds, ObjectParams
<1>6. Adds(r, e2, "integrations", z)
  BY <1>2, <1>4, <1>5, AddsObject DEF Adds
<1>. QED BY <1>1, <1>4, <1>6 DEF Adds

LEMMA FieldsOfTrack ==
  ASSUME NEW call, call.fn = "Track", NEW a, a = Completed(call.fn, call.args)
  PROVE  /\ IsObject(EventOf(call))
         /\ Fields(EventOf(call)) =
              Stamped("track") \union Said("event", a[3]) \union Said("userId", a[1]) \union
                  Said("properties", a[4])
                \union Said("anonymousId", a[2]) \union Said("context", a[5])
                \union Said("integrations", a[6])
<1> DEFINE ev == CreateTrackEvent(a[3], a[1], a[4])
<1>1. /\ IsObject(ev) /\ Members(ev) \intersect {"anonymousId", "context", "integrations"} = {}
      /\ Fields(ev) = Stamped("track") \union Said("event", a[3]) \union
           Said("userId", a[1]) \union Said("properties", a[4])
  <2>1. "event" \notin ObjectParams \union {"timestamp", "type", "userId"} /\
          "properties" \in ObjectParams
    BY DEF ObjectParams
  <2>2. /\ IsObject(ev) /\ Members(ev) \subseteq {"timestamp", "type", "event", "userId", "properties"}
        /\ Fields(ev) = Stamped("track") \union Said("event", a[3]) \union
             Said("userId", a[1]) \union Said("properties", a[4])
    BY <2>1, ThreeAdded DEF CreateTrackEvent
  <2> HIDE DEF ev
  <2>. QED BY <2>2
<1>2. EventOf(call) = WithCommon(ev, a[2], a[5], a[6])
  BY DEF EventOf
<1> HIDE DEF ev
<1>. QED BY <1>1, <1>2, CommonAdded

LEMMA FieldsOfIdentify ==
  ASSUME NEW call, call.fn = "Identify", NEW a, a = Completed(call.fn, call.args)
  PROVE  /\ IsObject(EventOf(call))
         /\ Fields(EventOf(call)) =
              Stamped("identify") \union Said("userId", a[1]) \union Said("traits", a[3])
                \union Said("anonymousId", a[2]) \union Said("context", a[4])
                \union Said("integrations", a[5])
<1> DEFINE ev == CreateIdentifyEvent(a[1], a[3])
<1>1. /\ IsObject(ev) /\ Members(ev) \intersect {"anonymousId", "context", "integrations"} = {}
      /\ Fields(ev) = Stamped("identify") \union Said("userId", a[1]) \union Said("traits", a[3])
  <2>1. "userId" \notin ObjectParams /\ "userId" \notin {"timestamp", "type"} /\
          "traits" \in ObjectParams
    BY DEF ObjectParams
  <2>2. /\ IsObject(ev) /\ Members(ev) \subseteq {"timestamp", "type", "userId", "traits"}
        /\ Fields(ev) = Stamped("identify") \union Said("userId", a[1]) \union Said("traits", a[3])
    BY <2>1, TwoAdded DEF CreateIdentifyEvent
  <2> HIDE DEF ev
  <2>. QED BY <2>2
<1>2. EventOf(call) = WithCommon(ev, a[2], a[4], a[5])
  BY DEF EventOf
<1> HIDE DEF ev
<1>. QED BY <1>1, <1>2, CommonAdded

LEMMA FieldsOfPage ==
  ASSUME NEW call, call.fn = "Page", NEW a, a = Completed(call.fn, call.args)
  PROVE  /\ IsObject(EventOf(call))
         /\ Fields(EventOf(call)) =
              Stamped("page") \union Said("name", a[1]) \union Said("userId", a[2]) \union
                  Said("properties", a[4])
                \union Said("anonymousId", a[3]) \union Said("context", a[5])
                \union Said("integrations", a[6])
<1> DEFINE ev == CreateViewEvent("page", a[1], a[2], a[4])
<1>1. /\ IsObject(ev) /\ Members(ev) \intersect {"anonymousId", "context", "integrations"} = {}
      /\ Fields(ev) = Stamped("page") \union Said("name", a[1]) \union Said("userId", a[2]) \union
           Said("properties", a[4])
  <2>1. "name" \notin ObjectParams \union {"timestamp", "type", "userId"} /\
          "properties" \in ObjectParams
    BY DEF ObjectParams
  <2>2. /\ IsObject(ev) /\ Members(ev) \subseteq {"timestamp", "type", "name", "userId", "properties"}
        /\ Fields(ev) = Stamped("page") \union Said("name", a[1]) \union
             Said("userId", a[2]) \union Said("properties", a[4])
    BY <2>1, ThreeAdded DEF CreateViewEvent
  <2> HIDE DEF ev
  <2>. QED BY <2>2
<1>2. EventOf(call) = WithCommon(ev, a[3], a[5], a[6])
  BY DEF EventOf
<1> HIDE DEF ev
<1>. QED BY <1>1, <1>2, CommonAdded

LEMMA FieldsOfScreen ==
  ASSUME NEW call, call.fn = "Screen", NEW a, a = Completed(call.fn, call.args)
  PROVE  /\ IsObject(EventOf(call))
         /\ Fields(EventOf(call)) =
              Stamped("screen") \union Said("name", a[1]) \union Said("userId", a[2]) \union
                  Said("properties", a[4])
                \union Said("anonymousId", a[3]) \union Said("context", a[5])
                \union Said("integrations", a[6])
<1> DEFINE ev == CreateViewEvent("screen", a[1], a[2], a[4])
<1>1. /\ IsObject(ev) /\ Members(ev) \intersect {"anonymousId", "context", "integrations"} = {}
      /\ Fields(ev) = Stamped("screen") \union Said("name", a[1]) \union
           Said("userId", a[2]) \union Said("properties", a[4])
  <2>1. "name" \notin ObjectParams \union {"timestamp", "type", "userId"} /\
          "properties" \in ObjectParams
    BY DEF ObjectParams
  <2>2. /\ IsObject(ev) /\ Members(ev) \subseteq {"timestamp", "type", "name", "userId", "properties"}
        /\ Fields(ev) = Stamped("screen") \union Said("name", a[1]) \union
             Said("userId", a[2]) \union Said("properties", a[4])
    BY <2>1, ThreeAdded DEF CreateViewEvent
  <2> HIDE DEF ev
  <2>. QED BY <2>2
<1>2. EventOf(call) = WithCommon(ev, a[3], a[5], a[6])
  BY DEF EventOf
<1> HIDE DEF ev
<1>. QED BY <1>1, <1>2, CommonAdded

LEMMA FieldsOfAlias ==
  ASSUME NEW call, call.fn = "Alias", NEW a, a = Completed(call.fn, call.args)
  PROVE  /\ IsObject(EventOf(call))
         /\ Fields(EventOf(call)) =
              Stamped("alias") \union Said("previousId", a[1]) \union Said("userId", a[2])
                \union Said("anonymousId", a[3]) \union Said("context", a[4])
                \union Said("integrations", a[5])
<1> DEFINE ev == CreateAliasEvent(a[1], a[2])
<1>1. /\ IsObject(ev) /\ Members(ev) \intersect {"anonymousId", "context", "integrations"} = {}
      /\ Fields(ev) = Stamped("alias") \union Said("previousId", a[1]) \union Said("userId", a[2])
  BY AliasAdded
<1>2. EventOf(call) = WithCommon(ev, a[3], a[4], a[5])
  BY DEF EventOf
<1> HIDE DEF ev
<1>. QED BY <1>1, <1>2, CommonAdded

LEMMA FieldsOfGroup ==
  ASSUME NEW call, call.fn = "Group", NEW a, a = Completed(call.fn, call.args)
  PROVE  /\ IsObject(EventOf(call))
         /\ Fields(EventOf(call)) =
              Stamped("group") \union Said("groupId", a[1]) \union Said("traits", a[4])
                \union Said("anonymousId", a[3]) \union Said("context", a[5])
                \union Said("integrations", a[6])
<1> DEFINE ev == CreateGroupEvent(a[1], a[4])
<1>1. /\ IsObject(ev) /\ Members(ev) \intersect {"anonymousId", "context", "integrations"} = {}
      /\ Fields(ev) = Stamped("group") \union Said("groupId", a[1]) \union Said("traits", a[4])
  <2>1. "groupId" \notin ObjectParams /\ "groupId" \notin {"timestamp", "type"} /\
          "traits" \in ObjectParams
    BY DEF ObjectParams
  <2>2. /\ IsObject(ev) /\ Members(ev) \subseteq {"timestamp", "type", "groupId", "traits"}
        /\ Fields(ev) = Stamped("group") \union Said("groupId", a[1]) \union Said("traits", a[4])
    BY <2>1, TwoAdded DEF CreateGroupEvent
  <2> HIDE DEF ev
  <2>. QED BY <2>2
<1>2. EventOf(call) = WithCommon(ev, a[3], a[5], a[6])
  BY DEF EventOf
<1> HIDE DEF ev
<1>. QED BY <1>1, <1>2, CommonAdded

\* The fields a call promises, argument by argument.
LEMMA PromisedBy ==
  ASSUME NEW call, NEW p, p = Params(call)
  PROVE  Promised(call) = Stamped(TypeNames[call.fn])
                            \union UNION {Said(p[i], call.args[i]) : i \in DOMAIN p}
BY DEF Promised, Stamped

\* What every call but Group's with a userId makes of its arguments.
SaysExactly(ev, call) == IsObject(ev) /\ Fields(ev) = Promised(call)

LEMMA Said2 ==
  ASSUME NEW p, DOMAIN p = 1..2, NEW a
  PROVE  UNION {Said(p[i], a[i]) : i \in DOMAIN p} =
           Said(p[1], a[1]) \union Said(p[2], a[2])
<1>1. DOMAIN p = {1, 2}
  OBVIOUS
<1>. QED BY <1>1, Zenon

LEMMA Said3 ==
  ASSUME NEW p, DOMAIN p = 1..3, NEW a
  PROVE  UNION {Said(p[i], a[i]) : i \in DOMAIN p} =
           Said(p[1], a[1]) \union Said(p[2], a[2]) \union Said(p[3], a[3])
<1>1. DOMAIN p = {1, 2, 3}
  OBVIOUS
<1>. QED BY <1>1, Zenon

LEMMA Said5 ==
  ASSUME NEW p, DOMAIN p = 1..5, NEW a
  PROVE  UNION {Said(p[i], a[i]) : i \in DOMAIN p} =
           Said(p[1], a[1]) \union Said(p[2], a[2]) \union Said(p[3], a[3]) \union
               Said(p[4], a[4]) \union Said(p[5], a[5])
<1>1. DOMAIN p = {1, 2, 3, 4, 5}
  OBVIOUS
<1>. QED BY <1>1, Zenon

LEMMA Said6 ==
  ASSUME NEW p, DOMAIN p = 1..6, NEW a
  PROVE  UNION {Said(p[i], a[i]) : i \in DOMAIN p} =
           Said(p[1], a[1]) \union Said(p[2], a[2]) \union Said(p[3], a[3]) \union
               Said(p[4], a[4]) \union Said(p[5], a[5]) \union Said(p[6], a[6])
<1>1. DOMAIN p = {1, 2, 3, 4, 5, 6}
  OBVIOUS
<1>. QED BY <1>1, Zenon

LEMMA TrackSays ==
  ASSUME NEW call, call.fn = "Track", IsCall(call)
  PROVE  SaysExactly(EventOf(call), call)
<1> DEFINE c == call.args
           p == Params(call)
           a == Completed(call.fn, call.args)
<1>0. Len(c) \in {3, 6} /\ TypeNames[call.fn] = "track"
  BY DEF IsCall, ShortParams, LongParams, TypeNames
<1>1. CASE Len(c) = 3
  <2>1. /\ DOMAIN p = 1..3
        /\ p[1] = "userId" /\ p[2] = "event" /\ p[3] = "properties"
    BY <1>1 DEF Params, ShortParams
  <2>2. a = <<c[1], "", c[2], c[3], JsonNull, JsonNull>>
    BY <1>1 DEF Completed
  <2> HIDE DEF p, a, c
  <2>3. Promised(call) =
             Stamped("track") \union Said("userId", c[1]) \union Said("event", c[2]) \union
             Said("properties", c[3])
    BY <1>0, <2>1, PromisedBy, Said3 DEF p, c
  <2>4. a[1] = c[1] /\ a[2] = "" /\ a[3] = c[2] /\ a[4] = c[3] /\ a[5] = JsonNull /\ a[6] = JsonNull
    BY <2>2
  <2>5. SaysExactly(EventOf(call), call) <=>
          IsObject(EventOf(call)) /\ Fields(EventOf(call)) = Promised(call)
    BY DEF SaysExactly
  <2>. QED BY <2>3, <2>4, <2>5, FieldsOfTrack, NothingSaid DEF a
<1>2. CASE Len(c) = 6
  <2>1. /\ DOMAIN p = 1..6
        /\ p[1] = "userId" /\ p[2] = "anonymousId" /\ p[3] = "event" /\ p[4] = "properties" /\
             p[5] = "context" /\ p[6] = "integrations"
    BY <1>2 DEF Params, ShortParams, LongParams
  <2>2. a = c
    BY <1>2 DEF Completed
  <2> HIDE DEF p, a, c
  <2>3. Promised(call) =
             Stamped("track") \union Said("userId", c[1]) \union Said("anonymousId", c[2]) \union
             Said("event", c[3]) \union Said("properties", c[4]) \union Said("context", c[5]) \union
             Said("integrations", c[6])
    BY <1>0, <2>1, PromisedBy, Said6 DEF p, c
  <2>. QED BY <2>2, <2>3, FieldsOfTrack DEF SaysExactly, a
<1>. QED BY <1>0, <1>1, <1>2

LEMMA IdentifySays ==
  ASSUME NEW call, call.fn = "Identify", IsCall(call)
  PROVE  SaysExactly(EventOf(call), call)
<1> DEFINE c == call.args
           p == Params(call)
           a == Completed(call.fn, call.args)
<1>0. Len(c) \in {2, 5} /\ TypeNames[call.fn] = "identify"
  BY DEF IsCall, ShortParams, LongParams, TypeNames
<1>1. CASE Len(c) = 2
  <2>1. /\ DOMAIN p = 1..2
        /\ p[1] = "userId" /\ p[2] = "traits"
    BY <1>1 DEF Params, ShortParams
  <2>2. a = <<c[1], "", c[2], JsonNull, JsonNull>>
    BY <1>1 DEF Completed
  <2> HIDE DEF p, a, c
  <2>3. Promised(call) =
             Stamped("identify") \union Said("userId", c[1]) \union Said("traits", c[2])
    BY <1>0, <2>1, PromisedBy, Said2 DEF p, c
  <2>4. a[1] = c[1] /\ a[2] = "" /\ a[3] = c[2] /\ a[4] = JsonNull /\ a[5] = JsonNull
    BY <2>2
  <2>5. SaysExactly(EventOf(call), call) <=>
          IsObject(EventOf(call)) /\ Fields(EventOf(call)) = Promised(call)
    BY DEF SaysExactly
  <2>. QED BY <2>3, <2>4, <2>5, FieldsOfIdentify, NothingSaid DEF a
<1>2. CASE Len(c) = 5
  <2>1. /\ DOMAIN p = 1..5
        /\ p[1] = "userId" /\ p[2] = "anonymousId" /\ p[3] = "traits" /\ p[4] = "context" /\
             p[5] = "integrations"
    BY <1>2 DEF Params, ShortParams, LongParams
  <2>2. a = c
    BY <1>2 DEF Completed
  <2> HIDE DEF p, a, c
  <2>3. Promised(call) =
             Stamped("identify") \union Said("userId", c[1]) \union Said("anonymousId", c[2]) \union
             Said("traits", c[3]) \union Said("context", c[4]) \union Said("integrations", c[5])
    BY <1>0, <2>1, PromisedBy, Said5 DEF p, c
  <2>. QED BY <2>2, <2>3, FieldsOfIdentify DEF SaysExactly, a
<1>. QED BY <1>0, <1>1, <1>2

LEMMA PageSays ==
  ASSUME NEW call, call.fn = "Page", IsCall(call)
  PROVE  SaysExactly(EventOf(call), call)
<1> DEFINE c == call.args
           p == Params(call)
           a == Completed(call.fn, call.args)
<1>0. Len(c) \in {3, 6} /\ TypeNames[call.fn] = "page"
  BY DEF IsCall, ShortParams, LongParams, TypeNames
<1>1. CASE Len(c) = 3
  <2>1. /\ DOMAIN p = 1..3
        /\ p[1] = "name" /\ p[2] = "userId" /\ p[3] = "properties"
    BY <1>1 DEF Params, ShortParams
  <2>2. a = <<c[1], c[2], "", c[3], JsonNull, JsonNull>>
    BY <1>1 DEF Completed
  <2> HIDE DEF p, a, c
  <2>3. Promised(call) =
             Stamped("page") \union Said("name", c[1]) \union Said("userId", c[2]) \union
             Said("properties", c[3])
    BY <1>0, <2>1, PromisedBy, Said3 DEF p, c
  <2>4. a[1] = c[1] /\ a[2] = c[2] /\ a[3] = "" /\ a[4] = c[3] /\ a[5] = JsonNull /\ a[6] = JsonNull
    BY <2>2
  <2>5. SaysExactly(EventOf(call), call) <=>
          IsObject(EventOf(call)) /\ Fields(EventOf(call)) = Promised(call)
    BY DEF SaysExactly
  <2>. QED BY <2>3, <2>4, <2>5, FieldsOfPage, NothingSaid DEF a
<1>2. CASE Len(c) = 6
  <2>1. /\ DOMAIN p = 1..6
        /\ p[1] = "name" /\ p[2] = "userId" /\ p[3] = "anonymousId" /\ p[4] = "properties" /\
             p[5] = "context" /\ p[6] = "integrations"
    BY <1>2 DEF Params, ShortParams, LongParams
  <2>2. a = c
    BY <1>2 DEF Completed
  <2> HIDE DEF p, a, c
  <2>3. Promised(call) =
             Stamped("page") \union Said("name", c[1]) \union Said("userId", c[2]) \union
             Said("anonymousId", c[3]) \union Said("properties", c[4]) \union
                 Said("context", c[5]) \union
             Said("integrations", c[6])
    BY <1>0, <2>1, PromisedBy, Said6 DEF p, c
  <2>. QED BY <2>2, <2>3, FieldsOfPage DEF SaysExactly, a
<1>. QED BY <1>0, <1>1, <1>2

LEMMA ScreenSays ==
  ASSUME NEW call, call.fn = "Screen", IsCall(call)
  PROVE  SaysExactly(EventOf(call), call)
<1> DEFINE c == call.args
           p == Params(call)
           a == Completed(call.fn, call.args)
<1>0. Len(c) \in {3, 6} /\ TypeNames[call.fn] = "screen"
  BY DEF IsCall, ShortParams, LongParams, TypeNames
<1>1. CASE Len(c) = 3
  <2>1. /\ DOMAIN p = 1..3
        /\ p[1] = "name" /\ p[2] = "userId" /\ p[3] = "properties"
    BY <1>1 DEF Params, ShortParams
  <2>2. a = <<c[1], c[2], "", c[3], JsonNull, JsonNull>>
    BY <1>1 DEF Completed
  <2> HIDE DEF p, a, c
  <2>3. Promised(call) =
             Stamped("screen") \union Said("name", c[1]) \union Said("userId", c[2]) \union
             Said("properties", c[3])
    BY <1>0, <2>1, PromisedBy, Said3 DEF p, c
  <2>4. a[1] = c[1] /\ a[2] = c[2] /\ a[3] = "" /\ a[4] = c[3] /\ a[5] = JsonNull /\ a[6] = JsonNull
    BY <2>2
  <2>5. SaysExactly(EventOf(call), call) <=>
          IsObject(EventOf(call)) /\ Fields(EventOf(call)) = Promised(call)
    BY DEF SaysExactly
  <2>. QED BY <2>3, <2>4, <2>5, FieldsOfScreen, NothingSaid DEF a
<1>2. CASE Len(c) = 6
  <2>1. /\ DOMAIN p = 1..6
        /\ p[1] = "name" /\ p[2] = "userId" /\ p[3] = "anonymousId" /\ p[4] = "properties" /\
             p[5] = "context" /\ p[6] = "integrations"
    BY <1>2 DEF Params, ShortParams, LongParams
  <2>2. a = c
    BY <1>2 DEF Completed
  <2> HIDE DEF p, a, c
  <2>3. Promised(call) =
             Stamped("screen") \union Said("name", c[1]) \union Said("userId", c[2]) \union
             Said("anonymousId", c[3]) \union Said("properties", c[4]) \union
                 Said("context", c[5]) \union
             Said("integrations", c[6])
    BY <1>0, <2>1, PromisedBy, Said6 DEF p, c
  <2>. QED BY <2>2, <2>3, FieldsOfScreen DEF SaysExactly, a
<1>. QED BY <1>0, <1>1, <1>2

LEMMA AliasSays ==
  ASSUME NEW call, call.fn = "Alias", IsCall(call)
  PROVE  SaysExactly(EventOf(call), call)
<1> DEFINE c == call.args
           p == Params(call)
           a == Completed(call.fn, call.args)
<1>0. Len(c) \in {2, 5} /\ TypeNames[call.fn] = "alias"
  BY DEF IsCall, ShortParams, LongParams, TypeNames
<1>1. CASE Len(c) = 2
  <2>1. /\ DOMAIN p = 1..2
        /\ p[1] = "previousId" /\ p[2] = "userId"
    BY <1>1 DEF Params, ShortParams
  <2>2. a = <<c[1], c[2], "", JsonNull, JsonNull>>
    BY <1>1 DEF Completed
  <2> HIDE DEF p, a, c
  <2>3. Promised(call) =
             Stamped("alias") \union Said("previousId", c[1]) \union Said("userId", c[2])
    BY <1>0, <2>1, PromisedBy, Said2 DEF p, c
  <2>4. a[1] = c[1] /\ a[2] = c[2] /\ a[3] = "" /\ a[4] = JsonNull /\ a[5] = JsonNull
    BY <2>2
  <2>5. SaysExactly(EventOf(call), call) <=>
          IsObject(EventOf(call)) /\ Fields(EventOf(call)) = Promised(call)
    BY DEF SaysExactly
  <2>. QED BY <2>3, <2>4, <2>5, FieldsOfAlias, NothingSaid DEF a
<1>2. CASE Len(c) = 5
  <2>1. /\ DOMAIN p = 1..5
        /\ p[1] = "previousId" /\ p[2] = "userId" /\ p[3] = "anonymousId" /\ p[4] = "context" /\
             p[5] = "integrations"
    BY <1>2 DEF Params, ShortParams, LongParams
  <2>2. a = c
    BY <1>2 DEF Completed
  <2> HIDE DEF p, a, c
  <2>3. Promised(call) =
             Stamped("alias") \union Said("previousId", c[1]) \union Said("userId", c[2]) \union
             Said("anonymousId", c[3]) \union Said("context", c[4]) \union Said("integrations", c[5])
    BY <1>0, <2>1, PromisedBy, Said5 DEF p, c
  <2>. QED BY <2>2, <2>3, FieldsOfAlias DEF SaysExactly, a
<1>. QED BY <1>0, <1>1, <1>2

LEMMA GroupSays ==
  ASSUME NEW call, call.fn = "Group", IsCall(call)
  PROVE  Says(EventOf(call), call)
<1> DEFINE c == call.args
           p == Params(call)
           a == Completed(call.fn, call.args)
<1>0. Len(c) \in {2, 6} /\ TypeNames[call.fn] = "group"
  BY DEF IsCall, ShortParams, LongParams, TypeNames
<1>1. CASE Len(c) = 2
  <2>1. /\ DOMAIN p = 1..2
        /\ p[1] = "groupId" /\ p[2] = "traits"
    BY <1>1 DEF Params, ShortParams
  <2>2. a = <<c[1], "", "", c[2], JsonNull, JsonNull>>
    BY <1>1 DEF Completed
  <2> HIDE DEF p, a, c
  <2>3. Promised(call) =
             Stamped("group") \union Said("groupId", c[1]) \union Said("traits", c[2])
    BY <1>0, <2>1, PromisedBy, Said2 DEF p, c
  <2>4. a[1] = c[1] /\ a[2] = "" /\ a[3] = "" /\ a[4] = c[2] /\ a[5] = JsonNull /\ a[6] = JsonNull
    BY <2>2
  <2>5. SaysExactly(EventOf(call), call)
    BY <2>3, <2>4, FieldsOfGroup, NothingSaid DEF a, SaysExactly
  <2>. QED BY <2>5 DEF SaysExactly, Says
<1>2. CASE Len(c) = 6
  <2>1. /\ DOMAIN p = 1..6
        /\ p[1] = "groupId" /\ p[2] = "userId" /\ p[3] = "anonymousId" /\ p[4] = "traits" /\
             p[5] = "context" /\ p[6] = "integrations"
    BY <1>2 DEF Params, ShortParams, LongParams
  <2>2. a = c
    BY <1>2 DEF Completed
  <2> HIDE DEF p, a, c
  <2>3. Promised(call) =
             Stamped("group") \union Said("groupId", c[1]) \union Said("userId", c[2]) \union
             Said("anonymousId", c[3]) \union Said("traits", c[4]) \union Said("context", c[5])
             \union Said("integrations", c[6])
    BY <1>0, <2>1, PromisedBy, Said6 DEF p, c
  <2>4. /\ IsObject(EventOf(call))
        /\ Promised(call) = Fields(EventOf(call)) \union Said("userId", c[2])
    BY <2>2, <2>3, FieldsOfGroup DEF a
  <2>5. ~GroupOfUser(call) => Said("userId", c[2]) = {}
    <3>1. ~GroupOfUser(call) => c[2] = ""
      <4>1. 2 \in DOMAIN Params(call) /\ Params(call)[2] = "userId"
        BY <2>1 DEF p
      <4>. QED BY <1>0, <4>1 DEF GroupOfUser, c
    <3>. QED BY <3>1, NothingSaid
  <2>. QED BY <2>4, <2>5 DEF Says
<1>. QED BY <1>0, <1>1, <1>2

LEMMA CallSays ==
  ASSUME NEW call, IsCall(call)
  PROVE  Says(EventOf(call), call)
BY TrackSays, IdentifySays, PageSays, ScreenSays, AliasSays, GroupSays
DEF SaysExactly, Says, IsCall, ApiFunctions

LEMMA CallsAreCalls == \A call \in ApiCalls : IsCall(call)
<1>1. ASSUME NEW fn \in ApiFunctions, NEW p, p \in {ShortParams[fn], LongParams[fn]},
             NEW given, NEW no, NEW call, call = CallOf(fn, p, given, no)
      PROVE  IsCall(call)
  <2>1. call.fn = fn /\ DOMAIN call.args = DOMAIN p
    BY <1>1 DEF CallOf
  <2>2. DOMAIN p = 1..Len(p) /\ Len(p) \in Nat
    BY <1>1 DEF ApiFunctions, ShortParams, LongParams
  <2>3. call.args = [i \in 1..Len(p) |-> call.args[i]]
    BY <1>1, <2>1, <2>2 DEF CallOf
  <2>4. Len(call.args) = Len(p)
    BY <2>2, <2>3
  <2>. QED BY <1>1, <2>1, <2>4 DEF IsCall
<1>2. ASSUME NEW fn \in ApiFunctions, NEW p, p \in {ShortParams[fn], LongParams[fn]},
             NEW call \in CallsOf(fn, p)
      PROVE  IsCall(call)
  BY <1>1, <1>2 DEF CallsOf
<1>. QED BY <1>2 DEF ApiCalls

\* What the handler holds is what was built of the batch.
RequestInv ==
  busy => /\ posting
          /\ request.body.members["batch"] = {EventOf(c) : c \in batch}
          /\ request.authorization = Authorization

LEMMA InductiveRequest == Spec => []RequestInv
<1>1. Init => RequestInv
  BY DEF Init, H!Init, RequestInv
<1>2. RequestInv /\ [Next]_vars => RequestInv'
  <2> SUFFICES ASSUME RequestInv, [Next]_vars PROVE RequestInv'
    OBVIOUS
  <2>1. CASE Post
    <3>1. posting' /\ batch' = batch /\ request'.body = Body /\
            request'.authorization = Authorization
      BY <2>1 DEF Post, Build
    <3>2. request'.body.members["batch"] = {EventOf(c) : c \in batch'}
      BY <3>1, BatchInBody
    <3>. QED BY <3>1, <3>2 DEF RequestInv, Authorization
  <2>2. CASE Return \/ HandlerFinish
    BY <2>2 DEF Return, HandlerFinish, handler, H!Finish, H!FinishUnread, RequestInv
  <2>3. CASE HandlerExchange \/ UNCHANGED vars
    <3>1. UNCHANGED <<busy, posting, request, batch>>
      BY <2>3 DEF HandlerExchange, H!Exchange, handler, vars
    <3>. QED BY <3>1 DEF RequestInv, Authorization
  <2>4. CASE ~(Post \/ Return \/ HandlerFinish \/ HandlerExchange \/ UNCHANGED vars)
    <3>1. UNCHANGED <<busy, posting, request>>
      BY <2>4 DEF Next, Worker, SetContext, SetIntegrations, Gather, Drained, PostThrows, handler
    <3>2. busy => batch' = batch
      BY <2>4 DEF Next, Worker, SetContext, SetIntegrations, Gather, Drained, PostThrows,
                  RequestInv
    <3>. QED BY <3>1, <3>2 DEF RequestInv, Authorization
  <2>. QED BY <2>1, <2>2, <2>3, <2>4
<1>. QED BY <1>1, <1>2, PTL DEF Spec

(* Every call of the twelve overloads, of whatever arguments, makes an     *)
(* event of exactly the fields its parameters promise, and every request   *)
(* carries it for each call in the batch; but of a Group call with a       *)
(* userId it is only proved that its event says nothing it was not given:  *)
(* it does not say all.                                                    *)
THEOREM FieldsAreArguments == Spec => []EventFields
<1>1. WrongEvents = {}
  BY CallSays, CallsAreCalls DEF WrongEvents
<1>2. TypeOK /\ RequestInv => EventFields
  BY <1>1, CallSays, CallsAssumption DEF TypeOK, RequestInv, EventFields
<1>. QED BY <1>2, TypeCorrect, InductiveRequest, PTL

(* The credentials of every request decode to the write key and a colon,   *)
(* for write keys of every length.                                         *)
THEOREM CredentialsDecode == Spec => []AuthorizationDecodes
<1>1. ASSUME NEW key \in Seq(Byte)
      PROVE  Decoded(base64_encode(Append(key, 58))) = Append(key, 58)
  <2>1. Append(key, 58) \in Seq(Byte)
    BY DEF Byte
  <2>. QED BY <2>1, EncodedDecodes
<1>2. WrongKeys = {}
  BY <1>1, CallsAssumption DEF WrongKeys
<1>3. RequestInv => AuthorizationDecodes
  BY <1>1, <1>2, SendAssumption DEF RequestInv, AuthorizationDecodes, Authorization
<1>. QED BY <1>3, InductiveRequest, PTL

=============================================================================
