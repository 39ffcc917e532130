# Verification of the Segment analytics client for C++

`src/analytics.cpp` queues analytics events from any thread and uploads them from one
background thread, in batches, with retries, callbacks and a blocking shutdown, through
libcurl, WinINet or a stub. This directory holds TLA+ models of all of it, TLC configurations
that check them on small instances, and proofs, checked by TLAPS, that hold for every number
of threads and events, every value of the limits and every HTTP handler that keeps its
contract.

## Inventory

| Component | State | Operations | Interacts with | What is hard, what makes it correct |
|---|---|---|---|---|
| Event queue: `queueEvent`, `Flush`, `FlushWait`, `Scrub`, `~Analytics` (analytics.cpp:237-275, 493-504) | `events`, `needFlush`, `shutdown`, `wakeTime`, `lock`, `flushCv`, `emptyCv` | one critical section per call; `FlushWait` loops on `emptyCv`; the destructor joins the worker | application threads, callbacks, worker | notifications are not remembered; no event lost, doubled or overtaken; `FlushWait` and the destructor return |
| Worker: `processQueue` (506-641) | `batch`, locals `fails`, `ok`, `notifyq`, `now`; `retryTime` | gather, decide, post, retry or give up, report, wait | queue (shared state), `sendBatch` (call), callback object (call without the lock) | the lock is released in waits and during callbacks; deadlines go stale; limits of a batch that grows between retries |
| Upload: `sendBatch` (447-491), `base64_encode` (427-445), `initContext` (170-188) | `Context`, `Integrations`, `writeKey`, `host` | builds one request from the batch, calls `Handler->Handle`, throws unless 200 | worker, transport | attributes set on copies; `Context` changed by reading it |
| Event construction: `createEvent`, `addEvent*`, `Create*Event`, `Track` ... `Group` (72-168, 277-415) | none | one JSON object per call, then `queueEvent` | application, queue | which argument ends in which field |
| Constructors (190-235) | all members | start the worker in the middle of the assignments | worker | the worker reads `shutdown`, and writes `wakeTime`, while they are being assigned |
| Transports: `http-curl.cpp`, `http-wininet.cpp`, `http-none.hpp`; interface `http.hpp` | handles of one request | `Handle(Request)`: a response or an exception | worker | failures half way; which failures count as answers, and which go unnoticed; handles left open |
| Public members: limits, `Handler`, `Callback`, `Context`, `Integrations` | themselves | plain assignment by the application | worker reads them | no synchronisation |
| Vendored `json.hpp`, `date.hpp`; tests, example, mock server, build files | | | | not part of the program's own logic |

Calls go down, and results and exceptions come back: application, queue, worker, `sendBatch`,
transport. The application shares the object with the worker. Everything in the first two rows is
guarded by `lock`; the worker holds it from `sleep_for` to the end of `sendBatch`, and
gives it up in `flushCv.wait`, in `flushCv.wait_until` and while callbacks run.

## Modules

| Module | Content |
|---|---|
| `EventDelivery` | Abstract specification: a line of pending events. Accept one at the end, settle the first (success or failure), withdraw some from the end. No threads, lock, batch or clock. |
| `BatchRetry` | Abstract specification of the retries: a batch that grows, one count of failures, one verdict for all of the batch. |
| `Analytics` | The event queue and the worker, one action per critical section or per step of `processQueue`. |
| `AnalyticsProperties` | Invariants, action properties, liveness, the refinements of `EventDelivery` and `BatchRetry`, and what the comments claim. |
| `Startup` | The constructor's assignments, one by one, beside the worker they started too early; extends `Analytics`. |
| `Handler` | What `sendBatch` may count on of any `http::Handler`: one exchange, then a response or an exception that claims no other answer than the server's, unless the transport could not read that. |
| `Http`, `HttpCurl`, `HttpWinInet` | What the transports share; one action per call of libcurl or WinINet, with the lists and handles each opens. |
| `Transports` | Call after call through the transport compiled in; that it implements `Handler`, and its other properties. |
| `JsonValues`, `Events`, `Base64` | JSON values as far as they decide anything, the events the API functions make, `base64_encode`. |
| `SendBatch` | Batch after batch through `sendBatch` and any `Handler`, with the retries around it. |
| `SendBatchProperties` | Its invariants, action and liveness properties, the refinement of `BatchRetry`; events and base64 against reference definitions. |
| `MCAnalytics`, `MCStartup`, `MCTransports`, `MCSendBatch` | Values of the constants for TLC. |
| `QueueLemmas` | What append, pop and cut do to a queue's elements. |
| `EventDeliveryProofs` | What follows from the abstract specification alone. |
| `AnalyticsProofs` | Types, control state, refinement, and what the refinement gives. |
| `AnalyticsLimitsProofs` | Deadline, number of posts, retries, batch limits, no empty post. |
| `StartupProofs` | What the worker uses before the object is built, and that the start is a run of `Analytics`. |
| `TransportsProofs` | Types, the contract, what is given back and what is not, how long `Handle` can take. |
| `Base64Proofs` | That decoding undoes `base64_encode`, for all bytes. |
| `SendBatchProofs` | Types, what the server has taken against what is reported, `Context`, retries, how long a batch can take, what events and credentials say. |

The pieces fit together at two seams. `Transports` implements `Handler`, and `SendBatch` uses
nothing of a transport but `Handler`'s steps. `SendBatch` and `Analytics` are two views of one
worker: `Analytics` has the threads, the lock, the deadlines and the order of events, and takes
from `sendBatch` only whether it threw (`PostOk` against `PostRetry` and `PostGiveUp`);
`SendBatch` has what is in a batch, what is sent and what comes back, and takes from the queue
only that some event joins the batch. What both have is processQueue's count of failures:
`BatchRetry` states it once, without either's detail, and both implement it. A joint model of the
two would have the product of their states and say no more.

### How `Analytics` corresponds to the code

Variables have the members' names, with these changes. `wakeIn` and `retryIn` are
`wakeTime` and `retryTime` as the time left until them: the code only compares time points
with the present, so the model has no absolute clock. `Never` is `time_point::max()`.
`sinceNow` is how old the local `now` is, because `retryTime` is computed from the reading
taken *before* the post. `wpc` says where the worker is; `waitIn` is the deadline its
present wait was given, which differs from `wakeIn` as soon as someone changes that. `fw`
says for each caller of `FlushWait` whether it is about to look at `events` or waits on
`emptyCv`; `closing` is how far the destructor has come. `flushTime` is written and read in
one critical section and needs no variable. `outcome`, `dueIn` and `attempts` observe what
happens to events; no guard reads `dueIn` or `attempts`.

The lock is not a variable. An application call is one action, enabled when `LockFree`,
that is unless the worker is in a step that holds the lock. The worker's steps under the
lock are separate actions, because time passes between them (the sleep, the post) and
`FlushWait` may be called, though not enter, during them. Waking from a condition variable
goes through `ready`, where the lock must be had again. Both condition variables may wake
spuriously. `notify_one` on `flushCv` is exact, as only the worker waits there.

A post is a choice between success, and failure with or without retries left. The
callback runs outside the lock and may call back (`CallbackOps`); it returns or throws,
which the code treats alike. With no callback set the same steps happen with no one told.
`SizeOf` is what an event adds to the serialised batch; what encloses the events is counted
off `FlushSize`. An event is queued at most once, so that it can be followed; two equal events
are two elements of `Events`.

`Startup` adds `assigned`, how many members the constructor has assigned since it started
the thread. Only three of the members matter before that: `shutdown` may hold anything
(`UnsetShutdown`), `needFlush` too, and `wakeTime`, a class with a constructor, starts at the
epoch. The worker's actions are those of `Analytics`; application calls wait until the
constructor is done, as the application has no object before. That the application hands it
to other threads properly is taken for granted.

### How the transports correspond to the code

`step` is how far `Handle` has come: the next library call. `held` are its local pointers
and `live` what each object of the library's pool is in use for, so that a pointer can be Null, the
call's own object, or, in WinINet's `Handle` before the assignment, whatever the stack held
(`WinStart` chooses any). `answer` is the status the server sent and `taken` whether it
accepted the request; they are set by the one step that transfers, in every combination but a
200 for something not taken. libcurl's own result does not appear in `CurlVerdict` because the
code ignores it unless memory ran out. When libcurl cannot tell the status and memory has not
run out, `getinfo` (http-curl.cpp:127-132) goes on and the code decides by a `code` that nobody
assigned (86): `CurlStatusUnread` returns or throws any int (`Ints`) and sets `unread`, which
otherwise only observes. `Handler` allows for it (`FinishUnread`), and so every property of
results says whether it holds then. `CurlLeave` is the destructor of `curlReq`, which runs on
every way out; `WinFails` is the `fail` label, with its `if (internet = NULL)`.

### How `SendBatch` corresponds to the code

`context` and `integrations` are the members; `batch` is the set of calls whose events are in the
batch (order is `Analytics`' matter); `fails` and `reason` are processQueue's locals. `Post` is
`sendBatch` up to the call of the handler, `PostThrows` the same when something in it throws,
`Return` the rest together with processQueue's `try` and `catch`. What throws is `operator[]` on a
value that is neither object nor null (`Indexable`): on an event, on `Context`, on its `library`.
`Indexed` is what `operator[]` leaves behind in a value that is not const, which is how reading
`Context["library"]` changes `Context`. `told`, `copies` and `assigned` observe; no guard but
`Gather`'s, which queues each event once, reads them. The application assigns `Context` and
`Integrations` between batches only; doing it earlier is a data race.

In `Events` a call is a function's name and its arguments in order, and the overloads hand them
on by position as the code does; a string is itself, since only whether it is empty matters.
`Base64` works on numbers: bytes, digits and an accumulator of `IntValues` values (2^32 in the code,
any multiple of 2^16 in the model). The loop over the bytes is a recursive function.

## Runs

Every run ends with the complete state space, except those that expect a violation.

`safety` begins in the constructor, with the worker already running and any value in `needFlush`
(but false in `shutdown`), and interleaves the nine assignments with it. Then: two threads,
three events, `FlushCount` 2, `FlushSize` 4 with sizes 1, 1 and 3, `FlushInterval` 2,
`RetryInterval` 1, `MaxRetries` 1; about 740,000 states. Two of the events fill a batch by
count, the third does not fit with either, so every way out of the gather loop is taken and a
batch can grow between attempts. Two threads let one be in `FlushWait` while the other scrubs,
flushes, queues or destroys; the worker's callbacks are a third caller and may call everything
but the destructor, `FlushWait` included. Intervals of 2 and 1 make every order of the two
deadlines happen. Threads are interchangeable and declared symmetric. Deadlock is checked: only
the state after the destructor (`Destroyed`, a step to itself) has nothing more to do.

* `OnePlace`, `OutcomeFinal`, `DeliversInOrder`: no event lost, doubled, reported twice or
  overtaken; the three queues together implement `EventDelivery`.
* `NoOversleep`, `NoLostFlush`, `NoMissedSignal`: the worker's waits end in time.
* `NothingLeftBehind`: after the destructor every event has an outcome.
* `AttemptsBounded`, `BatchWithinLimits`, `NoEmptyPost`: the limits.
* `RetriesAsAgreed`: the worker implements `BatchRetry`. An event counts as decided when its batch
  is handed over, though it is reported later, so this also says that the callback is told what was
  decided then, whatever happens in between.
* `CallbackFlushEnds`: a callback that waits in `FlushWait` holds up the worker, and only a
  `Scrub` by another thread frees it. It has not been missed as long as it waits. That it waits
  for ever without a `Scrub` is how the code is; the liveness run leaves `FlushWait` out of
  callbacks.
* `QuietWhenSettled`: while nothing is pending the worker reads none of the public members, so
  assigning them is no race then.
* `OnlyWaitsUntilBuilt`: no member is used before it is assigned but `shutdown` and `wakeTime`.
  `StartsClean`: with the members taken at the values they are going to be assigned, the whole
  is a run of `Analytics`.

`transports`: all three transports, two headers, a pool of four objects of which any may belong to
others, codes 200, 204, 404 and 503; about 100,000 states. Four objects are enough for
WinINet's three handles with one lost session before them, and few enough that the pool runs out.
Two headers tell the first (which starts libcurl's list) from the next. `Ints` are these codes, 0
and -1, which is no status. Nothing is assumed of the time a library call takes; deadlock is
checked, so `Handle` always has a step to take or has ended, also when the pool is empty.

* `KeepsContract`: each transport implements `Handler`: what it tells of is the server's answer,
  or `unread`. `OkMeansTaken`: 200 is returned for what was not taken by libcurl with an unread
  status and in no other way.
* `NothingLeftOpen`: between calls nothing is open, except one WinINet session per failed
  call, which the code loses for good.
* `ForeignKept`: a handle of somebody else is closed only by a WinINet call that failed before its
  own handles had values.

`requests`: one event like any other and two from `PostEvent`, null and no object; `Context` as
constructed or assigned no object, an object without `library`, an object whose `library` is a
string; `Integrations` null or an object; `MaxRetries` 1; codes 200 and 204, and a handler that
may fail to read them; about 139,000 states. One retry is enough to tell an earlier answer from
the last, and an event that joined late from one that was there.

* `SuccessMeansTaken`, `CopiesBounded`: what is reported uploaded the server has, and not
  more than `MaxRetries` + 1 times, though answers get lost and batches grow between attempts.
  The exception is a handler that could not read the status of the very attempt that succeeds.
* `ReasonIsTheAnswer`: a code in a failure is the server's answer to that last attempt, unless
  the handler could not read it.
* `ContextKept`: posting leaves `Context` as it was assigned, but for a null `library` where there
  was none; one that was there keeps its value.
* `RetriesAsAgreed`: requests that cannot be built, exceptions and answers other than 200 are
  retried and given up on as in `BatchRetry`.
* `BatchSettles`: a batch that cannot be built into a request is reported failed in the end.
* `EventFields`: the event of each call in a request has the fields its parameter names promise,
  no others, and so has that of any call of the twelve overloads. Of a call of `Group` with a
  `userId` it only says that its event has no others: the `userId` is promised and missing, which
  `request_incomplete` shows. TLC tries every choice of arguments that are given.
* `AuthorizationDecodes`: RFC 4648 decodes the credentials of a request to the write key and a
  colon, and would for other keys; TLC tries all of up to four bytes out of 0, 97 and 255. With an
  accumulator of 16 bits instead of the code's 32 these already overflow.

  What the two say of calls and keys in general TLC evaluates once; what they say of the requests
  of the run, in every state.

`liveness` uses two threads, two events that do not fit one batch and intervals of 1,
without symmetry: `EventuallySettled`, `FlushWaitReturns`, `DestructorReturns` and
`KeepsDelivering` (the abstract specification with its fairness).

The fairness assumed: the worker is scheduled, the HTTP handler and the callbacks return
(weak fairness of `WorkerStep`); time passes (weak fairness of `Tick`); `join` returns when the
thread has ended; and a thread that waits for a mutex which is released again and again gets
it in the end (strong fairness of the two actions of `FlushWait` and of the destructor's
critical section). The last is an assumption about `std::mutex`, which the standard does not
promise. It is needed: the worker sleeps and posts with the lock held and lets go of it only
for its waits and callbacks. Nothing is assumed of the application: no thread has to call
anything, and no post has to succeed. Spurious wake-ups happen but need not.

In `requests` the worker runs and the handler returns or throws (`HandlerFinish`). Nothing in the
code guarantees the latter: libcurl is given no timeout (http-curl.cpp:111-121), so a server that
keeps a connection open and silent holds up the worker and with it the lock. `liveness` and
`BatchSettles` say nothing of that case, and `transports` states no fairness at all.

Eight runs show where comments or the header disagree with the code; each expects a violation,
and `PROJECT.json` quotes the text.

| Run | What the code does |
|---|---|
| `flush_wait_early` | `FlushWait` returns while a gathered batch waits, or is being reported, because the lock is not held then. |
| `retry_too_soon` | Retries do not wait `RetryInterval`: `retryTime` can only bring `wakeTime` forward, and it has usually passed. |
| `upload_too_soon` | `wakeTime` outlives the event it was set for, and the next batch goes up early. |
| `fails_unretried` | The failure count belongs to the worker: an event may be reported failed after one post. |
| `scrub_misses_batch` | `Scrub` leaves the gathered batch, which is still posted. |
| `oversized_event` | An event of `FlushSize` bytes blocks the queue for ever while empty batches are posted; `FlushWait` and the destructor hang. |
| `startup_race` | The worker reads `shutdown` before the constructor assigns it, and may end at once; the object then has no worker. |
| `request_incomplete` | One request shows three things: `sentAt` is put into copies of the events and not sent; `Group` leaves out the `userId` it is given; a null is sent as an event. |

Three more disagreements are known, listed as hazards and shown by no run. A status libcurl
cannot tell is not reported as code 0, as http.hpp:88-91 asks, but read from a variable without a
value: the properties of `transports` and `requests` name it as their one exception.
`needFlush` is cleared for one batch (analytics.cpp:583), though analytics.hpp:84-87 promises
that a `Flush` gets all events processed; `NoLostFlush` is about `needFlush` as the code has it,
and `EventuallySettled` is satisfied when the rest goes up at its deadline. `FlushSize`
is compared with `{"batch": ...}` alone (analytics.cpp:557-558), though analytics.hpp:119-122
speaks of the entire marshalled object; `BatchWithinLimits` is about what the code measures, and
`Context` and `Integrations` are sent beside it.

## Proofs

All safety properties of `safety`, `transports` and `requests` are theorems, the exception of an
unread status included. Those of `safety`
hold for any set of threads and events, any sizes and limits allowed by `ConfigAssumption`
(`FlushCount` at least 1, the worker not an application thread, sizes and intervals natural
numbers), with `FlushWait` in callbacks allowed too. `HttpAssumption` asks for a finite pool of
handles, codes that are positive numbers, 200 among them, and a set of ints with the codes and 0
in it; `SendAssumption` for the same of codes and ints and for a write key of bytes. `CallsAssumption` says that a call has as many arguments as
one of the two overloads of its function; C++ compiles no other. `IntAssumption` is C++'s: an
int has at least 16 bits.

1. `TypeCorrect`. `TypeOK` is inductive as it stands.
2. `ControlCorrect`. `NoLostFlush` and `NoMissedSignal` are not inductive: that the worker does
   not go to sleep on a wanted flush depends on `needFlush` being false while it posts, and that
   it does not stop or wait with work left depends on what the lock protects from `gather` to
   `sending`. `WorkerInv` and `ClosingInv` say this. `FlushNotLost` and `SignalNotMissed`
   follow.
3. `Implements`. With `Pending`, the three queues end to end, for `pending`: `queueEvent`
   accepts, `Scrub` withdraws, reporting settles, and every other step leaves the line and the
   outcomes alone. The gather loop and the hand-over are the two cases with work in them; the
   hand-over needs `notifyq` to be empty, from `WorkerInv`.
4. `InOnePlace`, `ReportedOnce` are proved of `EventDelivery` (`PendingOnce`, `Final`) and carry
   over by 3. `NoneLeftBehind` adds the control state: a stopped worker has empty queues.
5. `WakesInTime`. The invariant is `WakeInTime`: `wakeTime` is no later than any unsettled
   event's deadline. It needs 4, as a scrub or a finished batch must not touch the deadlines of
   the others.
6. `PostsBounded`. The invariant `PostsCounted` compares an event's posts with the worker's
   failures: equal at most, one more while posting, none for an event still in `events`.
   `RetriesImplemented`: with `Fate` for what is decided and not yet reported, the gather loop
   is `Join`, the hand-over `Decide`, and the other steps change nothing; it needs 2 and 4, as
   what is gathered must be undecided and `notifyq` empty when the next verdict is given.
7. `BatchLimited`, and `PostsSomething` under the hypothesis `EachFits`, that every event fits a
   batch alone. `oversized_event` shows the hypothesis is needed.
8. `WaitsUntilBuilt` and, if `shutdown` happens to hold false until it is assigned,
   `StartImplements`. The invariant `StartInv` says that before the object is built the queues
   are empty and no clock runs; each assignment then is a stutter of `Analytics`, each step of
   the worker one of its steps. After that the values are the settled values and a step is its
   own image.
9. `QuietThen`: with no event pending the three queues are empty (4), and the worker enters the
   steps that read public members with something in them only. `CallbackNotLeft`: the only steps
   that empty `events` are the worker's, which a waiting callback holds up, and `Scrub`, which
   notifies.
10. `TransportsProofs`, for any set of codes, any pool and any number of headers: `FlowInv` says
   which step belongs to which transport, `ExchangeInv` that no answer is there before the
   transfer; `TransportsImplement` and `OkIsTaken` follow step by step, `CurlStatusUnread` being
   `Handler`'s `FinishUnread`. `OwnedInv` says which pointers have a value of their own at which
   step, and that no two share an object; with `SessionsInv`, which counts lost sessions against
   failed calls, it gives `NothingIsLeftOpen`, and `ForeignIsKept` alone.
11. `SendBatchProofs`, for any calls, any values assigned, any `MaxRetries` and codes.
   `CopiesBounded` is not inductive, and `SuccessMeansTaken` and `ReasonIsTheAnswer` need to know
   what a result means. `ResultInv` ties the handler's result to the server's answer unless it is
   unread; `CopiesInv` says that `fails` never falls below the copies of an event still in the
   batch, one more while a taken post is under way, and that such a post has left a copy of each.
   `SuccessIsTaken`, `CopiesAreBounded` and `ReasonIsAnswer` follow. `ContextIsKept` rests on
   `LibraryAdded`: once `library` is there, looking it up changes nothing. `RetriesImplemented`
   is 6's counterpart for this view of the worker.
12. `FieldsAreArguments`. An event is compared as a set of pairs of names and values.
   `AddsString` and `AddsObject` say that adding a field under a new name adds its pair, or none
   if there is nothing to say; the events are three to six such additions. The six `...Says`
   lemmas follow each function's arguments through its overloads, short and long, to the pairs
   its parameter names promise; `GroupSays` has `Promised` as the event's pairs and the one that
   is missing, `userId`'s. That each request carries the events rests on `BatchInBody`: the
   body's other members leave `batch` alone.
13. `EncodedDecodes`, of which `CredentialsDecode` is the case of the request's header. The
   invariant of the loop over the bytes (`LoopInv`) gives every digit as six bits of two
   neighbouring bytes and says of the accumulator only that it ends in the last byte: a digit
   never needs more than 16 bits of it, so what overflows is never output. `LoopKeepsInv` is a
   step of the loop; `Induction`, from the well-founded order of Nat, carries it to the end.
14. What liveness rests on. `HandleIsBounded`: `CallsAhead` falls with every step of `Handle`
   and is at most `HeaderCount` + 9, so no loop of the transports goes round and round; whether
   a call of libcurl ends is not said. `BatchIsBounded`: `StepsAhead` falls with every post, end
   of a handler and return, rises with nothing until the batch is settled, and is at most 3
   (`MaxRetries` + 1). What `BatchSettles` adds is that the steps are taken, which is the
   fairness assumed.

Only model-checked: the liveness properties `KeepsDelivering`, `EventuallySettled`,
`FlushWaitReturns`, `DestructorReturns` and `BatchSettles` (TLAPS has no proof of fairness and
`ENABLED`), and the counterexamples. The library's induction theorems take
an operator and cannot be used; `Induction` states the rule with a set instead, which is enough
for a loop whose invariant is a property of one number. `BatchBytes` is a fold, of which nothing
is proved but that `Startup`'s instance of `Analytics` has the same: the proofs need only the
comparison the code makes.

## Not modelled

* `json.hpp` and `date.hpp`, third-party headers copied into the repository, are 20,394 of its
  21,946 lines. Of them only the operations on JSON values that can throw or insert are
  modelled (`JsonValues`); parsing, printing, iterators and calendar arithmetic are not the
  program's own logic. The size of a serialised batch is the constant `SizeOf`, timestamps are one
  value. The share of all lines that is modelled therefore stays small; of the library's own files it
  is most.
* Assigning `Context`, `Integrations`, `Handler`, `Callback` or the limits while events are pending:
  a data race, with no defined outcome. The limits are CONSTANTS.
* Exceptions that do not derive from `std::exception`, which end the program; running out of
  memory outside the transports' library calls.
* `FlushCount` 0, which posts empty batches without end (`ConfigAssumption`).
* The response's body and message, which nothing reads (libcurl's write callback copies them from
  the wrong place); the texts of errors; URL, `Content-Type` and `Accept`.
* `SetEventAnonymousId` and the like, which are declared and defined nowhere.
* The network and the server, which only answer or do not; adjustments of the system clock.
* Tests, example, mock server and build files.
