----------------------------- MODULE Transports ------------------------------
(***************************************************************************)
(* The worker posts one request after another through the transport that   *)
(* was compiled in, and each implements what Handler.tla says of it.       *)
(***************************************************************************)
EXTENDS HttpCurl, HttpWinInet

VARIABLE transport   \* chosen when the library is built

vars == <<transport, step, todo, held, live, answer, taken, result, unread, failures>>

TypeOK ==
  /\ transport \in {"curl", "wininet", "none"}
  /\ step \in {"idle", "headers", "setopt", "perform", "status", "stub",
               "crack", "open", "connect", "request", "text"}
  /\ todo \in 0..HeaderCount
  /\ held \in [Slots -> Objects \union {Null}]
  /\ live \in [Objects -> Kinds]
  /\ answer \in Codes \union {0} /\ taken \in BOOLEAN
  /\ result \in [kind : {"none", "response", "exception"}, code : Ints]
  /\ unread \in BOOLEAN
  /\ failures \in 0..Cardinality(Objects)

-----------------------------------------------------------------------------

Init ==
  /\ transport \in {"curl", "wininet", "none"}
  /\ step = "idle" /\ todo = 0
  /\ held = [s \in Slots |-> Null]
  /\ live \in [Objects -> {"free", "foreign"}]
  /\ answer = 0 /\ taken = FALSE
  /\ result = NoResult /\ unread = FALSE /\ failures = 0

\* HandlerNone::Handle answers 0.
NoneStart  == step' = "stub" /\ UNCHANGED held
NoneAnswer == step = "stub" /\ Leave(Response(0)) /\ UNCHANGED <<live, unread>>

Call ==
  /\ step = "idle"
  /\ \/ transport = "curl" /\ CurlStart
     \/ transport = "wininet" /\ WinStart
     \/ transport = "none" /\ NoneStart
  /\ todo' = HeaderCount
  /\ answer' = 0 /\ taken' = FALSE /\ result' = NoResult /\ unread' = FALSE
  /\ UNCHANGED <<transport, live, failures>>

HandleStep ==
  /\ \/ transport = "curl" /\ CurlStep
     \/ transport = "wininet" /\ WinStep
     \/ transport = "none" /\ NoneAnswer
  /\ UNCHANGED transport

Next == Call \/ HandleStep

Spec == Init /\ [][Next]_vars

-----------------------------------------------------------------------------

Contract == INSTANCE Handler WITH busy <- step # "idle"

(* Every transport does what sendBatch counts on, and nothing else.        *)
KeepsContract == Contract!Spec

(* sendBatch succeeds on code 200 only, and then the server has the batch, *)
(* although the result of libcurl's transfer is not looked at and a status *)
(* in WinINet's one variable is followed by another query.  The one        *)
(* exception is libcurl's: when it cannot tell the status and has memory,  *)
(* a code that nobody has assigned decides.                                *)
OkMeansTaken == result = Response(200) => taken \/ (transport = "curl" /\ unread)

(* Between two calls nothing is open but, with WinINet, one session for    *)
(* each call that failed: whichever step of Handle failed or threw, every  *)
(* list, handle, connection and request was given back.                    *)
NothingLeftOpen ==
  step = "idle" =>
    /\ \A o \in Objects : live[o] \in {"free", "foreign", "session"}
    /\ Cardinality({o \in Objects : live[o] = "session"}) <= failures

(* A handle that is not the call's own, which a pointer not yet assigned   *)
(* may happen to name, is closed only by WinINet's Handle, and only if it  *)
(* fails before it has a connection and a request.                         *)
ForeignKept ==
  [][\A o \in Objects : live[o] = "foreign" /\ live'[o] # "foreign"
       => transport = "wininet" /\ step \in {"crack", "open", "connect"}]_vars

=============================================================================
