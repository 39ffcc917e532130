-------------------------- MODULE TransportsProofs ---------------------------
(***************************************************************************)
(* Proofs, for every set of status codes, pool of handles and number of    *)
(* headers, of the safety properties of Transports.tla.                    *)
(***************************************************************************)
EXTENDS Transports, FiniteSetTheorems, TLAPS

-----------------------------------------------------------------------------
(* Type correctness, and which step belongs to which transport.            *)

CurlSteps == {"idle", "headers", "setopt", "perform", "status"}
WinSteps  == {"idle", "crack", "open", "connect", "request", "headers", "status", "text"}

FlowInv ==
  /\ TypeOK
  /\ transport = "curl" => step \in CurlSteps
  /\ transport = "wininet" => step \in WinSteps
  /\ transport = "none" => step \in {"idle", "stub"}

LEMMA PoolSize == Cardinality(Objects) \in Nat
BY HttpAssumption, FS_CardinalityType

LEMMA AcquireType ==
  ASSUME TypeOK, NEW slot \in Slots, NEW kind \in Kinds, Acquire(slot, kind)
  PROVE  held' \in [Slots -> Objects \union {Null}] /\ live' \in [Objects -> Kinds]
BY DEF TypeOK, Acquire

LEMMA LeaveType ==
  ASSUME TypeOK, NEW r \in [kind : {"response", "exception"}, code : Ints],
         NEW slots, Leave(r), live' = Released(slots), transport' = transport, unread' \in BOOLEAN
  PROVE  TypeOK' /\ step' = "idle" /\ failures \in Nat /\ failures' \in Nat
<1>1. live' \in [Objects -> Kinds]
  BY DEF TypeOK, Released, Kinds
<1>2. failures' \in 0..Cardinality(Objects)
  BY PoolSize, SMT DEF TypeOK, Leave
<1>. QED BY <1>1, <1>2, PoolSize, SMT DEF TypeOK, Leave, exchange

LEMMA Verdicts ==
  ASSUME TypeOK
  PROVE  /\ CurlVerdict(answer) \in [kind : {"response", "exception"}, code : Ints]
         /\ \A c \in Codes \union {0} \union Ints :
              /\ Response(c) \in [kind : {"response", "exception"}, code : Ints]
              /\ Thrown(c) \in [kind : {"response", "exception"}, code : Ints]
BY HttpAssumption DEF TypeOK, Response, Thrown, CurlVerdict

LEMMA NextFlowInv ==
  ASSUME FlowInv, [Next]_vars
  PROVE  FlowInv'
<1> USE DEF FlowInv, CurlSteps, WinSteps
<1>1. ASSUME Call PROVE FlowInv'
  <2>1. held' \in [Slots -> Objects \union {Null}]
    BY <1>1, SMT DEF Call, CurlStart, WinStart, NoneStart, TypeOK
  <2>2. result' \in [kind : {"none", "response", "exception"}, code : Ints]
    BY <1>1, HttpAssumption DEF Call, NoResult
  <2>3. todo' \in 0..HeaderCount
    BY <1>1, HttpAssumption, SMT DEF Call
  <2>4. /\ transport = "curl" => step' = "headers"
        /\ transport = "wininet" => step' = "crack"
        /\ transport = "none" => step' = "stub"
    BY <1>1 DEF Call, CurlStart, WinStart, NoneStart
  <2>5. UNCHANGED <<transport, live, failures>> /\ answer' = 0 /\ taken' = FALSE /\ ~unread'
        /\ unread' \in BOOLEAN
    BY <1>1 DEF Call
  <2>. QED BY <2>1, <2>2, <2>3, <2>4, <2>5 DEF TypeOK
<1>2. ASSUME transport = "curl", CurlStep, transport' = transport PROVE FlowInv'
  <2>1. CASE CurlAddHeader
    <3>1. todo' \in 0..HeaderCount
      BY <2>1, HttpAssumption, SMT DEF CurlAddHeader, MoreHeaders, TypeOK
    <3>2. held' \in [Slots -> Objects \union {Null}] /\ live' \in [Objects -> Kinds]
      BY <2>1, AcquireType, SMT DEF CurlAddHeader, TypeOK, Slots, Kinds
    <3>. QED BY <1>2, <2>1, <3>1, <3>2, SMT DEF CurlAddHeader, TypeOK, exchange, outcome
  <2>2. CASE CurlInit
    <3>1. held' \in [Slots -> Objects \union {Null}] /\ live' \in [Objects -> Kinds]
      BY <2>2, AcquireType, SMT DEF CurlInit, Slots, Kinds
    <3>. QED BY <1>2, <2>2, <3>1, SMT DEF CurlInit, TypeOK, exchange, outcome
  <2>3. CASE CurlSetopt \/ CurlPerform
    BY <1>2, <2>3, SMT DEF CurlSetopt, CurlPerform, Transfer, TypeOK, exchange, outcome
  <2>4. CASE CurlFails \/ CurlStatus \/ CurlStatusUnread
    <3>1. unread' \in BOOLEAN /\ answer \in Codes \union {0}
      BY <2>4 DEF CurlFails, CurlStatus, CurlStatusUnread, TypeOK
    <3>2. \E r \in [kind : {"response", "exception"}, code : Ints] : CurlLeave(r)
      BY <2>4, <3>1, Verdicts DEF CurlFails, CurlStatus, CurlStatusUnread
    <3>. QED BY <1>2, <3>1, <3>2, LeaveType DEF CurlLeave
  <2>. QED BY <1>2, <2>1, <2>2, <2>3, <2>4 DEF CurlStep
<1>3. ASSUME transport = "wininet", WinStep, transport' = transport PROVE FlowInv'
  <2>1. CASE WinAddHeader
    BY <1>3, <2>1, HttpAssumption, SMT DEF WinAddHeader, MoreHeaders, TypeOK, exchange, outcome
  <2>2. CASE WinOpen \/ WinConnect \/ WinOpenRequest
    <3>1. held' \in [Slots -> Objects \union {Null}] /\ live' \in [Objects -> Kinds]
      BY <2>2, AcquireType, SMT DEF WinOpen, WinConnect, WinOpenRequest, Slots, Kinds
    <3>. QED BY <1>3, <2>2, <3>1, SMT
            DEF WinOpen, WinConnect, WinOpenRequest, WinMoves, TypeOK, exchange, outcome
  <2>3. CASE WinCrackUrl \/ WinQueryStatus \/ WinSend
    BY <1>3, <2>3, SMT
    DEF WinCrackUrl, WinQueryStatus, WinSend, WinMoves, Transfer, TypeOK, exchange, outcome
  <2>4. CASE WinQueryText \/ WinFails
    <3>1. unread' \in BOOLEAN /\ answer \in Codes \union {0}
      BY <2>4 DEF WinQueryText, WinFails, TypeOK
    <3>. QED BY <1>3, <2>4, <3>1, LeaveType, Verdicts DEF WinQueryText, WinFails
  <2>. QED BY <1>3, <2>1, <2>2, <2>3, <2>4 DEF WinStep
<1>4. ASSUME transport = "none", NoneAnswer, transport' = transport PROVE FlowInv'
  <2>1. live' = Released({}) /\ unread' \in BOOLEAN
    BY <1>4 DEF NoneAnswer, Released, TypeOK
  <2>. QED BY <1>4, <2>1, LeaveType, Verdicts DEF NoneAnswer
<1>5. CASE UNCHANGED vars
  BY <1>5 DEF vars, TypeOK
<1>. QED BY <1>1, <1>2, <1>3, <1>4, <1>5 DEF Next, HandleStep

LEMMA InitFlowInv == Init => FlowInv
<1> SUFFICES ASSUME Init PROVE FlowInv
  OBVIOUS
<1>1. /\ todo \in 0..HeaderCount /\ failures \in 0..Cardinality(Objects)
      /\ held \in [Slots -> Objects \union {Null}]
  BY HttpAssumption, PoolSize, SMT DEF Init
<1>2. live \in [Objects -> Kinds]
  BY DEF Init, Kinds
<1>3. result \in [kind : {"none", "response", "exception"}, code : Ints] /\ unread \in BOOLEAN
  BY HttpAssumption DEF Init, NoResult
<1>. QED BY <1>1, <1>2, <1>3 DEF Init, FlowInv, TypeOK, CurlSteps, WinSteps

LEMMA FlowCorrect == Spec => []FlowInv
BY InitFlowInv, NextFlowInv, PTL DEF Spec

(* Every variable keeps its type; the loop over the headers ends at zero.  *)
THEOREM TypeCorrect == Spec => []TypeOK
BY FlowCorrect, PTL DEF FlowInv

-----------------------------------------------------------------------------
(* The contract.                                                           *)

\* The server has not been asked yet.
BeforeExchange ==
  \/ transport = "curl" /\ step \in {"headers", "setopt", "perform"}
  \/ transport = "wininet" /\ step \in {"crack", "open", "connect", "request", "headers"}
  \/ transport = "none" /\ step = "stub"

ExchangeInv ==
  /\ BeforeExchange => answer = 0 /\ taken = FALSE
  /\ answer = 200 => taken
  /\ step # "idle" => ~unread
  /\ OkMeansTaken

\* What a step does to the variables of the contract.
ContractSteps ==
  \/ Contract!Call /\ transport' = transport /\ step' # "status" /\ step' # "text"
  \/ Transfer /\ BeforeExchange /\ ~BeforeExchange' /\ step # "idle" /\ step' # "idle"
       /\ UNCHANGED <<result, unread>>
  \/ Contract!Finish /\ step' = "idle"
  \/ Contract!FinishUnread /\ step' = "idle" /\ transport' = "curl"
  \/ UNCHANGED <<exchange, result, unread>> /\ step # "idle" /\ step' # "idle"
       /\ (BeforeExchange' => BeforeExchange)
  \/ UNCHANGED vars

LEMMA LeaveFinishes ==
  ASSUME NEW c \in {0, answer}, step # "idle", UNCHANGED unread,
         Leave(Response(answer)) \/ (c # 200 /\ Leave(Thrown(c)))
  PROVE  Contract!Finish /\ step' = "idle"
BY DEF Leave, Response, Thrown, exchange, Contract!Finish, Contract!Response, Contract!Thrown

LEMMA VerdictFinishes ==
  ASSUME TypeOK, step # "idle", UNCHANGED unread, Leave(CurlVerdict(answer))
  PROVE  Contract!Finish /\ step' = "idle"
<1>1. CASE answer = 0 \/ answer > 299
  <2>1. answer # 200 /\ CurlVerdict(answer) = Thrown(answer)
    BY <1>1, HttpAssumption, SMT DEF TypeOK, CurlVerdict
  <2>. QED BY <2>1, LeaveFinishes
<1>2. CASE ~(answer = 0 \/ answer > 299)
  BY <1>2, LeaveFinishes DEF CurlVerdict
<1>. QED BY <1>1, <1>2

LEMMA NextContractSteps ==
  ASSUME FlowInv, ExchangeInv, [Next]_vars
  PROVE  ContractSteps
<1> USE DEF ContractSteps, BeforeExchange, FlowInv, exchange, outcome
<1>1. ASSUME Call PROVE ContractSteps
  BY <1>1 DEF Call, CurlStart, WinStart, NoneStart, Contract!Call, Contract!NoResult, NoResult
<1>2. ASSUME transport = "curl", CurlStep, transport' = transport PROVE ContractSteps
  <2>1. CASE CurlAddHeader \/ CurlInit \/ CurlSetopt
    BY <1>2, <2>1 DEF CurlAddHeader, CurlInit, CurlSetopt
  <2>2. CASE CurlPerform
    BY <1>2, <2>2 DEF CurlPerform
  <2>3. CASE CurlFails
    BY <2>3, LeaveFinishes DEF CurlFails, CurlLeave
  <2>4. CASE CurlStatus
    BY <2>4, VerdictFinishes DEF CurlStatus, CurlLeave
  <2>5. CASE CurlStatusUnread
    BY <1>2, <2>5
    DEF CurlStatusUnread, CurlLeave, Leave, Response, Thrown,
        Contract!FinishUnread, Contract!Response, Contract!Thrown
  <2>. QED BY <1>2, <2>1, <2>2, <2>3, <2>4, <2>5 DEF CurlStep
<1>3. ASSUME transport = "wininet", WinStep, transport' = transport PROVE ContractSteps
  <2>1. CASE WinAddHeader \/ WinOpen \/ WinConnect \/ WinOpenRequest \/ WinCrackUrl
               \/ WinQueryStatus
    BY <1>3, <2>1
    DEF WinAddHeader, WinOpen, WinConnect, WinOpenRequest, WinCrackUrl, WinQueryStatus, WinMoves
  <2>2. CASE WinSend
    BY <1>3, <2>2 DEF WinSend
  <2>3. CASE WinQueryText \/ WinFails
    BY <2>3, LeaveFinishes DEF WinQueryText, WinFails
  <2>. QED BY <1>3, <2>1, <2>2, <2>3 DEF WinStep
<1>4. ASSUME transport = "none", NoneAnswer, transport' = transport PROVE ContractSteps
  <2>1. answer = 0 /\ step # "idle"
    BY <1>4 DEF NoneAnswer, ExchangeInv
  <2>. QED BY <1>4, <2>1, LeaveFinishes DEF NoneAnswer
<1>5. CASE UNCHANGED vars
  BY <1>5
<1>. QED BY <1>1, <1>2, <1>3, <1>4, <1>5 DEF Next, HandleStep

LEMMA NextExchangeInv ==
  ASSUME FlowInv, FlowInv', ExchangeInv, ContractSteps
  PROVE  ExchangeInv' /\ [Contract!Next]_(Contract!vars)
<1> USE DEF ExchangeInv, OkMeansTaken, exchange, Contract!Next, Contract!vars
<1>1. CASE Contract!Call /\ transport' = transport /\ step' # "status" /\ step' # "text"
  BY <1>1 DEF Contract!Call, Contract!NoResult, Response
<1>2. CASE Transfer /\ BeforeExchange /\ ~BeforeExchange' /\ step # "idle" /\ step' # "idle"
             /\ UNCHANGED <<result, unread>>
  <2>1. Contract!Exchange
    BY <1>2 DEF Transfer, Contract!Exchange
  <2>. QED BY <1>2, <2>1 DEF Transfer, Response
<1>3. CASE Contract!Finish /\ step' = "idle"
  <2>1. UNCHANGED exchange
    BY <1>3 DEF Contract!Finish
  <2>2. result' = Response(200) => answer = 200
    <3>1. CASE result' = Contract!Response(answer)
      <4>1. result'.code = answer /\ Response(200).code = 200
        BY <3>1 DEF Contract!Response, Response
      <4>. QED BY <4>1
    <3>2. CASE \E c \in {0, answer} \ {200} : result' = Contract!Thrown(c)
      <4>1. result'.kind = "exception" /\ Response(200).kind = "response"
        BY <3>2 DEF Contract!Thrown, Response
      <4>. QED BY <4>1
    <3>. QED BY <1>3, <3>1, <3>2 DEF Contract!Finish
  <2>3. ~BeforeExchange'
    BY <1>3 DEF BeforeExchange
  <2>. QED BY <1>3, <2>1, <2>2, <2>3
<1>4. CASE Contract!FinishUnread /\ step' = "idle" /\ transport' = "curl"
  BY <1>4 DEF Contract!FinishUnread, BeforeExchange
<1>5. CASE UNCHANGED <<exchange, result, unread>> /\ step # "idle" /\ step' # "idle"
             /\ (BeforeExchange' => BeforeExchange)
  BY <1>5 DEF Response
<1>6. CASE UNCHANGED vars
  BY <1>6 DEF vars, BeforeExchange, Response
<1>. QED BY <1>1, <1>2, <1>3, <1>4, <1>5, <1>6 DEF ContractSteps

LEMMA ExchangeCorrect == Spec => []ExchangeInv /\ [][Contract!Next]_(Contract!vars)
<1>1. Init => ExchangeInv
  BY DEF Init, ExchangeInv, BeforeExchange, OkMeansTaken, NoResult, Response
<1>2. FlowInv /\ FlowInv' /\ ExchangeInv /\ [Next]_vars
        => ExchangeInv' /\ [Contract!Next]_(Contract!vars)
  BY NextContractSteps, NextExchangeInv
<1>. QED BY <1>1, <1>2, FlowCorrect, PTL DEF Spec

(* A Response with code 200 is only returned when the server has the batch *)
(* (PostOk of Analytics.tla reports no success that was none), whichever   *)
(* call of its library failed, but one: libcurl asked for the status, and  *)
(* failing for another reason than memory.                                 *)
THEOREM OkIsTaken == Spec => []OkMeansTaken
BY ExchangeCorrect, PTL DEF ExchangeInv

(* libcurl, WinINet and the stub each implement Handler.tla: what they     *)
(* return or throw claims no answer that the server did not give, unless   *)
(* it is the unread status that Handler.tla allows for.                    *)
THEOREM TransportsImplement == Spec => KeepsContract
<1>1. Init => Contract!Init
  BY DEF Init, NoResult, Contract!Init, Contract!NoResult
<1>. QED BY <1>1, ExchangeCorrect, PTL DEF Spec, KeepsContract, Contract!Spec

-----------------------------------------------------------------------------
(* Who owns what is open.                                                  *)

\* WinINet's steps with the session open.
SessionSteps == {"connect", "request", "headers", "status", "text"}

InSession == transport = "wininet" /\ step \in SessionSteps

\* An object of this call's kinds is open only while the call points to it.
OwnedBy(o, kind) ==
  CASE kind = "slist"      -> transport = "curl" /\ step # "idle" /\ held["headers"] = o
    [] kind = "easy"       -> transport = "curl" /\ step # "idle" /\ held["req"] = o
    [] kind = "connection" -> InSession /\ step # "connect" /\ held["connect"] = o
    [] kind = "request"    -> InSession /\ step \notin {"connect", "request"}
                                /\ held["request"] = o
    [] OTHER               -> TRUE

OwnedInv ==
  /\ \A o \in Objects : OwnedBy(o, live[o])
  /\ transport = "curl" /\ step = "headers" => held["req"] = Null
  /\ transport = "curl" /\ step # "idle" =>
       /\ held["headers"] # Null => live[held["headers"]] = "slist"
       /\ held["req"] # Null => live[held["req"]] = "easy"
  /\ InSession /\ step # "connect" =>
       held["connect"] \in Objects /\ live[held["connect"]] = "connection"
  /\ InSession /\ step \notin {"connect", "request"} =>
       held["request"] \in Objects /\ live[held["request"]] = "request"
  /\ InSession => held["internet"] \in Objects /\ live[held["internet"]] = "session"

LEMMA NextOwnedInv ==
  ASSUME FlowInv, OwnedInv, [Next]_vars
  PROVE  OwnedInv'
<1> USE HttpAssumption
    DEF OwnedInv, OwnedBy, InSession, SessionSteps, FlowInv, TypeOK, Slots, Kinds
<1>1. ASSUME Call PROVE OwnedInv'
  <2>1. /\ UNCHANGED <<transport, live>> /\ step = "idle"
        /\ transport = "curl" => step' = "headers" /\ held' = [s \in Slots |-> Null]
        /\ transport = "wininet" => step' = "crack"
        /\ transport = "none" => step' = "stub"
    BY <1>1 DEF Call, CurlStart, WinStart, NoneStart
  <2>. QED BY <2>1
<1>2. ASSUME transport = "curl", CurlStep, transport' = transport PROVE OwnedInv'
  <2>1. CASE CurlAddHeader
    BY <1>2, <2>1 DEF CurlAddHeader, Acquire
  <2>2. CASE CurlInit
    BY <1>2, <2>2 DEF CurlInit, Acquire
  <2>3. CASE CurlSetopt \/ CurlPerform
    BY <1>2, <2>3 DEF CurlSetopt, CurlPerform
  <2>4. CASE CurlFails \/ CurlStatus \/ CurlStatusUnread
    BY <1>2, <2>4 DEF CurlFails, CurlStatus, CurlStatusUnread, CurlLeave, CurlFrees, Leave, Released
  <2>. QED BY <1>2, <2>1, <2>2, <2>3, <2>4 DEF CurlStep
<1>3. ASSUME transport = "wininet", WinStep, transport' = transport PROVE OwnedInv'
  <2>1. CASE WinAddHeader \/ WinCrackUrl \/ WinQueryStatus \/ WinSend
    BY <1>3, <2>1 DEF WinAddHeader, WinCrackUrl, WinQueryStatus, WinSend, WinMoves
  <2>2. CASE WinOpen
    BY <1>3, <2>2 DEF WinOpen, WinMoves, Acquire
  <2>3. CASE WinConnect
    BY <1>3, <2>3 DEF WinConnect, WinMoves, Acquire
  <2>4. CASE WinOpenRequest
    BY <1>3, <2>4 DEF WinOpenRequest, WinMoves, Acquire
  <2>5. CASE WinQueryText
    BY <1>3, <2>5 DEF WinQueryText, Leave, Released
  <2>6. CASE WinFails
    BY <1>3, <2>6 DEF WinFails, WinFailCloses, WinNulled, Leave, Released
  <2>. QED BY <1>3, <2>1, <2>2, <2>3, <2>4, <2>5, <2>6 DEF WinStep
<1>4. ASSUME transport = "none", NoneAnswer, transport' = transport PROVE OwnedInv'
  BY <1>4 DEF NoneAnswer, Leave
<1>5. CASE UNCHANGED vars
  BY <1>5 DEF vars
<1>. QED BY <1>1, <1>2, <1>3, <1>4, <1>5 DEF Next, HandleStep

LEMMA OwnedCorrect == Spec => []OwnedInv
<1>1. Init => OwnedInv
  BY DEF Init, OwnedInv, OwnedBy, InSession, SessionSteps
<1>. QED BY <1>1, NextOwnedInv, FlowCorrect, PTL DEF Spec

\* The only steps that give an object back.
LEMMA StepsThatRelease ==
  ASSUME FlowInv, [Next]_vars, NEW o \in Objects, live[o] # "free"
  PROVE  \/ live'[o] = live[o]
         \/ transport = "curl" /\ step # "idle" /\ \E s \in {"headers", "req"} : held[s] = o
         \/ transport = "wininet" /\ WinQueryText
              /\ \E s \in {"internet", "connect", "request"} : held[s] = o
         \/ transport = "wininet" /\ WinFails /\ \E s \in WinFailCloses : held[s] = o
<1> USE DEF FlowInv, TypeOK, Acquire, Released
<1>1. ASSUME Call PROVE live' = live
  BY <1>1 DEF Call
<1>2. CASE CurlStep /\ transport = "curl"
  <2>1. CASE CurlAddHeader \/ CurlInit \/ CurlSetopt \/ CurlPerform
    BY <2>1 DEF CurlAddHeader, CurlInit, CurlSetopt, CurlPerform
  <2>2. CASE CurlFails \/ CurlStatus \/ CurlStatusUnread
    BY <1>2, <2>2 DEF CurlFails, CurlStatus, CurlStatusUnread, CurlLeave, CurlFrees
  <2>. QED BY <1>2, <2>1, <2>2 DEF CurlStep
<1>3. CASE WinStep /\ transport = "wininet"
  <2>1. CASE WinAddHeader \/ WinCrackUrl \/ WinQueryStatus \/ WinSend \/ WinOpen \/ WinConnect
               \/ WinOpenRequest
    BY <2>1 DEF WinAddHeader, WinCrackUrl, WinQueryStatus, WinSend, WinOpen, WinConnect,
                WinOpenRequest
  <2>2. CASE WinQueryText
    BY <1>3, <2>2 DEF WinQueryText
  <2>3. CASE WinFails
    BY <1>3, <2>3 DEF WinFails
  <2>. QED BY <1>3, <2>1, <2>2, <2>3 DEF WinStep
<1>4. ASSUME NoneAnswer PROVE live' = live
  BY <1>4 DEF NoneAnswer
<1>5. CASE UNCHANGED vars
  BY <1>5 DEF vars
<1>. QED BY <1>1, <1>2, <1>3, <1>4, <1>5 DEF Next, HandleStep

(* Another party's handle is closed through a junk pointer only, by a      *)
(* WinINet call that fails before it has a connection and a request.       *)
THEOREM ForeignIsKept == Spec => ForeignKept
<1>1. ASSUME FlowInv, OwnedInv, [Next]_vars, NEW o \in Objects,
             live[o] = "foreign", live'[o] # "foreign"
      PROVE  transport = "wininet" /\ step \in {"crack", "open", "connect"}
  <2> USE HttpAssumption DEF OwnedInv, InSession, SessionSteps, FlowInv, WinSteps, TypeOK
  <2>1. ~(transport = "curl" /\ step # "idle" /\ \E s \in {"headers", "req"} : held[s] = o)
    BY <1>1
  <2>2. ~(transport = "wininet" /\ WinQueryText
            /\ \E s \in {"internet", "connect", "request"} : held[s] = o)
    BY <1>1 DEF WinQueryText
  <2>3. ASSUME transport = "wininet", WinFails, NEW s \in WinFailCloses, held[s] = o
        PROVE  step \in {"crack", "open", "connect"}
    BY <1>1, <2>3 DEF WinFails, WinFailCloses, WinNulled
  <2>. QED BY <1>1, <2>1, <2>2, <2>3, StepsThatRelease
<1>2. FlowInv /\ OwnedInv /\ [Next]_vars =>
        [\A o \in Objects : live[o] = "foreign" /\ live'[o] # "foreign"
           => transport = "wininet" /\ step \in {"crack", "open", "connect"}]_vars
  BY <1>1
<1>. QED BY <1>2, FlowCorrect, OwnedCorrect, PTL DEF Spec, ForeignKept

-----------------------------------------------------------------------------
(* How many sessions are left open.                                        *)

SessionsOf(f) == {o \in Objects : f[o] = "session"}

SessionsInv ==
  Cardinality(SessionsOf(live)) <= failures + (IF InSession THEN 1 ELSE 0)

LEMMA SessionsFinite ==
  ASSUME NEW f
  PROVE  /\ IsFiniteSet(SessionsOf(f)) /\ Cardinality(SessionsOf(f)) \in Nat
         /\ Cardinality(SessionsOf(f)) <= Cardinality(Objects)
BY HttpAssumption, FS_Subset, FS_CardinalityType DEF SessionsOf

LEMMA FewerSessions ==
  ASSUME NEW f, NEW g, SessionsOf(g) \subseteq SessionsOf(f)
  PROVE  Cardinality(SessionsOf(g)) <= Cardinality(SessionsOf(f))
BY SessionsFinite, FS_Subset

\* Of the steps of Handle only WinOpen adds to the sessions.
LEMMA StepsThatOpen ==
  ASSUME FlowInv, [Next]_vars, ~(transport = "wininet" /\ WinOpen)
  PROVE  SessionsOf(live') \subseteq SessionsOf(live)
<1> USE DEF FlowInv, TypeOK, Acquire, Released, SessionsOf
<1>1. CASE CurlStep
  BY <1>1 DEF CurlStep, CurlAddHeader, CurlInit, CurlSetopt, CurlPerform, CurlFails, CurlStatus, CurlStatusUnread,
              CurlLeave
<1>2. CASE WinStep /\ transport = "wininet"
  BY <1>2 DEF WinStep, WinAddHeader, WinCrackUrl, WinQueryStatus, WinSend, WinConnect,
              WinOpenRequest, WinQueryText, WinFails
<1>3. CASE Call \/ NoneAnswer \/ UNCHANGED vars
  BY <1>3 DEF Call, NoneAnswer, vars
<1>. QED BY <1>1, <1>2, <1>3 DEF Next, HandleStep

LEMMA NextSessionsInv ==
  ASSUME FlowInv, FlowInv', OwnedInv, SessionsInv, [Next]_vars
  PROVE  SessionsInv'
<1> USE DEF SessionsInv, InSession, SessionSteps
<1>0. /\ Cardinality(SessionsOf(live)) \in Nat /\ Cardinality(SessionsOf(live')) \in Nat
      /\ Cardinality(SessionsOf(live')) <= Cardinality(Objects)
      /\ Cardinality(Objects) \in Nat /\ failures \in Nat /\ failures' \in Nat
  BY SessionsFinite, PoolSize, SMT DEF FlowInv, TypeOK
<1>1. CASE transport = "wininet" /\ WinOpen /\ transport' = transport
  <2>1. PICK o \in Objects : live' = [live EXCEPT ![o] = "session"]
    BY <1>1 DEF WinOpen, Acquire
  <2>2. SessionsOf(live') = SessionsOf(live) \union {o}
    BY <2>1 DEF SessionsOf, FlowInv, TypeOK
  <2>3. Cardinality(SessionsOf(live')) <= Cardinality(SessionsOf(live)) + 1
    BY <1>0, <2>2, SessionsFinite, FS_AddElement
  <2>. QED BY <1>0, <1>1, <2>3 DEF WinOpen, WinMoves, outcome
<1>2. CASE transport = "wininet" /\ WinQueryText /\ transport' = transport
  <2>1. SessionsOf(live') \subseteq SessionsOf(live) \ {held["internet"]}
    BY <1>2 DEF WinQueryText, Released, SessionsOf, FlowInv, TypeOK
  <2>2. held["internet"] \in SessionsOf(live)
    BY <1>2 DEF WinQueryText, OwnedInv, SessionsOf
  <2>3. /\ IsFiniteSet(SessionsOf(live) \ {held["internet"]})
        /\ Cardinality(SessionsOf(live) \ {held["internet"]}) = Cardinality(SessionsOf(live)) - 1
    BY <2>2, SessionsFinite, FS_RemoveElement
  <2>4. Cardinality(SessionsOf(live')) <= Cardinality(SessionsOf(live)) - 1
    BY <2>1, <2>3, FS_Subset
  <2>5. failures' = failures /\ step' = "idle" /\ step = "text"
    BY <1>2 DEF WinQueryText, Leave, Response
  <2>. QED BY <1>0, <1>2, <2>4, <2>5
<1>3. CASE transport = "wininet" /\ WinFails /\ transport' = transport
  <2>1. Cardinality(SessionsOf(live')) <= Cardinality(SessionsOf(live))
    BY <1>3, StepsThatOpen, FewerSessions DEF WinFails, WinOpen, WinMoves, Leave
  <2>2. failures' = failures + 1 \/ (failures' = failures /\ ~(failures < Cardinality(Objects)))
    BY <1>3 DEF WinFails, Leave, Thrown
  <2>3. step' = "idle"
    BY <1>3 DEF WinFails, Leave
  <2>. QED BY <1>0, <2>1, <2>2, <2>3
<1>4. CASE transport = "wininet" /\ transport' = transport
             /\ (WinAddHeader \/ WinCrackUrl \/ WinQueryStatus \/ WinSend \/ WinConnect
                   \/ WinOpenRequest)
  <2>1. Cardinality(SessionsOf(live')) <= Cardinality(SessionsOf(live))
    <3>1. ~WinOpen
      BY <1>4 DEF WinOpen, WinMoves, WinAddHeader, WinCrackUrl, WinQueryStatus, WinSend,
                  WinConnect, WinOpenRequest
    <3>. QED BY <3>1, StepsThatOpen, FewerSessions
  <2>2. failures' = failures /\ (InSession' <=> InSession)
    BY <1>4 DEF WinMoves, WinAddHeader, WinCrackUrl, WinQueryStatus, WinSend, WinConnect,
                WinOpenRequest, outcome
  <2>. QED BY <1>0, <2>1, <2>2
<1>5. CASE Call \/ (transport # "wininet" /\ HandleStep) \/ UNCHANGED vars
  <2>1. Cardinality(SessionsOf(live')) <= Cardinality(SessionsOf(live))
    <3>1. ~(transport = "wininet" /\ WinOpen)
      BY <1>5 DEF Call, WinOpen, WinMoves, WinStart, CurlStart, NoneStart, vars
    <3>. QED BY <3>1, StepsThatOpen, FewerSessions
  <2>2. failures' >= failures /\ (InSession' <=> InSession)
    <3>1. CASE Call
      BY <1>0, <3>1 DEF Call, CurlStart, WinStart, NoneStart
    <3>2. CASE transport = "curl" /\ CurlStep /\ transport' = transport
      BY <1>0, <3>2 DEF CurlStep, CurlAddHeader, CurlInit, CurlSetopt, CurlPerform, CurlFails,
                        CurlStatus, CurlStatusUnread, CurlLeave, Leave, outcome
    <3>3. CASE NoneAnswer /\ transport' = transport
      BY <1>0, <1>5, <3>3 DEF NoneAnswer, Leave, Response
    <3>4. CASE UNCHANGED vars
      BY <1>0, <3>4 DEF vars
    <3>. QED BY <1>5, <3>1, <3>2, <3>3, <3>4 DEF HandleStep
  <2>. QED BY <1>0, <2>1, <2>2
<1>. QED BY <1>1, <1>2, <1>3, <1>4, <1>5 DEF Next, HandleStep, WinStep

(* Whatever fails, Handle gives back every list, handle, connection and    *)
(* request, and leaves one session at most, of a WinINet call that failed. *)
THEOREM NothingIsLeftOpen == Spec => []NothingLeftOpen
<1>1. Init => SessionsInv
  <2> SUFFICES ASSUME Init PROVE SessionsInv
    OBVIOUS
  <2>1. SessionsOf(live) = {} /\ failures = 0 /\ ~InSession
    BY DEF Init, SessionsOf, InSession, SessionSteps
  <2>. QED BY <2>1, FS_EmptySet DEF SessionsInv
<1>2. FlowInv /\ OwnedInv /\ SessionsInv => NothingLeftOpen
  <2> SUFFICES ASSUME FlowInv, OwnedInv, SessionsInv, step = "idle" PROVE
        /\ \A o \in Objects : live[o] \in {"free", "foreign", "session"}
        /\ Cardinality(SessionsOf(live)) <= failures
    BY DEF NothingLeftOpen, SessionsOf
  <2>1. \A o \in Objects : live[o] \in {"free", "foreign", "session"}
    BY DEF OwnedInv, OwnedBy, InSession, SessionSteps, FlowInv, TypeOK, Kinds
  <2>2. ~InSession /\ failures \in Nat
    BY PoolSize, SMT DEF InSession, SessionSteps, FlowInv, TypeOK
  <2>. QED BY <2>1, <2>2 DEF SessionsInv
<1>3. FlowInv /\ FlowInv' /\ OwnedInv /\ SessionsInv /\ [Next]_vars => SessionsInv'
  BY NextSessionsInv
<1>. QED BY <1>1, <1>2, <1>3, FlowCorrect, OwnedCorrect, PTL DEF Spec

-----------------------------------------------------------------------------
(* How long Handle takes.                                                  *)

\* More calls of its library than this Handle does not make before it ends.
CallsAhead ==
  CASE step = "idle"              -> 0
    [] step \in {"stub", "text"}  -> 1
    [] step = "status"            -> 2
    [] step = "perform"           -> 3
    [] step = "setopt"            -> 4
    [] step = "headers"           -> 5 + todo
    [] step = "request"           -> 6 + todo
    [] step = "connect"           -> 7 + todo
    [] step = "open"              -> 8 + todo
    [] step = "crack"             -> 9 + todo

LEMMA HandleStepAdvances ==
  ASSUME FlowInv, HandleStep
  PROVE  CallsAhead \in Nat /\ CallsAhead' \in Nat /\ CallsAhead' < CallsAhead
<1>1. todo \in Nat
  BY HttpAssumption, SMT DEF FlowInv, TypeOK
<1>2. CASE CurlStep
  <2>1. CASE CurlAddHeader
    BY <1>1, <2>1, SMT DEF CurlAddHeader, MoreHeaders, CallsAhead
  <2>2. CASE CurlInit \/ CurlSetopt \/ CurlPerform
    BY <1>1, <2>2, SMT DEF CurlInit, CurlSetopt, CurlPerform, CallsAhead
  <2>3. CASE CurlFails \/ CurlStatus \/ CurlStatusUnread
    BY <1>1, <2>3, SMT DEF CurlFails, CurlStatus, CurlStatusUnread, CurlLeave, Leave, CallsAhead
  <2>. QED BY <1>2, <2>1, <2>2, <2>3 DEF CurlStep
<1>3. CASE WinStep
  <2>1. CASE WinAddHeader
    BY <1>1, <2>1, SMT DEF WinAddHeader, MoreHeaders, CallsAhead
  <2>2. CASE WinSend
    BY <1>1, <2>2, SMT DEF WinSend, CallsAhead
  <2>3. CASE WinCrackUrl \/ WinOpen \/ WinConnect \/ WinOpenRequest \/ WinQueryStatus
    BY <1>1, <2>3, SMT
    DEF WinCrackUrl, WinOpen, WinConnect, WinOpenRequest, WinQueryStatus, WinMoves, CallsAhead
  <2>4. CASE WinFails \/ WinQueryText
    BY <1>1, <2>4, SMT DEF WinFails, WinQueryText, Leave, CallsAhead
  <2>. QED BY <1>3, <2>1, <2>2, <2>3, <2>4 DEF WinStep
<1>4. CASE NoneAnswer
  BY <1>4, SMT DEF NoneAnswer, Leave, CallsAhead
<1>. QED BY <1>2, <1>3, <1>4 DEF HandleStep

(* Every step of Handle brings it nearer to its end, of which it is at no  *)
(* time more than HeaderCount + 9 calls away: no loop in it can go round   *)
(* and round.  Whether each of these calls ends is another matter: libcurl *)
(* is given no timeout.                                                    *)
THEOREM HandleIsBounded ==
  Spec => /\ [](CallsAhead \in 0..(HeaderCount + 9) /\ (CallsAhead = 0 <=> step = "idle"))
          /\ [][HandleStep => CallsAhead' < CallsAhead]_vars
<1>1. ASSUME FlowInv
      PROVE  CallsAhead \in 0..(HeaderCount + 9) /\ (CallsAhead = 0 <=> step = "idle")
  <2>1. /\ todo \in Nat /\ HeaderCount \in Nat /\ todo <= HeaderCount
        /\ step \in {"idle", "headers", "setopt", "perform", "status", "stub",
                     "crack", "open", "connect", "request", "text"}
    BY <1>1, HttpAssumption, SMT DEF FlowInv, TypeOK
  <2>2. CASE step \in {"idle", "stub", "text", "status", "perform", "setopt"}
    <3>1. CallsAhead \in 0..4 /\ (CallsAhead = 0 <=> step = "idle")
      BY <2>2, SMT DEF CallsAhead
    <3>. QED BY <2>1, <3>1, SMT
  <2>3. CASE step \in {"headers", "request", "connect", "open", "crack"}
    <3>1. \E n \in 5..9 : CallsAhead = n + todo
      BY <2>1, <2>3, SMT DEF CallsAhead
    <3>. QED BY <2>1, <2>3, <3>1, SMT
  <2>. QED BY <2>1, <2>2, <2>3
<1>2. FlowInv /\ [Next]_vars => [HandleStep => CallsAhead' < CallsAhead]_vars
  BY HandleStepAdvances
<1>. QED BY <1>1, <1>2, FlowCorrect, PTL DEF Spec

=============================================================================
