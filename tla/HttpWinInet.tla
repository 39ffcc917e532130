----------------------------- MODULE HttpWinInet -----------------------------
(***************************************************************************)
(* HandlerWinInet::Handle (http-wininet.cpp).  Its three handles have no   *)
(* initialiser: until they are assigned they hold whatever the stack did.  *)
(***************************************************************************)
EXTENDS Http

-----------------------------------------------------------------------------
(* A plausible mistake, used by no definition of the model. *)
WinNulledSessionOnly == IF step = "open" THEN {"internet"} ELSE {}

-----------------------------------------------------------------------------
WinStart ==
  /\ \E junk \in [{"internet", "connect", "request"} -> Objects \union {Null}] :
       held' = [s \in Slots |-> IF s \in DOMAIN junk THEN junk[s] ELSE Null]
  /\ step' = "crack"

WinMoves(from, to) ==
  /\ step = from /\ step' = to
  /\ UNCHANGED <<todo, exchange, outcome>>

WinCrackUrl == WinMoves("crack", "open") /\ UNCHANGED <<held, live>>

WinOpen == WinMoves("open", "connect") /\ Acquire("internet", "session")

WinConnect == WinMoves("connect", "request") /\ Acquire("connect", "connection")

WinOpenRequest == WinMoves("request", "headers") /\ Acquire("request", "request")

WinAddHeader ==
  /\ step = "headers" /\ MoreHeaders
  /\ todo' = todo - 1
  /\ UNCHANGED <<step, held, live, exchange, outcome>>

WinSend ==
  /\ step = "headers" /\ ~MoreHeaders
  /\ step' = "status"
  /\ Transfer
  /\ UNCHANGED <<todo, held, live, outcome>>

WinQueryStatus == answer # 0 /\ WinMoves("status", "text") /\ UNCHANGED <<held, live>>

\* The status text came too: close all three and return.
WinQueryText ==
  /\ step = "text"
  /\ live' = Released({"internet", "connect", "request"})
  /\ Leave(Response(answer))
  /\ UNCHANGED unread

\* The handle that a failing call should have opened is NULL by then.
WinNulled ==
  CASE step = "open"    -> {"internet"}
    [] step = "connect" -> {"connect"}
    [] step = "request" -> {"request"}
    [] OTHER            -> {}

\* `fail` closes the request and the connection; its `if (internet = NULL)` closes nothing.
WinFailCloses == {"request", "connect"} \ WinNulled

\* Any call may fail, to the one for the status text.
WinFails ==
  /\ step \in {"crack", "open", "connect", "request", "headers", "status", "text"}
  /\ live' = Released(WinFailCloses)
  /\ Leave(Thrown(0))
  /\ UNCHANGED unread

WinStep ==
  \/ WinCrackUrl \/ WinOpen \/ WinConnect \/ WinOpenRequest \/ WinAddHeader
  \/ WinSend \/ WinQueryStatus \/ WinQueryText \/ WinFails

=============================================================================
