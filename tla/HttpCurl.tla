------------------------------ MODULE HttpCurl -------------------------------
(***************************************************************************)
(* HandlerCurl::Handle (http-curl.cpp).  Each step is a call of libcurl    *)
(* that may fail; the curlReq on the stack gives back what it holds        *)
(* however Handle is left.                                                 *)
(***************************************************************************)
EXTENDS Http

-----------------------------------------------------------------------------
(* Plausible mistakes, used by no definition of the model. *)
CurlFreesHeadersOnly   == {"headers"}
CurlTakesAnySuccess(c) == IF c = 0 \/ c > 299 THEN Thrown(c) ELSE Response(200)
CurlThrowsFrom200(c)   == IF c = 0 \/ c > 199 THEN Thrown(c) ELSE Response(c)

-----------------------------------------------------------------------------
\* ~curlReq.
CurlFrees == {"headers", "req"}

CurlLeave(r) == Leave(r) /\ live' = Released(CurlFrees)

CurlStart ==
  /\ held' = [s \in Slots |-> Null]
  /\ step' = "headers"

\* curl_slist_append extends the list, or starts one; if it fails the list is unharmed.
CurlAddHeader ==
  /\ step = "headers" /\ MoreHeaders
  /\ todo' = todo - 1
  /\ IF held["headers"] = Null THEN Acquire("headers", "slist") ELSE UNCHANGED <<held, live>>
  /\ UNCHANGED <<step, exchange, outcome>>

CurlInit ==
  /\ step = "headers" /\ ~MoreHeaders
  /\ Acquire("req", "easy")
  /\ step' = "setopt"
  /\ UNCHANGED <<todo, exchange, outcome>>

CurlSetopt ==
  /\ step = "setopt" /\ step' = "perform"
  /\ UNCHANGED <<todo, held, live, exchange, outcome>>

CurlPerform ==
  /\ step = "perform" /\ step' = "status"
  /\ Transfer
  /\ UNCHANGED <<todo, held, live, outcome>>

\* No memory, at any step, or an option libcurl does not know.
CurlFails ==
  /\ step \in {"headers", "setopt", "status"}
  /\ CurlLeave(Thrown(0))
  /\ UNCHANGED unread

\* The status decides, also when the transfer broke off after it.
CurlVerdict(c) == IF c = 0 \/ c > 299 THEN Thrown(c) ELSE Response(c)

CurlStatus ==
  /\ step = "status"
  /\ CurlLeave(CurlVerdict(answer))
  /\ UNCHANGED unread

\* Any other failure to get the status goes unnoticed.  The verdict is then on `code` as the
\* stack held it, a long, and any int that is made of it may be returned or thrown.
CurlStatusUnread ==
  /\ step = "status"
  /\ \E code \in Ints : CurlLeave(Response(code)) \/ CurlLeave(Thrown(code))
  /\ unread' = TRUE

CurlStep ==
  \/ CurlAddHeader \/ CurlInit \/ CurlSetopt \/ CurlPerform
  \/ CurlFails \/ CurlStatus \/ CurlStatusUnread

=============================================================================
