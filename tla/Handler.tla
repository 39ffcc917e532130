------------------------------- MODULE Handler -------------------------------
(***************************************************************************)
(* What sendBatch may count on of an http::Handler (http.hpp), whichever   *)
(* transport is compiled in or assigned: Handle is one exchange with the   *)
(* server at most, and ends with a Response or an exception that does not  *)
(* claim another answer than the server's, unless the transport could not  *)
(* read that and did not notice.                                           *)
(***************************************************************************)
EXTENDS Naturals

CONSTANTS
  Codes,   \* the HTTP status codes a server sends, 200 among them
  Ints     \* the values of an int, the codes and 0 among them

VARIABLES
  busy,     \* Handle has been called and has not returned
  answer,   \* the status the server sent for this call, 0 if none
  taken,    \* the server has accepted what this call posted
  result,   \* what the last Handle returned or threw
  unread    \* its code is nobody's answer

vars == <<busy, answer, taken, result, unread>>

NoResult    == [kind |-> "none", code |-> 0]
Response(c) == [kind |-> "response", code |-> c]
Thrown(c)   == [kind |-> "exception", code |-> c]  \* code 0 if it tells of none

Results == [kind : {"none", "response", "exception"}, code : Ints]

TypeOK ==
  /\ busy \in BOOLEAN /\ taken \in BOOLEAN /\ unread \in BOOLEAN
  /\ answer \in Codes \union {0}
  /\ result \in Results

Init == busy = FALSE /\ answer = 0 /\ taken = FALSE /\ result = NoResult /\ unread = FALSE

Call ==
  /\ ~busy
  /\ busy' = TRUE /\ answer' = 0 /\ taken' = FALSE /\ result' = NoResult /\ unread' = FALSE

\* The request may get through with its answer lost; a server says 200 of what it took.
Exchange ==
  /\ busy /\ answer = 0
  /\ answer' \in Codes \union {0}
  /\ taken' \in BOOLEAN
  /\ taken \/ answer' = 200 => taken'
  /\ UNCHANGED <<busy, result, unread>>

Finish ==
  /\ busy /\ busy' = FALSE
  /\ \/ result' = Response(answer)
     \/ \E c \in {0, answer} \ {200} : result' = Thrown(c)
  /\ UNCHANGED <<answer, taken, unread>>

\* The same when the status is lost on the way and any code stands in for it.
FinishUnread ==
  /\ busy /\ busy' = FALSE
  /\ \E c \in Ints : result' \in {Response(c), Thrown(c)}
  /\ unread' = TRUE
  /\ UNCHANGED <<answer, taken>>

Next == Call \/ Exchange \/ Finish \/ FinishUnread

Spec == Init /\ [][Next]_vars

=============================================================================
