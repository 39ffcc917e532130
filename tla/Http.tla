-------------------------------- MODULE Http ---------------------------------
(***************************************************************************)
(* What the transports have in common: one call of Handle at a time, what  *)
(* the server made of it, and the objects that libcurl or WinINet hand out *)
(* and want back.  `held` are the local variables that point to them.      *)
(***************************************************************************)
EXTENDS Integers, FiniteSets

CONSTANTS
  Codes,        \* the HTTP status codes a server sends
  Ints,         \* the values of an int
  Objects,      \* the lists and handles the library can have open at once
  Null,         \* no object
  HeaderCount   \* the headers of a request

ASSUME HttpAssumption ==
  /\ Codes \subseteq Nat \ {0} /\ 200 \in Codes
  /\ Codes \union {0} \subseteq Ints /\ Ints \subseteq Int
  /\ IsFiniteSet(Objects) /\ Null \notin Objects
  /\ HeaderCount \in Nat

VARIABLES
  step,      \* how far Handle has come
  todo,      \* headers still to be added
  held,      \* the pointers of this call
  live,      \* what each object is in use for
  answer,    \* the status the server sent for this call, 0 if none
  taken,     \* the server has accepted what this call posted
  result,    \* what the last Handle returned or threw
  unread,    \* its code is not the status, which it could not read
  failures   \* calls that threw, counted up to the size of the pool

exchange == <<answer, taken>>
outcome  == <<result, unread, failures>>

Slots == {"headers", "req", "internet", "connect", "request"}

\* An object of kind "foreign" is another party's.
Kinds == {"free", "foreign", "slist", "easy", "session", "connection", "request"}

NoResult    == [kind |-> "none", code |-> 0]
Response(c) == [kind |-> "response", code |-> c]
Thrown(c)   == [kind |-> "exception", code |-> c]  \* code 0 if it tells of none

-----------------------------------------------------------------------------
(* A plausible mistake, used by no definition of the model. *)
MoreHeadersOffByOne == todo >= 0

-----------------------------------------------------------------------------
MoreHeaders == todo > 0

Acquire(slot, kind) ==
  \E o \in Objects :
    /\ live[o] = "free"
    /\ live' = [live EXCEPT ![o] = kind]
    /\ held' = [held EXCEPT ![slot] = o]

\* The library takes an object back; of Null, and of one that is not open, nothing becomes.
Released(slots) ==
  [o \in Objects |-> IF \E s \in slots : held[s] = o THEN "free" ELSE live[o]]

\* The one exchange with the server, as far as it got.
Transfer ==
  /\ answer' \in Codes \union {0}
  /\ taken' \in BOOLEAN
  /\ answer' = 200 => taken'

\* Handle returns or throws; of what it goes by, each way out says for itself.
Leave(r) ==
  /\ step' = "idle"
  /\ result' = r
  /\ failures' = IF r.kind = "exception" /\ failures < Cardinality(Objects)
                 THEN failures + 1 ELSE failures
  /\ held' = [s \in Slots |-> Null]
  /\ UNCHANGED <<todo, exchange>>

=============================================================================
