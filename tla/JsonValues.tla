----------------------------- MODULE JsonValues ------------------------------
(***************************************************************************)
(* The values of nlohmann::json (json.hpp) as far as the library looks at  *)
(* them: null, objects, strings, and whatever is none of these.            *)
(***************************************************************************)
EXTENDS TLC

JsonNull      == [type |-> "null"]
JsonOther     == [type |-> "array"]
JsonString(s) == [type |-> "string", value |-> s]
JsonObject(m) == [type |-> "object", members |-> m]

IsObject(j) == j.type = "object"

\* operator[] of anything else throws.
Indexable(j) == j.type \in {"object", "null"}

Members(j) == IF IsObject(j) THEN DOMAIN j.members ELSE {}

\* An assignment through operator[].
Put(j, name, value) ==
  JsonObject([n \in Members(j) \union {name} |-> IF n = name THEN value ELSE j.members[n]])

\* operator[] on a value that is not const: null becomes an object, what is missing null.
Indexed(j, name) == IF name \in Members(j) THEN j ELSE Put(j, name, JsonNull)

At(j, name) == Indexed(j, name).members[name]

Erase(j, name) == JsonObject([n \in Members(j) \ {name} |-> j.members[n]])

=============================================================================
