------------------------------- MODULE Events --------------------------------
(***************************************************************************)
(* The events that Track, Identify, Page, Screen, Alias, Group and         *)
(* PostEvent queue (analytics.cpp).  A call is the name of a function and  *)
(* the arguments it is given, in the order of its parameters.              *)
(***************************************************************************)
EXTENDS JsonValues, Sequences

\* The time createEvent asks TimeStamp for.
Now == JsonString("now")

-----------------------------------------------------------------------------
(* A plausible mistake, used by no definition of the model. *)
addEventStringAlways(ev, name, val) == Put(ev, name, JsonString(val))

-----------------------------------------------------------------------------
createEvent(type) ==
  JsonObject([n \in {"timestamp", "type"} |-> IF n = "timestamp" THEN Now ELSE JsonString(type)])

addEventObject(ev, name, obj) ==
  IF IsObject(obj) THEN Put(ev, name, obj) ELSE Erase(ev, name)

addEventString(ev, name, val) ==
  IF val # "" THEN Put(ev, name, JsonString(val)) ELSE Erase(ev, name)

-----------------------------------------------------------------------------
CreateTrackEvent(event, userId, properties) ==
  LET ev == addEventString(createEvent("track"), "event", event)
  IN  addEventObject(addEventString(ev, "userId", userId), "properties", properties)

CreateAliasEvent(previousId, userId) ==
  LET ev == addEventString(createEvent("alias"), "previousId", previousId)
  IN  addEventString(ev, "userId", userId)

CreateIdentifyEvent(userId, traits) ==
  addEventObject(addEventString(createEvent("identify"), "userId", userId), "traits", traits)

CreateGroupEvent(groupId, traits) ==
  addEventObject(addEventString(createEvent("group"), "groupId", groupId), "traits", traits)

\* CreatePageEvent and CreateScreenEvent.
CreateViewEvent(type, name, userId, properties) ==
  LET ev == addEventString(createEvent(type), "name", name)
  IN  addEventObject(addEventString(ev, "userId", userId), "properties", properties)

-----------------------------------------------------------------------------
\* What the overloads with few parameters call the ones with all of them with.
Completed(fn, a) ==
  CASE fn = "Track" /\ Len(a) = 3 -> <<a[1], "", a[2], a[3], JsonNull, JsonNull>>
    [] fn = "Identify" /\ Len(a) = 2 -> <<a[1], "", a[2], JsonNull, JsonNull>>
    [] fn \in {"Page", "Screen"} /\ Len(a) = 3 -> <<a[1], a[2], "", a[3], JsonNull, JsonNull>>
    [] fn = "Alias" /\ Len(a) = 2 -> <<a[1], a[2], "", JsonNull, JsonNull>>
    [] fn = "Group" /\ Len(a) = 2 -> <<a[1], "", "", a[2], JsonNull, JsonNull>>
    [] OTHER -> a

\* What each of them adds to what it has created.
WithCommon(ev, anonymousId, ownContext, ownIntegrations) ==
  LET named == addEventString(ev, "anonymousId", anonymousId)
  IN  addEventObject(addEventObject(named, "context", ownContext), "integrations", ownIntegrations)

\* The event a call queues; Group does not look at its second argument.
EventOf(call) ==
  LET a  == Completed(call.fn, call.args)
      fn == call.fn
  IN  CASE fn = "Track" -> WithCommon(CreateTrackEvent(a[3], a[1], a[4]), a[2], a[5], a[6])
        [] fn = "Identify" -> WithCommon(CreateIdentifyEvent(a[1], a[3]), a[2], a[4], a[5])
        [] fn = "Page" -> WithCommon(CreateViewEvent("page", a[1], a[2], a[4]), a[3], a[5], a[6])
        [] fn = "Screen" -> WithCommon(CreateViewEvent("screen", a[1], a[2], a[4]), a[3], a[5], a[6])
        [] fn = "Alias" -> WithCommon(CreateAliasEvent(a[1], a[2]), a[3], a[4], a[5])
        [] fn = "Group" -> WithCommon(CreateGroupEvent(a[1], a[4]), a[3], a[5], a[6])
        [] fn = "PostEvent" -> a[1]

=============================================================================
