-------------------------- MODULE RequestProperties -------------------------
(***************************************************************************)
(* What is expected of translateRequest.                                   *)
(***************************************************************************)
EXTENDS RequestTranslation, SequencesExt

\* Who said what, in order: each byte with the role of its author, each call
\* and each result.
Said(role, bytes) == [i \in DOMAIN bytes |-> <<role, bytes[i]>>]

PartContent(role, value) ==
  CASE value.kind = "text"        -> Said(role, value.text)
    [] value.kind = "tool_call"   -> << <<"function_call", value.id>> >>
    [] value.kind = "tool_result" -> << <<"function_call_output", value.id>> >>
    [] value.kind = "extension"   -> << <<"extension">> >>

PartsContent(value, n) ==
  FlattenSeq([j \in 1 .. n |-> PartContent(value.role, value.parts[j])])

ItemContent(item) ==
  IF item.type = "message" THEN Said(item.role, item.text) ELSE << <<item.type, item.id>> >>

ItemsContent(list) == FlattenSeq([i \in DOMAIN list |-> ItemContent(list[i])])

\* The conversation so far: the messages translated and the parts of the next.
Conversation ==
  FlattenSeq([i \in 1 .. at |-> PartsContent(request.messages[i], Len(request.messages[i].parts))])
    \o (IF InMessage THEN PartsContent(message, done) ELSE << >>)

\* While a request is translated, what was said is neither lost, repeated,
\* reordered nor attributed to another role, although texts are buffered and
\* merged: the items and the buffered text are the conversation so far
\* (translatePart, flushText, translateMessages).
ConversationPreserved ==
  phase # "rejected" =>
    Conversation = ItemsContent(items) \o ItemsContent(own)
                     \o (IF InMessage THEN Said(message.role, text) ELSE << >>)

\* The items of a message: one per call or result, one per run of texts.
Runs(value) ==
  {j \in DOMAIN value.parts :
     ~(value.parts[j].kind = "text" /\ j > 1 /\ value.parts[j - 1].kind = "text")}

\* Those of the first n messages.
RunsUpTo(values, n) == UNION {{i} \X Runs(values[i]) : i \in 1 .. n}

ItemCount(values) == Cardinality(RunsUpTo(values, Len(values)))

\* What a role may send.
Sends(role, kind) ==
  \/ kind = "text" /\ role # "tool"
  \/ kind = "tool_call" /\ role = "assistant"
  \/ kind = "tool_result" /\ role = "tool"

Acceptable(value) ==
  /\ value.model
  /\ \A i \in DOMAIN value.messages : \A j \in DOMAIN value.messages[i].parts :
       Sends(value.messages[i].role, value.messages[i].parts[j].kind)
  /\ ItemCount(value.messages) <= MaxInputItems
  /\ \A i \in DOMAIN value.tools : value.tools[i].schema
  /\ ~value.large

\* However the checks are spread over the parts, flushes and messages, a request
\* is refused for its own sake only: exactly when some part does not fit its
\* role, a schema is no object, or it is too large.  An accepted one has an item
\* per call and result and one per run of texts, and allows the declared tools.
AcceptsExactly ==
  /\ phase = "rejected" => ~Acceptable(request)
  /\ phase = "accepted" =>
       /\ Acceptable(request)
       /\ Len(items) = ItemCount(request.messages)
       /\ tools = [i \in DOMAIN request.tools |-> request.tools[i].name]

\* No request the service would refuse: within the cap, no empty message, and
\* nothing but results from a tool.
WellFormedInput ==
  /\ Len(items) <= MaxInputItems
  /\ \A i \in DOMAIN items :
       items[i].type = "message" => items[i].text # << >> /\ items[i].role # "tool"

=============================================================================
