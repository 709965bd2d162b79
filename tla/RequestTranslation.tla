------------------------- MODULE RequestTranslation -------------------------
(***************************************************************************)
(* translateRequest (src/provider.go): the messages and tools of a         *)
(* model.Request become the input items and function tools of one          *)
(* Responses request.  Each step translates a part, ends a message, or     *)
(* translates a tool; any of them may refuse the whole request.            *)
(*                                                                         *)
(* A call's or result's ID stands for all that is copied with it.          *)
(***************************************************************************)
EXTENDS Integers, Sequences, FiniteSets

CONSTANTS
  Byte,           \* the bytes of a text
  CallIDs,        \* identities of tool calls and results
  ToolNames,      \* names of tool definitions
  Requests,       \* the requests to translate
  MaxInputItems   \* maxTranslatedInputItems

Roles == {"system", "user", "assistant", "tool"}

\* What message.New lets through: a text part is not empty.
Part ==
       [kind : {"text"}, text : Seq(Byte) \ {<< >>}]
  \cup [kind : {"tool_call", "tool_result"}, id : CallIDs]
  \cup [kind : {"extension"}]

Message == [role : Roles, parts : Seq(Part)]

\* schema: the input schema is a JSON object; large: the encoded request would
\* exceed maxTranslatedRequestBytes.  A zero request has no model.
Definition == [name : ToolNames, schema : BOOLEAN]
Request == [model : BOOLEAN, messages : Seq(Message), tools : Seq(Definition), large : BOOLEAN]

ASSUME RequestAssumption == Requests \subseteq Request /\ MaxInputItems \in Nat

InputItem ==
       [type : {"message"}, role : Roles, text : Seq(Byte)]
  \cup [type : {"function_call", "function_call_output"}, id : CallIDs]

VARIABLES
  request,  \* the request being translated
  phase,    \* "start", "messages", "tools", "accepted" or "rejected"
  at,       \* messages translated
  done,     \* parts of the next message translated
  text,     \* translator.text
  own,      \* translator.items
  items,    \* items of the messages translated
  tools     \* names of the tools translated; as a set, allowedTools

translator == <<at, done, text, own>>
vars == <<request, phase, translator, items, tools>>

TypeOK ==
  /\ request \in Request
  /\ phase \in {"start", "messages", "tools", "accepted", "rejected"}
  /\ at \in 0 .. Len(request.messages)
  /\ done \in Nat
  /\ text \in Seq(Byte)
  /\ own \in Seq(InputItem) /\ items \in Seq(InputItem)
  /\ tools \in Seq(ToolNames) /\ Len(tools) <= Len(request.tools)

Init ==
  /\ request \in Requests
  /\ phase = "start" /\ at = 0 /\ done = 0 /\ text = << >>
  /\ own = << >> /\ items = << >> /\ tools = << >>

-----------------------------------------------------------------------------
Reject == phase' = "rejected" /\ UNCHANGED <<request, translator, items, tools>>

Begin ==
  /\ phase = "start"
  /\ \/ ~request.model /\ Reject
     \/ /\ request.model
        /\ phase' = "messages"
        /\ UNCHANGED <<request, translator, items, tools>>

InMessage == phase = "messages" /\ at < Len(request.messages)
message   == request.messages[at + 1]
InPart    == InMessage /\ done < Len(message.parts)
part      == message.parts[done + 1]

\* flushText: buffered text becomes an item of its own, unless a tool wrote it.
CanAlwaysFlush == TRUE   \* wrong: any role may write text
CanFlush == text = << >> \/ message.role # "tool"

Flushed ==
  IF text = << >> THEN own
  ELSE Append(own, [type |-> "message", role |-> message.role, text |-> text])

TextPart ==
  /\ InPart /\ part.kind = "text"
  /\ text' = text \o part.text
  /\ done' = done + 1
  /\ UNCHANGED <<request, phase, at, own, items, tools>>

\* A call or a result, which one role may send.
Structured(kind, role, type) ==
  /\ InPart /\ part.kind = kind
  /\ \/ ~(message.role = role /\ CanFlush) /\ Reject
     \/ /\ message.role = role /\ CanFlush
        /\ own' = Append(Flushed, [type |-> type, id |-> part.id])
        /\ text' = << >>
        /\ done' = done + 1
        /\ UNCHANGED <<request, phase, at, items, tools>>

CallPart   == Structured("tool_call", "assistant", "function_call")
ResultPart == Structured("tool_result", "tool", "function_call_output")

ExtensionPart == InPart /\ part.kind = "extension" /\ Reject

\* Wrong: the cap is checked before the items are counted.
FitsBefore == Len(items) < MaxInputItems
Fits       == Len(Flushed) <= MaxInputItems - Len(items)

\* Wrong: the last text of a message is not flushed.
ForgetsText ==
  /\ InMessage /\ done = Len(message.parts)
  /\ \/ ~Fits /\ Reject
     \/ /\ Fits
        /\ items' = items \o own
        /\ at' = at + 1 /\ done' = 0 /\ text' = << >> /\ own' = << >>
        /\ UNCHANGED <<request, phase, tools>>

\* translateMessage flushes what is left; translateMessages counts the items.
EndMessage ==
  /\ InMessage /\ done = Len(message.parts)
  /\ \/ ~(CanFlush /\ Fits) /\ Reject
     \/ /\ CanFlush /\ Fits
        /\ items' = items \o Flushed
        /\ at' = at + 1 /\ done' = 0 /\ text' = << >> /\ own' = << >>
        /\ UNCHANGED <<request, phase, tools>>

EndMessages ==
  /\ phase = "messages" /\ at = Len(request.messages)
  /\ phase' = "tools"
  /\ UNCHANGED <<request, translator, items, tools>>

TranslateTool ==
  /\ phase = "tools" /\ Len(tools) < Len(request.tools)
  /\ LET definition == request.tools[Len(tools) + 1]
     IN  \/ ~definition.schema /\ Reject
         \/ /\ definition.schema
            /\ tools' = Append(tools, definition.name)
            /\ UNCHANGED <<request, phase, translator, items>>

\* The encoded request is measured last.
Finish ==
  /\ phase = "tools" /\ Len(tools) = Len(request.tools)
  /\ phase' = IF request.large THEN "rejected" ELSE "accepted"
  /\ UNCHANGED <<request, translator, items, tools>>

Next ==
  \/ Begin \/ TextPart \/ CallPart \/ ResultPart \/ ExtensionPart
  \/ EndMessage \/ EndMessages \/ TranslateTool \/ Finish

Spec == Init /\ [][Next]_vars

=============================================================================
