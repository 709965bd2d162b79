---------------------------- MODULE Translation ----------------------------
(***************************************************************************)
(* How one raw Responses event becomes model stream events: the translate  *)
(* methods of src/provider.go, as operators.  A translation reads and      *)
(* updates an accumulator, the two fields of the stream struct that outlive *)
(* an event: the text streamed so far and the tool-call IDs seen so far.   *)
(*                                                                         *)
(* Recursion is written with recursive functions, so that theorems can be  *)
(* stated about these definitions.                                         *)
(***************************************************************************)
EXTENDS Failure, Integers, Sequences, FiniteSets

CONSTANTS
  Byte,            \* the bytes of a text
  Continuation,    \* bytes b with b & 0xc0 = 0x80: inside a UTF-8 character
  ChunkBytes,      \* translatedTextChunkBytes
  MaxText,         \* model.MaximumOperationTextBytes
  MaxOutputItems,  \* maxResponseOutputItems
  MaxCalls,        \* model.MaximumOperationToolCalls
  ToolNames,       \* names a response may call
  AllowedTools,    \* names the request declared
  CallIDs          \* tool-call identities a response may use

ASSUME LimitsAssumption ==
  /\ Continuation \subseteq Byte
  /\ ChunkBytes \in Nat \ {0}
  /\ MaxText \in Nat /\ MaxOutputItems \in Nat /\ MaxCalls \in Nat
  /\ AllowedTools \subseteq ToolNames

-----------------------------------------------------------------------------
(* Raw events: what the AsAny switches of translate and translateOutput     *)
(* tell apart.  A message item carries the concatenation of its text and    *)
(* refusal parts; supported is FALSE when it has a part of another type.    *)
(* valid says whether tool.NewCall accepts the call's ID, name, arguments.  *)

Text == Seq(Byte)

MessageItem == [type : {"message"}, text : Text, supported : BOOLEAN]
CallItem    == [type : {"function_call"}, id : CallIDs, name : ToolNames, valid : BOOLEAN]
PlainItem   == [type : {"reasoning", "hosted"}]   \* hosted: any type not handled
OutputItem  == MessageItem \cup CallItem \cup PlainItem

DeltaRaw     == [type : {"delta"}, text : Text]   \* output text or refusal
CompletedRaw == [type : {"completed"}, output : Seq(OutputItem), usage : Int]
FailedRaw    == [type : {"failed", "incomplete", "error"}, code : WireCodes]
IgnoredRaw   == [type : {"ignored"}]              \* a type AsAny maps to no case
Untyped      == [type |-> ""]                     \* the zero event
RawEvent     == DeltaRaw \cup CompletedRaw \cup FailedRaw \cup IgnoredRaw \cup {Untyped}

(* Events of the model contract (model.StreamEvent).                        *)
TextDelta(text) == [kind |-> "text_delta", text |-> text]
ToolCall(item)  == [kind |-> "tool_call", id |-> item.id, name |-> item.name]
Completed(use)  == [kind |-> "completed", usage |-> use]
Failed(code)    == [kind |-> "failed", code |-> code]

FailureCodes == PlainCodes \cup {"provider_error", "response_incomplete"}

StreamEvent ==
       [kind : {"text_delta"}, text : Text]
  \cup [kind : {"tool_call"}, id : CallIDs, name : ToolNames]
  \cup [kind : {"completed"}, usage : Int]
  \cup [kind : {"failed"}, code : FailureCodes]

IsTerminal(event) == event.kind \in {"completed", "failed"}

Accumulator == [text : Text, seen : SUBSET CallIDs]

-----------------------------------------------------------------------------
(* textEvents: text in chunks of at most ChunkBytes, cut on a character     *)
(* boundary when one lies within the chunk.                                 *)

\* A cut after `end` bytes splits no character.
Boundary(text, end) == end = Len(text) \/ text[end + 1] \notin Continuation

\* Wrong: any cut will do.
ChunkEndsAnywhere(text, start) ==
  {end \in start + 1 .. start + ChunkBytes : end <= Len(text)}

ChunkEnds(text, start) ==
  {end \in start + 1 .. start + ChunkBytes : end <= Len(text) /\ Boundary(text, end)}

\* Where the chunk that begins after `start` bytes ends.
ChunkEnd(text, start) ==
  LET ends == ChunkEnds(text, start)
  IN  IF ends # {}
      THEN CHOOSE end \in ends : \A other \in ends : other <= end
      ELSE IF start + ChunkBytes < Len(text) THEN start + ChunkBytes ELSE Len(text)

\* The end of the k-th chunk; after the last one, Len(text).
Cuts(text) ==
  LET cut[k \in Nat] == IF k = 0 THEN 0 ELSE ChunkEnd(text, cut[k - 1])
  IN  cut

ChunkCount(text) == Cardinality({k \in 1 .. Len(text) : Cuts(text)[k - 1] < Len(text)})

TextEvents(text) ==
  [k \in 1 .. ChunkCount(text) |->
     TextDelta(SubSeq(text, Cuts(text)[k - 1] + 1, Cuts(text)[k]))]

-----------------------------------------------------------------------------
Accept(events, terminal, acc) ==
  [ok |-> TRUE, terminal |-> terminal, events |-> events, acc |-> acc]

\* The caller drops the events of a rejected event, but not what the
\* translation already wrote to the stream's fields.
Reject(acc) == [ok |-> FALSE, terminal |-> FALSE, events |-> << >>, acc |-> acc]

\* translateText
TranslateText(text, acc) ==
  IF text = << >> \/ Len(acc.text) + Len(text) > MaxText
  THEN Reject(acc)
  ELSE Accept(TextEvents(text), FALSE, [acc EXCEPT !.text = @ \o text])

\* Wrong: a call ID may be used twice.
AcceptsCallAgain(scan, item) ==
  /\ Len(scan.calls) < MaxCalls
  /\ item.name \in AllowedTools
  /\ item.valid

\* translateFunctionCall: the checks before a finalized call becomes an event.
AcceptsCall(scan, item) ==
  /\ Len(scan.calls) < MaxCalls
  /\ item.name \in AllowedTools
  /\ item.id \notin scan.seen
  /\ item.valid

\* translateOutput: one output item after the items already scanned.
ScanItem(scan, item) ==
  CASE item.type = "message" /\ item.supported ->
         [scan EXCEPT !.text = @ \o item.text]
    [] item.type = "reasoning" -> scan
    [] item.type = "function_call" /\ AcceptsCall(scan, item) ->
         [scan EXCEPT !.calls = Append(@, ToolCall(item)), !.seen = @ \cup {item.id}]
    [] OTHER -> [scan EXCEPT !.ok = FALSE]

\* The loop over response.Output, which stops at the first rejected item.
Scan(output, seen) ==
  LET scan[n \in 0 .. Len(output)] ==
        IF n = 0 THEN [ok |-> TRUE, text |-> << >>, calls |-> << >>, seen |-> seen]
        ELSE LET before == scan[n - 1]
             IN  IF before.ok THEN ScanItem(before, output[n]) ELSE before
  IN  scan[Len(output)]

IsTextPrefix(part, text) ==
  Len(part) <= Len(text) /\ part = SubSeq(text, 1, Len(part))

\* Wrong: the final text is only checked for its length.
ReconcilesLength(observed, scan) ==
  /\ scan.ok
  /\ Len(scan.text) \in Len(observed) .. MaxText

\* The response was scanned to its end and its text continues what was streamed.
Reconciles(observed, scan) ==
  /\ scan.ok
  /\ Len(scan.text) <= MaxText
  /\ IsTextPrefix(observed, scan.text)

\* translateCompleted.  Missing text is appended to the accumulator before
\* the usage is checked; call IDs are recorded while items are scanned.
TranslateCompleted(output, usage, acc) ==
  LET scan    == Scan(output, acc.seen)
      missing == SubSeq(scan.text, Len(acc.text) + 1, Len(scan.text))
      scanned == [acc EXCEPT !.seen = scan.seen]
      merged  == [scanned EXCEPT !.text = scan.text]
  IN  IF Len(output) > MaxOutputItems THEN Reject(acc)
      ELSE IF ~Reconciles(acc.text, scan) THEN Reject(scanned)
      ELSE IF usage < 0 THEN Reject(merged)
      ELSE Accept(TextEvents(missing) \o scan.calls \o <<Completed(usage)>>, TRUE, merged)

\* translate
Translate(raw, acc) ==
  CASE raw.type = "delta"      -> TranslateText(raw.text, acc)
    [] raw.type = "completed"  -> TranslateCompleted(raw.output, raw.usage, acc)
    [] raw.type = "incomplete" -> Accept(<<Failed("response_incomplete")>>, TRUE, acc)
    [] raw.type \in {"failed", "error"} -> Accept(<<Failed(SafeCode(raw.code))>>, TRUE, acc)
    [] raw.type \in {"ignored", ""} -> Accept(<< >>, FALSE, acc)

=============================================================================
