-------------------------- MODULE StreamProperties --------------------------
(***************************************************************************)
(* What is expected of the stream of ResponsesStream: safety invariants,   *)
(* action properties, the model.Stream contract it implements, and what    *)
(* must eventually happen.                                                 *)
(***************************************************************************)
EXTENDS ResponsesStream, SequencesExt

(* ------------------------------ the pipeline ---------------------------- *)

InFlight == buffered \o raw \o held

\* Between the source and Recv (source.Next, the pump's select, the channel,
\* the prefetched event) results are neither lost, duplicated nor reordered:
\* those Recv has not consumed are in flight, in the order the source returned
\* them.  Only the pump's select on operationDone may drop one, the last, and
\* only after the operation context ended.
PipelineIntegrity ==
  /\ taken <= Len(produced)
  /\ \/ SubSeq(produced, taken + 1, Len(produced)) = InFlight
     \/ /\ opctx # "live"
        /\ pump \in {"closeRaw", "closeDone", "done"}
        /\ Len(produced) > taken
        /\ SubSeq(produced, taken + 1, Len(produced) - 1) = InFlight

\* A result that carries a raw event: the prefetched one, or a typed one.
CarriesEvent(results, i) == i = 1 \/ (results[i].err = Nil /\ results[i].event # Untyped)

\* A single goroutine that translates result after result: the events so far,
\* the accumulator, and whether a raw event was rejected.
ReplayStart == [events |-> << >>, acc |-> [text |-> << >>, seen |-> {}], rejected |-> FALSE]

ReplayStep(results, i, before) ==
  LET out == Translate(results[i].event, before.acc)
  IN  IF ~CarriesEvent(results, i) THEN before
      ELSE [events   |-> before.events \o out.events,
            acc      |-> out.acc,
            rejected |-> before.rejected \/ ~out.ok]

\* What it has after the first n results.
Replay(results, n) ==
  LET replay[i \in 0 .. n] ==
        IF i = 0 THEN ReplayStart ELSE ReplayStep(results, i, replay[i - 1])
  IN  replay[n]

Translated == delivered \o pending

\* However Recv, the pump and Close interleave, and wherever Recv calls fail in
\* between, the events returned and still pending are those of a sequential
\* translation of the results Recv consumed (receive, popPending).
SequentialEquivalence ==
  LET replay == Replay(produced, taken)
  IN  Translated = replay.events /\ acc = replay.acc

(* --------------------------- terminal events ---------------------------- *)

HasTerminal(events) == \E i \in 1 .. Len(events) : IsTerminal(events[i])

\* No event but the last is terminal; ended says whether the last one is.
EndsOnce(events, ended) ==
  /\ \A i \in 1 .. Len(events) - 1 : ~IsTerminal(events[i])
  /\ ended <=> HasTerminal(events)

\* A stream has at most one terminal event; it is the last event, and the
\* stream's terminal flag is set exactly while it is pending or delivered.
TerminalIsLast == EndsOnce(Translated, terminal)

\* No tool call becomes executable unless its whole response was accepted: the
\* calls come with the completed event that follows them, their IDs are distinct
\* and their tools declared (translateCompleted, translateFunctionCall).
CallsOnlyWithCompletion ==
  LET calls == {i \in DOMAIN Translated : Translated[i].kind = "tool_call"}
  IN  calls # {} =>
        /\ Translated[Len(Translated)].kind = "completed"
        /\ Cardinality(calls) <= MaxCalls
        /\ \A i \in calls : Translated[i].name \in AllowedTools
        /\ \A i, j \in calls : Translated[i].id = Translated[j].id => i = j

DeltaText(events) ==
  FlattenSeq([i \in DOMAIN events |->
                IF events[i].kind = "text_delta" THEN events[i].text ELSE << >>])

ResponseText(output) ==
  FlattenSeq([i \in DOMAIN output |->
                IF output[i].type = "message" THEN output[i].text ELSE << >>])

CompletedText ==
  (terminal /\ Translated[Len(Translated)].kind = "completed") =>
    DeltaText(Translated) = ResponseText(produced[taken].event.output)

\* A completed stream delivers the text of the completed response: the deltas,
\* plus what the response adds to them, unless an earlier raw event was rejected.
TextReconciled == Replay(produced, taken).rejected \/ CompletedText

\* ARCHITECTURE.md:18-19: inconsistent final text fails closed; a stream that
\* completes has delivered the final text of its response.
InconsistentTextFailsClosed == CompletedText

\* A text of whole characters: one begins it, and where each ends, as the size its
\* first byte announces says, the next begins or the text ends.
CharacterAt(text, i) ==
  i = Len(text) + 1 \/ (i \in 1 .. Len(text) /\ text[i] \notin Continuation)

WholeText(text, size) ==
  /\ CharacterAt(text, 1)
  /\ \A i \in 1 .. Len(text) :
       text[i] \notin Continuation => CharacterAt(text, i + size[text[i]])

\* What the JSON decoder makes of a response is UTF-8: its texts are whole.
WholeEvent(event, size) ==
  /\ event.type = "delta" => WholeText(event.text, size)
  /\ event.type = "completed" =>
       \A i \in 1 .. Len(event.output) :
         event.output[i].type = "message" => WholeText(event.output[i].text, size)

\* A delta fits in a chunk and starts a character, so that with texts that are
\* valid UTF-8 no consumer is handed part of a character (textEvents).
DeltasKeepCharacters ==
  \A i \in DOMAIN Translated :
    Translated[i].kind = "text_delta" =>
      /\ Len(Translated[i].text) \in 1 .. ChunkBytes
      /\ Translated[i].text[1] \notin Continuation

(* ------------------------------- lifecycle ------------------------------ *)

\* How the goroutines stand to each other: the deferred calls of the pump, the
\* owner of closeOnce, and Recv, which asks for a raw event only when nothing is
\* pending and the stream has not ended (so endError never sees a terminal
\* stream).  Strengthens the invariants below to an inductive one.
PumpLifecycle ==
  /\ rawClosed <=> pump \in {"closeDone", "done"}
  /\ held # << >> <=> pump \in {"offer", "offerEnd"}

CloseLifecycle ==
  /\ closed <=> once # "free"
  /\ srcClosed => opctx # "live"
  /\ once = "done" => srcClosed /\ pump = "done"
  /\ \A c \in Closers :
       /\ closer[c] \in {"cancel", "source", "join"} => once = "running"
       /\ closer[c] \in {"source", "join"} => opctx # "live"
       /\ closer[c] = "join" => srcClosed
       /\ closer[c] = "returned" => once = "done"
  /\ \A c, d \in Closers :
       closer[c] \in {"cancel", "source", "join"} /\ closer[d] \in {"cancel", "source", "join"}
         => c = d

RecvLifecycle ==
  /\ recv \in {"entered", "next"} => ~(terminal /\ pending = << >>)
  /\ recv = "next" => pending = << >>

Lifecycle == PumpLifecycle /\ CloseLifecycle /\ RecvLifecycle

(* -------------------------------- Close --------------------------------- *)

\* Once any Close call returned, the operation is cancelled, the source closed
\* and the pump gone: nothing reads the source any more (Close, pump).
CloseJoinsPump ==
  (\E c \in Closers : closer[c] = "returned") =>
    opctx # "live" /\ srcClosed /\ pump = "done" /\ rawClosed /\ held = << >>

\* A Recv racing with Close never reports the end that Close itself caused as a
\* stream that ended before its terminal event: once the source is closed, a
\* clean end is a cancellation (Close cancels before it closes the source).
CloseNeverLooksLikeTruncation ==
  [][srcClosed /\ recv # "idle" /\ recv' = "idle"
       => ~(result'.is = "error" /\ result'.truncated)]_vars

\* The stream implements the contract of model.Stream: every step maps to a step
\* of ModelStream or to a stutter.
Contract == INSTANCE ModelStream WITH
  Event         <- StreamEvent,
  TerminalEvent <- {event \in StreamEvent : IsTerminal(event)},
  closing       <- closed,
  busy          <- recv # "idle",
  outcome       <- result.is

ImplementsModelStream == Contract!Spec

(* ------------------------------- liveness ------------------------------- *)

\* A source is cooperative when Next returns once its context ended or it was
\* closed (ARCHITECTURE.md:36-39); nothing else is assumed of the network.
CooperativeReturn == (opctx # "live" \/ srcClosed) /\ SourceReturns

\* Goroutines keep running, and a select whose case stays ready takes it in the
\* end; nobody is forced to call Recv or Close, or to end a context.
Fairness ==
  /\ WF_vars(CooperativeReturn)
  /\ WF_vars(PumpSend) /\ WF_vars(PumpAbandon)
  /\ WF_vars(PumpCloseRaw) /\ WF_vars(PumpCloseDone)
  /\ WF_vars(RecvProceed) /\ WF_vars(RecvBuffered) /\ WF_vars(RecvContextDone)
  /\ WF_vars(RecvOperationDone) /\ WF_vars(RecvRaw) /\ WF_vars(RecvRawClosed)
  /\ \A c \in Closers : WF_vars(CloseStep(c))

FairSpec == Spec /\ Fairness

\* Every Close call returns: the first because the pump always ends, the others
\* because the first does.
CloseReturns == \A c \in Closers : closer[c] = "enter" ~> closer[c] = "returned"

\* The pump does not outlive its operation, even if nobody receives or closes.
PumpExits == opctx # "live" ~> pump = "done"

\* A Recv call whose own context or whose operation ended returns.
RecvReturns == (recv # "idle" /\ (rctx # "live" \/ opctx # "live")) ~> recv = "idle"

=============================================================================
