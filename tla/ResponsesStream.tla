-------------------------- MODULE ResponsesStream --------------------------
(***************************************************************************)
(* The stream a Client returns (src/provider.go, type stream): a pump      *)
(* goroutine that owns the SDK source, one Recv caller, and any number of  *)
(* Close callers, which share the operation context, a channel of capacity *)
(* one and the stream's fields.                                            *)
(*                                                                         *)
(* The SDK source (responseSource) is external: it may return any raw      *)
(* event, end cleanly, or end with an error, also after it was closed.     *)
(***************************************************************************)
EXTENDS Translation

CONSTANTS
  Closers,        \* goroutines that call Close, once each
  RawEvents,      \* raw events the source may return
  SourceErrors,   \* errors the source may end with of its own accord
  CloseErrors,    \* errors source.Close may return
  ContextEnds,    \* how contexts may end: canceled, deadline
  MaxEvents       \* bound: raw events the source returns before it ends

ASSUME StreamAssumption ==
  /\ RawEvents \subseteq RawEvent
  /\ SourceErrors \subseteq ErrorValues
  /\ CloseErrors \subseteq ErrorValues
  /\ ContextEnds \subseteq {"canceled", "deadline"}
  /\ MaxEvents \in Nat \ {0}

VARIABLES
  opctx,      \* operation context: "live", or why it ended
  srcClosed,  \* source.Close was called
  pump,       \* program counter of the pump goroutine
  held,       \* the result the pump offers to the channel, if any
  raw,        \* the channel of raw results, capacity 1
  rawClosed,  \* the channel is closed
  buffered,   \* the event Client.Stream prefetched, if not yet taken
  recv,       \* program counter of the Recv caller
  rctx,       \* context of the current Recv call
  result,     \* what the last Recv call returned
  pending,    \* translated events not yet returned
  acc,        \* stream.text and stream.seenCalls
  terminal,   \* stream.terminal
  closed,     \* stream.closed
  once,       \* stream.closeOnce
  closer,     \* program counter per Close caller
  closeErr,   \* stream.closeErr
  produced,   \* history: every result the source returned, in order
  taken,      \* history: how many of them Recv consumed
  delivered   \* history: every event Recv returned, in order

pumpVars  == <<pump, held>>
chanVars  == <<raw, rawClosed>>
recvVars  == <<buffered, recv, rctx, result, pending, acc, terminal, taken, delivered>>
closeVars == <<closed, once, closer, closeErr>>
vars == <<opctx, srcClosed, pumpVars, chanVars, recvVars, closeVars, produced>>

-----------------------------------------------------------------------------
\* rawResult; the zero event with no error is how the pump reports a clean end.
RawResult == [event : RawEvents \cup {Untyped}, err : {Nil, Canceled, Deadline} \cup SourceErrors]
EventResult(event) == [event |-> event, err |-> Nil]
EndResult(err)     == [event |-> Untyped, err |-> err]

\* What Recv returns.  truncated marks endError's "ended before a terminal event".
NoResult           == [is |-> "none"]
EventReturned(e)   == [is |-> "event", event |-> e]
EOF                == [is |-> "eof"]
ContextReturned(c) == [is |-> "context", why |-> c]
ProtocolError      == [is |-> "protocol_error"]
StreamError(code, truncated) == [is |-> "error", code |-> code, truncated |-> truncated]

NormalizedCodes == PlainCodes \cup
  {"stream_ended", "cancelled", "deadline_exceeded", "transport_error", "provider_error", "http_status"}

RecvResult ==
       {NoResult, EOF, ProtocolError}
  \cup [is : {"event"}, event : StreamEvent]
  \cup [is : {"context"}, why : ContextState \ {"live"}]
  \cup [is : {"error"}, code : NormalizedCodes, truncated : BOOLEAN]

Code(err) == NormalizeFailure(err, FALSE).code

TypeOK ==
  /\ opctx \in ContextState
  /\ srcClosed \in BOOLEAN
  /\ pump \in {"next", "offer", "offerEnd", "closeRaw", "closeDone", "done"}
  /\ held \in Seq(RawResult) /\ Len(held) <= 1
  /\ raw \in Seq(RawResult) /\ Len(raw) <= 1
  /\ rawClosed \in BOOLEAN
  /\ buffered \in Seq(RawResult) /\ Len(buffered) <= 1
  /\ recv \in {"idle", "entered", "next"}
  /\ rctx \in ContextState
  /\ result \in RecvResult
  /\ pending \in Seq(StreamEvent)
  /\ acc \in Accumulator
  /\ terminal \in BOOLEAN
  /\ closed \in BOOLEAN
  /\ once \in {"free", "running", "done"}
  /\ closer \in [Closers -> {"idle", "enter", "cancel", "source", "join", "returned"}]
  /\ closeErr \in NormalizedCodes \cup {"none"}
  /\ produced \in Seq(RawResult)
  /\ taken \in Nat
  /\ delivered \in Seq(StreamEvent)

\* The stream Client.Stream hands out after its first successful source.Next.
Init ==
  /\ opctx = "live" /\ srcClosed = FALSE
  /\ pump = "next" /\ held = << >>
  /\ raw = << >> /\ rawClosed = FALSE
  /\ \E event \in RawEvents : buffered = <<EventResult(event)>>
  /\ recv = "idle" /\ rctx = "live" /\ result = NoResult
  /\ pending = << >> /\ acc = [text |-> << >>, seen |-> {}] /\ terminal = FALSE
  /\ closed = FALSE /\ once = "free" /\ closeErr = "none"
  /\ closer = [c \in Closers |-> "idle"]
  /\ produced = buffered /\ taken = 0 /\ delivered = << >>

-----------------------------------------------------------------------------
(* The pump goroutine.                                                      *)

\* source.Next returned true: offer source.Current to the channel.
PumpEvent(event) ==
  /\ pump = "next"
  /\ Len(produced) < MaxEvents
  /\ pump' = "offer"
  /\ held' = <<EventResult(event)>>
  /\ produced' = produced \o held'
  /\ UNCHANGED <<opctx, srcClosed, chanVars, recvVars, closeVars>>

\* source.Next returned false with this source.Err.
PumpEnd(err) ==
  /\ pump = "next"
  /\ err \in {Nil} \cup SourceErrors
           \cup (IF opctx = "live" THEN {} ELSE {ContextError(opctx)})
  /\ pump' = "offerEnd"
  /\ held' = <<EndResult(err)>>
  /\ produced' = produced \o held'
  /\ UNCHANGED <<opctx, srcClosed, chanVars, recvVars, closeVars>>

\* Wrong: a select with a default clause, which drops a result when the channel is full.
PumpSendOrDrop ==
  /\ pump \in {"offer", "offerEnd"}
  /\ raw' = IF raw = << >> THEN held ELSE raw
  /\ held' = << >>
  /\ pump' = IF pump = "offer" THEN "next" ELSE "closeRaw"
  /\ UNCHANGED <<opctx, srcClosed, rawClosed, recvVars, closeVars, produced>>

\* The select chose to send.
PumpSend ==
  /\ pump \in {"offer", "offerEnd"}
  /\ raw = << >>
  /\ raw' = held
  /\ held' = << >>
  /\ pump' = IF pump = "offer" THEN "next" ELSE "closeRaw"
  /\ UNCHANGED <<opctx, srcClosed, rawClosed, recvVars, closeVars, produced>>

\* Wrong: the last result is sent without a select.
PumpAbandonEvent ==
  /\ pump = "offer"
  /\ opctx # "live"
  /\ held' = << >>
  /\ pump' = "closeRaw"
  /\ UNCHANGED <<opctx, srcClosed, chanVars, recvVars, closeVars, produced>>

\* The select chose operationDone: the held result is dropped.
PumpAbandon ==
  /\ pump \in {"offer", "offerEnd"}
  /\ opctx # "live"
  /\ held' = << >>
  /\ pump' = "closeRaw"
  /\ UNCHANGED <<opctx, srcClosed, chanVars, recvVars, closeVars, produced>>

\* The deferred calls, last in first out.
PumpCloseRaw ==
  /\ pump = "closeRaw"
  /\ rawClosed' = TRUE
  /\ pump' = "closeDone"
  /\ UNCHANGED <<opctx, srcClosed, held, raw, recvVars, closeVars, produced>>

PumpCloseDone ==
  /\ pump = "closeDone"
  /\ pump' = "done"
  /\ UNCHANGED <<opctx, srcClosed, held, chanVars, recvVars, closeVars, produced>>

-----------------------------------------------------------------------------
(* Recv.                                                                    *)

\* Wrong: one half of the check that follows.
HasEndedIfClosed   == closed
HasEndedIfTerminal == terminal /\ pending = << >>

\* Closed, or nothing left after the terminal event.
HasEnded == closed \/ (terminal /\ pending = << >>)

\* The first check of Recv, made once per call.
RecvEnter ==
  /\ recv = "idle"
  /\ \/ /\ HasEnded
        /\ result' = EOF
        /\ UNCHANGED <<recv, rctx>>
     \/ /\ ~HasEnded
        /\ recv' = "entered"
        /\ result' = NoResult
        /\ rctx' \in {"live"} \cup ContextEnds
  /\ UNCHANGED <<opctx, srcClosed, pumpVars, chanVars, buffered, pending, acc,
                 terminal, taken, delivered, closeVars, produced>>

Return(value) == recv' = "idle" /\ result' = value

\* Wrong: the events that follow the first are forgotten.
DeliverFirst(events) ==
  /\ Return(EventReturned(Head(events)))
  /\ pending' = << >>
  /\ delivered' = Append(delivered, Head(events))

\* Return the first of the events, keep the others pending.
Deliver(events) ==
  /\ Return(EventReturned(Head(events)))
  /\ pending' = Tail(events)
  /\ delivered' = Append(delivered, Head(events))

\* ctx.Err, then popPending, then the loop of receive.
RecvProceed ==
  /\ recv = "entered"
  /\ \/ /\ rctx # "live"
        /\ Return(ContextReturned(rctx))
        /\ UNCHANGED <<pending, delivered>>
     \/ /\ rctx = "live"
        /\ pending # << >>
        /\ Deliver(pending)
     \/ /\ rctx = "live"
        /\ pending = << >>
        /\ recv' = "next"
        /\ UNCHANGED <<result, pending, delivered>>
  /\ UNCHANGED <<opctx, srcClosed, pumpVars, chanVars, buffered, rctx, acc,
                 terminal, taken, closeVars, produced>>

\* receive: translate one raw event, return its first translated event, or loop.
Receive(event) ==
  LET out  == Translate(event, acc)
      todo == pending \o out.events
  IN  /\ acc' = out.acc
      /\ terminal' = (terminal \/ out.terminal)
      /\ \/ /\ ~out.ok
            /\ Return(ProtocolError)
            /\ UNCHANGED <<pending, delivered>>
         \/ /\ out.ok
            /\ todo # << >>
            /\ Deliver(todo)
         \/ /\ out.ok
            /\ todo = << >>
            /\ UNCHANGED <<recv, result, pending, delivered>>

\* receive after nextRaw failed: the Recv context's own error comes first.
ReceiveError(err, truncated) ==
  /\ Return(IF rctx # "live" THEN ContextReturned(rctx) ELSE StreamError(Code(err), truncated))
  /\ UNCHANGED <<pending, acc, terminal, delivered>>

\* endError, on a stream that has not delivered a terminal event: a clean end is
\* a cancellation if the operation context ended, else a truncation.
ReceiveEnd ==
  IF opctx # "live" THEN ReceiveError(ContextError(opctx), FALSE) ELSE ReceiveError(Other, TRUE)

\* nextRaw: the prefetched event comes before anything from the channel.
RecvBuffered ==
  /\ recv = "next"
  /\ buffered # << >>
  /\ buffered' = << >>
  /\ taken' = taken + 1
  /\ Receive(Head(buffered).event)
  /\ UNCHANGED <<opctx, srcClosed, pumpVars, chanVars, rctx, closeVars, produced>>

\* nextRaw, a case of the select on a context that ended.
RecvDone(context) ==
  /\ recv = "next"
  /\ buffered = << >>
  /\ context # "live"
  /\ ReceiveError(ContextError(context), FALSE)
  /\ UNCHANGED <<opctx, srcClosed, pumpVars, chanVars, buffered, rctx, taken, closeVars, produced>>

RecvOperationDone == RecvDone(opctx)

\* Wrong: Recv waits on the operation's context only.
RecvContextIgnored == RecvDone(opctx)
RecvContextDone    == RecvDone(rctx)

\* nextRaw, case result := <-raw.
RecvRaw ==
  /\ recv = "next"
  /\ buffered = << >>
  /\ raw # << >>
  /\ raw' = << >>
  /\ taken' = taken + 1
  /\ LET got == Head(raw)
     IN  \/ got.err # Nil /\ ReceiveError(got.err, FALSE)
         \/ got.err = Nil /\ got.event = Untyped /\ ReceiveEnd
         \/ got.err = Nil /\ got.event # Untyped /\ Receive(got.event)
  /\ UNCHANGED <<opctx, srcClosed, pumpVars, rawClosed, buffered, rctx, closeVars, produced>>

\* nextRaw, the same case once the channel is closed and drained.
RecvRawClosed ==
  /\ recv = "next"
  /\ buffered = << >>
  /\ raw = << >> /\ rawClosed
  /\ ReceiveEnd
  /\ UNCHANGED <<opctx, srcClosed, pumpVars, chanVars, buffered, rctx, taken, closeVars, produced>>

-----------------------------------------------------------------------------
(* Close.                                                                   *)

CloseCall(c) ==
  /\ closer[c] = "idle"
  /\ closer' = [closer EXCEPT ![c] = "enter"]
  /\ UNCHANGED <<opctx, srcClosed, pumpVars, chanVars, recvVars, closed, once, closeErr, produced>>

\* closeOnce runs the function for the first caller; it first marks the stream closed.
CloseFirst(c) ==
  /\ closer[c] = "enter"
  /\ once = "free"
  /\ once' = "running"
  /\ closed' = TRUE
  /\ closer' = [closer EXCEPT ![c] = "cancel"]
  /\ UNCHANGED <<opctx, srcClosed, pumpVars, chanVars, recvVars, closeErr, produced>>

\* Wrong: the source is closed without ending the operation.
CloseCancelNothing(c) ==
  /\ closer[c] = "cancel"
  /\ closer' = [closer EXCEPT ![c] = "source"]
  /\ UNCHANGED <<opctx, srcClosed, pumpVars, chanVars, recvVars, closed, once, closeErr, produced>>

\* cancel() ends the operation context unless something already did.
CloseCancel(c) ==
  /\ closer[c] = "cancel"
  /\ opctx' = IF opctx = "live" THEN "canceled" ELSE opctx
  /\ closer' = [closer EXCEPT ![c] = "source"]
  /\ UNCHANGED <<srcClosed, pumpVars, chanVars, recvVars, closed, once, closeErr, produced>>

CloseSource(c) ==
  /\ closer[c] = "source"
  /\ srcClosed' = TRUE
  /\ \E err \in {Nil} \cup CloseErrors :
       closeErr' = IF err = Nil THEN "none" ELSE Code(err)
  /\ closer' = [closer EXCEPT ![c] = "join"]
  /\ UNCHANGED <<opctx, pumpVars, chanVars, recvVars, closed, once, produced>>

\* <-pumpDone, and the end of closeOnce.Do for the caller that ran it.
CloseJoin(c) ==
  /\ closer[c] = "join"
  /\ pump = "done"
  /\ once' = "done"
  /\ closer' = [closer EXCEPT ![c] = "returned"]
  /\ UNCHANGED <<opctx, srcClosed, pumpVars, chanVars, recvVars, closed, closeErr, produced>>

\* Wrong: a flag instead of sync.Once lets the other callers return at once.
CloseSkip(c) ==
  /\ closer[c] = "enter"
  /\ once # "free"
  /\ closer' = [closer EXCEPT ![c] = "returned"]
  /\ UNCHANGED <<opctx, srcClosed, pumpVars, chanVars, recvVars, closed, once, closeErr, produced>>

\* closeOnce.Do makes every other caller wait for the first.
CloseWait(c) ==
  /\ closer[c] = "enter"
  /\ once = "done"
  /\ closer' = [closer EXCEPT ![c] = "returned"]
  /\ UNCHANGED <<opctx, srcClosed, pumpVars, chanVars, recvVars, closed, once, closeErr, produced>>

-----------------------------------------------------------------------------
(* The environment: the parent of the operation context and the context of  *)
(* a Recv call in progress may end at any time.                             *)

OperationEnds ==
  /\ opctx = "live"
  /\ opctx' \in ContextEnds
  /\ UNCHANGED <<srcClosed, pumpVars, chanVars, recvVars, closeVars, produced>>

RecvContextEnds ==
  /\ recv # "idle"
  /\ rctx = "live"
  /\ rctx' \in ContextEnds
  /\ UNCHANGED <<opctx, srcClosed, pumpVars, chanVars, buffered, recv, result, pending,
                 acc, terminal, taken, delivered, closeVars, produced>>

-----------------------------------------------------------------------------
SourceReturns ==
  \/ \E event \in RawEvents : PumpEvent(event)
  \/ \E err \in {Nil, Canceled, Deadline} \cup SourceErrors : PumpEnd(err)

PumpStep == PumpSend \/ PumpAbandon \/ PumpCloseRaw \/ PumpCloseDone

RecvStep ==
  \/ RecvProceed \/ RecvBuffered \/ RecvContextDone
  \/ RecvOperationDone \/ RecvRaw \/ RecvRawClosed

CloseStep(c) ==
  CloseFirst(c) \/ CloseCancel(c) \/ CloseSource(c) \/ CloseJoin(c) \/ CloseWait(c)

Next ==
  \/ SourceReturns
  \/ PumpStep
  \/ RecvEnter
  \/ RecvStep
  \/ \E c \in Closers : CloseCall(c) \/ CloseStep(c)
  \/ OperationEnds
  \/ RecvContextEnds

Spec == Init /\ [][Next]_vars

=============================================================================
