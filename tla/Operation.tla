----------------------------- MODULE Operation -----------------------------
(***************************************************************************)
(* One operation of a Client from the call of Stream to the Close of the   *)
(* stream: ProviderStart, then ResponsesStream on what it hands over.      *)
(*                                                                         *)
(* They share the operation context and, through the response body, the    *)
(* context of the last attempt: the SDK leaves the attempt's timeout with  *)
(* the body, so it goes on to bound the stream (requestconfig.go:665-676). *)
(* So does the Timeout of an HTTP client, which the default one has too.    *)
(*                                                                         *)
(* Until phase is "streaming" there is no stream, and the variables of     *)
(* ResponsesStream stand as newly made.                                    *)
(***************************************************************************)
EXTENDS ResponsesStream

CONSTANTS MaxRetries, Responses

VARIABLES
  phase, attctx, attempts, answer, timedOut, open, handed,
  sourceErr, operationErr, failure, callerEnd

Start == INSTANCE ProviderStart

startVars  == <<phase, attempts, answer, handed, sourceErr, operationErr, failure>>
streamVars == <<srcClosed, pumpVars, chanVars, recvVars, closeVars, produced>>
bodyVars   == <<attctx, timedOut, open, callerEnd>>
operationVars == <<vars, startVars, bodyVars>>

\* A context that has already ended ends in the first step.
OperationInit == Start!Init /\ Init

-----------------------------------------------------------------------------
Starting == Start!Next /\ UNCHANGED streamVars

OnStream(Action) == phase = "streaming" /\ Action /\ UNCHANGED startVars

CallerEndsStream ==
  /\ OnStream(OperationEnds)
  /\ callerEnd' = opctx' /\ attctx' = Start!End(attctx, opctx')
  /\ UNCHANGED <<timedOut, open>>

\* Wrong: the timeout covers the response's headers only.
NoBodyTimeout == FALSE

\* Wrong: the timeout closes the source behind the stream's back.
TimeoutClosesSource ==
  /\ phase = "streaming" /\ attctx = "live"
  /\ attctx' = "deadline" /\ srcClosed' = TRUE
  /\ UNCHANGED <<opctx, pumpVars, chanVars, recvVars, closeVars, produced, startVars, timedOut, open, callerEnd>>

\* The timeout of the attempt that got the response.
BodyTimesOut ==
  /\ phase = "streaming" /\ attctx = "live"
  /\ attctx' = "deadline"
  /\ UNCHANGED <<vars, startVars, timedOut, open, callerEnd>>

\* The timeout of the HTTP client, over the whole exchange.
ClientTimesOut ==
  /\ phase = "streaming" /\ ~timedOut
  /\ timedOut' = TRUE
  /\ UNCHANGED <<vars, startVars, attctx, open, callerEnd>>

\* source.Next reads the body under the attempt's context and the client's timeout.
ReadBody ==
  /\ \/ \E event \in RawEvents : OnStream(PumpEvent(event))
     \/ \E err \in {Nil} \cup Start!TransportErrors : OnStream(PumpEnd(err))
  /\ UNCHANGED bodyVars

CancelStream(c) ==
  /\ OnStream(CloseCancel(c))
  /\ attctx' = Start!End(attctx, opctx')
  /\ UNCHANGED <<timedOut, open, callerEnd>>

\* Wrong: the body is not closed with the source.
CloseSourceOnly(c) == OnStream(CloseSource(c)) /\ UNCHANGED bodyVars

\* source.Close closes the body and stops the attempt's timeout.
CloseBody(c) ==
  /\ OnStream(CloseSource(c))
  /\ open' = open \ {attempts} /\ attctx' = Start!End(attctx, "canceled")
  /\ UNCHANGED <<timedOut, callerEnd>>

Pump    == OnStream(PumpStep) /\ UNCHANGED bodyVars
Recv    == OnStream(RecvStep) /\ UNCHANGED bodyVars
Call    == OnStream(RecvEnter \/ RecvContextEnds \/ \E c \in Closers : CloseCall(c)) /\ UNCHANGED bodyVars
Rest(c) == OnStream(CloseFirst(c) \/ CloseJoin(c) \/ CloseWait(c)) /\ UNCHANGED bodyVars

Streaming ==
  \/ CallerEndsStream \/ BodyTimesOut \/ ClientTimesOut \/ ReadBody \/ Pump \/ Recv \/ Call
  \/ \E c \in Closers : CancelStream(c) \/ CloseBody(c) \/ Rest(c)

OperationNext == Starting \/ Streaming

OperationSpec == OperationInit /\ [][OperationNext]_operationVars

\* The goroutines run, the timeout comes, and a read of the body returns once
\* the attempt's context has ended.  The server may stay silent forever, and
\* nobody need call Close.
FairOperation ==
  /\ OperationSpec
  /\ WF_operationVars(BodyTimesOut)
  /\ WF_operationVars(attctx # "live" /\ ReadBody)
  /\ WF_operationVars(Pump)
  /\ WF_operationVars(Recv)

-----------------------------------------------------------------------------
\* Whatever hits an operation, its host is told why: the code "cancelled" means
\* that the caller or Close cancelled it, "deadline_exceeded" that its deadline, the
\* attempt's timeout or one of the HTTP client's came, and a stream is called
\* truncated only after its source ended.
EndExplained ==
  /\ failure.cause = "canceled" => callerEnd = "canceled"
  /\ failure.cause = "deadline" => attctx = "deadline" \/ timedOut
  /\ result.is = "error" =>
       /\ result.code = "cancelled" => callerEnd = "canceled" \/ closed
       /\ result.code = "deadline_exceeded" => attctx = "deadline" \/ timedOut
       /\ result.truncated => \E i \in 1 .. Len(produced) : produced[i].event = Untyped

\* When Close returned, an operation leaves nothing behind: both contexts have
\* ended, their timers with them, every body is closed and the pump gone.  When the
\* start has failed, at most a response that came too late is still open, under a
\* context that has ended.
NothingLeft ==
  /\ phase = "failed" /\ attempts > 0 =>
       /\ opctx # "live" /\ attctx # "live"
       /\ open # {} => sourceErr = ContextError(attctx)
  /\ once = "done" => opctx # "live" /\ attctx # "live" /\ open = {} /\ pump = "done"

\* At most one response is open at any time, that of the last attempt, and none
\* while a request or a delay is waited for.  Execute has it, or the source, which
\* then is not closed; if neither has, the context it came under has ended.
BodyHasOwner ==
  /\ open # {} =>
       /\ open = {attempts} /\ phase \notin {"called", "sent", "backoff"}
       /\ \/ phase = "answered"
          \/ handed /\ phase # "failed" /\ ~srcClosed
          \/ ~handed /\ attctx # "live"
  /\ opctx # "live" => attctx # "live"

\* A Recv returns although the server is silent, the caller's contexts never end
\* and nobody closes the stream: the timeout of the attempt wakes it.
RecvAlwaysReturns == phase = "streaming" /\ recv # "idle" ~> recv = "idle"

\* What was handed over is a stream of ResponsesStream, with all that holds of one.
StreamIsResponsesStream == Spec

=============================================================================
