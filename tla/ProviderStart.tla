---------------------------- MODULE ProviderStart ----------------------------
(***************************************************************************)
(* Client.Stream (src/provider.go): one operation from the call until it   *)
(* has a stream to return or has failed, with the attempts of the SDK's    *)
(* request (requestconfig.Execute) that it starts.  The caller's context   *)
(* may end at any time; every attempt has a context of its own, which the  *)
(* configured timeout bounds.                                              *)
(***************************************************************************)
EXTENDS Failure

CONSTANTS
  MaxRetries,    \* Config.MaxRetries
  Responses,     \* HTTP responses the server may answer with
  ContextEnds    \* how the caller's context may end

ASSUME StartAssumption ==
  /\ MaxRetries \in 0 .. 8
  /\ Responses \subseteq [status : 100 .. 599, advice : {"none", "true", "false"}, code : WireCodes]
  /\ ContextEnds \subseteq {"canceled", "deadline"}

VARIABLES
  phase,         \* where Stream is
  opctx,         \* the operation context, derived from the caller's
  attctx,        \* the context of the last attempt, derived from opctx
  attempts,      \* requests sent
  answer,        \* what the last attempt got
  timedOut,      \* a timeout of the HTTP client or its dialer hit the last attempt
  open,          \* the attempts whose response has an open body
  handed,        \* the source was given the last response
  sourceErr,     \* source.Err() after source.Next() returned false
  operationErr,  \* the operation context as Stream read it then
  failure,       \* the failure Stream returned
  callerEnd      \* history: how the caller's context ended, if it did

attemptVars == <<attctx, attempts, answer, timedOut>>
bodyVars    == <<open, handed>>
errorVars   == <<sourceErr, operationErr, failure>>
vars == <<phase, opctx, attemptVars, bodyVars, errorVars, callerEnd>>

-----------------------------------------------------------------------------
\* No response: the transport failed.
NoAnswer == [status |-> 0, advice |-> "none", code |-> ""]

NoFailure == FailureOf("", "nil")

Phases == {"called", "sent", "answered", "backoff", "reading", "first",
           "sourceFailed", "cancel", "close", "failed", "streaming"}

\* Refusals carry no cause; the others are normalized.
StartCodes == PlainCodes \cup
  {"", "provider_unavailable", "invalid_request", "stream_ended", "cancelled",
   "deadline_exceeded", "transport_error", "provider_error", "http_status"}

TypeOK ==
  /\ phase \in Phases
  /\ opctx \in ContextState /\ attctx \in ContextState
  /\ attempts \in 0 .. MaxRetries + 1
  /\ answer \in Responses \cup {NoAnswer}
  /\ timedOut \in BOOLEAN
  /\ open \subseteq 1 .. MaxRetries + 1 /\ handed \in BOOLEAN
  /\ sourceErr \in ErrorValues \cup {Nil}
  /\ operationErr \in ContextState
  /\ failure \in [code : StartCodes, status : Statuses, retryable : BOOLEAN,
                  cause : {"nil", "canceled", "deadline"}]
  /\ callerEnd \in ContextState

Init ==
  /\ phase = "called"
  /\ opctx \in {"live"} \cup ContextEnds /\ attctx = opctx /\ callerEnd = opctx
  /\ attempts = 0 /\ answer = NoAnswer /\ timedOut = FALSE
  /\ open = {} /\ handed = FALSE
  /\ sourceErr = Nil /\ operationErr = "live" /\ failure = NoFailure

-----------------------------------------------------------------------------
\* Ending a context ends those derived from it that still live.
End(state, how) == IF state = "live" THEN how ELSE state

Fail(value) == phase' = "failed" /\ failure' = value

\* No client or context, or a request that cannot be translated.
Refuse ==
  /\ phase = "called"
  /\ \E code \in {"provider_unavailable", "invalid_request"} : Fail(FailureOf(code, "nil"))
  /\ UNCHANGED <<opctx, attemptVars, bodyVars, sourceErr, operationErr, callerEnd>>

\* The starter returned no source.
SourceMissing ==
  /\ phase = "called"
  /\ opctx' = End(opctx, "canceled") /\ attctx' = End(attctx, "canceled")
  /\ Fail(FailureOf("provider_unavailable", "nil"))
  /\ UNCHANGED <<attempts, answer, timedOut, bodyVars, sourceErr, operationErr, callerEnd>>

\* Execute sends a request under a fresh attempt context.
Send ==
  /\ phase' = "sent"
  /\ attempts' = attempts + 1
  /\ attctx' = opctx /\ timedOut' = FALSE
  /\ UNCHANGED <<opctx, answer, bodyVars, errorVars, callerEnd>>

FirstAttempt == phase = "called" /\ Send

\* The transport returned: a response, whose body is open, or an error.
Answered(got) ==
  /\ phase = "sent"
  /\ phase' = "answered"
  /\ answer' = got
  /\ open' = IF got = NoAnswer THEN open ELSE open \cup {attempts}
  /\ UNCHANGED <<opctx, attctx, attempts, timedOut, handed, errorVars, callerEnd>>

\* source.Next() is false, and source.Err() is err.
SourceFails(err) ==
  /\ phase' = "sourceFailed"
  /\ sourceErr' = err
  /\ UNCHANGED <<opctx, attemptVars, operationErr, failure, callerEnd>>

\* What a transport may fail with: an error of its own, the attempt's context, or
\* a timeout of the client or its dialer, which errors.Is takes for a deadline.
TransportErrors ==
  {Other} \cup (IF timedOut THEN {Deadline} ELSE {})
          \cup (IF attctx = "live" THEN {} ELSE {ContextError(attctx)})

\* The SDK could not build the request.
NotSent == phase = "called" /\ SourceFails(Other) /\ UNCHANGED bodyVars

\* The attempt's context is checked before anything the attempt returned: also a
\* response, which stays open and never gets to the source.
AttemptEnded ==
  /\ phase = "answered"
  /\ attctx # "live"
  /\ SourceFails(ContextError(attctx))
  /\ UNCHANGED bodyVars

\* Wrong: one retry too few.
ExhaustedEarly == attempts >= MaxRetries
Exhausted      == attempts > MaxRetries

\* shouldRetry: no response, or what the server advises, or its status.
ShouldRetry ==
  \/ answer = NoAnswer
  \/ answer.advice = "true"
  \/ answer.advice = "none" /\ RetryableStatus(answer.status)

\* Wrong: the response is dropped without being closed.
RetryLeavesBody ==
  /\ phase = "answered" /\ attctx = "live"
  /\ ShouldRetry /\ ~Exhausted
  /\ phase' = "backoff"
  /\ UNCHANGED <<opctx, attemptVars, bodyVars, errorVars, callerEnd>>

\* The response is closed before the delay.
Retry ==
  /\ phase = "answered" /\ attctx = "live"
  /\ ShouldRetry /\ ~Exhausted
  /\ phase' = "backoff"
  /\ open' = open \ {attempts}
  /\ UNCHANGED <<opctx, attemptVars, handed, errorVars, callerEnd>>

\* The retry delay has passed.
NextAttempt == phase = "backoff" /\ Send

\* The attempt that failed still bounds the delay that follows it.
BackoffEnded ==
  /\ phase = "backoff"
  /\ attctx # "live"
  /\ SourceFails(ContextError(attctx))
  /\ UNCHANGED bodyVars

\* The last attempt stands and the source gets its response: none, an error
\* response, or a stream.
Conclude ==
  /\ phase = "answered" /\ attctx = "live"
  /\ ~ShouldRetry \/ Exhausted
  /\ handed' = TRUE /\ UNCHANGED open
  /\ \/ /\ answer = NoAnswer
        /\ \E err \in TransportErrors : SourceFails(err)
     \/ /\ answer # NoAnswer
        /\ phase' = IF answer.status >= 400 THEN "reading" ELSE "first"
        /\ UNCHANGED <<opctx, attemptVars, errorVars, callerEnd>>

\* The error body is read, closed and decoded, unless that fails.
ReadErrorBody ==
  /\ phase = "reading"
  /\ open' = open \ {attempts} /\ UNCHANGED handed
  /\ \/ SourceFails([kind |-> "api", code |-> answer.code, status |-> answer.status])
     \/ \E err \in TransportErrors : SourceFails(err)

\* source.Next() read a first event: Stream returns a stream.
FirstEvent ==
  /\ phase = "first"
  /\ phase' = "streaming"
  /\ UNCHANGED <<opctx, attemptVars, bodyVars, errorVars, callerEnd>>

\* The response ended, broke off or held no event.
FirstFails ==
  /\ phase = "first"
  /\ \E err \in {Nil} \cup TransportErrors : SourceFails(err)
  /\ UNCHANGED bodyVars

-----------------------------------------------------------------------------
\* Wrong: the operation context is read after Stream cancelled it.
ReadOperationErrLate ==
  /\ phase = "sourceFailed"
  /\ operationErr' = End(opctx, "canceled")
  /\ phase' = "cancel"
  /\ UNCHANGED <<opctx, attemptVars, bodyVars, sourceErr, failure, callerEnd>>

ReadOperationErr ==
  /\ phase = "sourceFailed"
  /\ operationErr' = opctx
  /\ phase' = "cancel"
  /\ UNCHANGED <<opctx, attemptVars, bodyVars, sourceErr, failure, callerEnd>>

Cancel ==
  /\ phase = "cancel"
  /\ opctx' = End(opctx, "canceled") /\ attctx' = End(attctx, "canceled")
  /\ phase' = "close"
  /\ UNCHANGED <<attempts, answer, timedOut, bodyVars, errorVars, callerEnd>>

\* What the failure is about: the operation context, else the source, else its
\* Close, which does not report the cancellation itself.
Cause(closeErr) ==
  IF operationErr # "live" THEN ContextError(operationErr)
  ELSE IF sourceErr # Nil THEN sourceErr
  ELSE closeErr

\* Wrong: the source is left open.
FailOnly ==
  /\ phase = "close"
  /\ Fail(NormalizeFailure(Cause(Nil), TRUE))
  /\ UNCHANGED <<opctx, attemptVars, bodyVars, sourceErr, operationErr, callerEnd>>

\* The source closes the response it was given.
CloseAndFail ==
  /\ phase = "close"
  /\ open' = IF handed THEN open \ {attempts} ELSE open
  /\ \E closeErr \in {Nil, Other} : Fail(NormalizeFailure(Cause(closeErr), TRUE))
  /\ UNCHANGED <<opctx, attemptVars, handed, sourceErr, operationErr, callerEnd>>

-----------------------------------------------------------------------------
CallerEnds ==
  /\ callerEnd = "live"
  /\ phase \notin {"failed", "streaming"}
  /\ callerEnd' \in ContextEnds
  /\ opctx' = End(opctx, callerEnd') /\ attctx' = End(attctx, callerEnd')
  /\ UNCHANGED <<phase, attempts, answer, timedOut, bodyVars, errorVars>>

\* Wrong: no timeout is configured.
NoAttemptTimeout == FALSE

\* The configured timeout of the attempt.
AttemptTimesOut ==
  /\ phase \in {"sent", "answered", "backoff", "reading", "first"}
  /\ attctx = "live"
  /\ attctx' = "deadline"
  /\ UNCHANGED <<phase, opctx, attempts, answer, timedOut, bodyVars, errorVars, callerEnd>>

\* A timeout of the HTTP client's own: of its dialer, or over the whole exchange.
ClientTimesOut ==
  /\ phase \in {"sent", "reading", "first"}
  /\ ~timedOut /\ timedOut' = TRUE
  /\ UNCHANGED <<phase, opctx, attctx, attempts, answer, bodyVars, errorVars, callerEnd>>

Transport == \E got \in Responses \cup {NoAnswer} : Answered(got)

Body == ReadErrorBody \/ FirstEvent \/ FirstFails

StreamCall ==
  \/ Refuse \/ SourceMissing \/ FirstAttempt \/ NotSent
  \/ AttemptEnded \/ Retry \/ NextAttempt \/ BackoffEnded \/ Conclude
  \/ ReadOperationErr \/ Cancel \/ CloseAndFail

Next == StreamCall \/ Transport \/ Body \/ CallerEnds \/ AttemptTimesOut \/ ClientTimesOut

Spec == Init /\ [][Next]_vars

\* Stream runs, its attempts time out, and a transport that honours contexts
\* returns once the attempt's context ended.
FairSpec ==
  /\ Spec
  /\ WF_vars(StreamCall)
  /\ WF_vars(AttemptTimesOut)
  /\ WF_vars(attctx # "live" /\ (Transport \/ Body))

-----------------------------------------------------------------------------
\* A failure is declared retryable only if nothing was streamed and the server
\* itself rejected the last attempt with a retryable status, and only after the
\* SDK has no retry left or was told not to retry: the host's retries and the
\* SDK's do not multiply, and a caller that ended the operation is not retried.
RetryableIsSafe ==
  failure.retryable =>
    /\ open = {}
    /\ operationErr = "live"
    /\ answer # NoAnswer /\ RetryableStatus(answer.status)
    /\ attempts > MaxRetries \/ answer.advice = "false"

\* A start is reported as cancelled only if the caller cancelled it, never
\* because Stream cancelled the operation while it cleaned up.
CancelledOnlyByCaller ==
  failure.cause = "canceled" => callerEnd = "canceled"

\* A failed start leaves no context behind, and of all its attempts' responses at
\* most the last: one that came when its context had already ended.  That one no
\* one closes; its release is up to the transport, which the context has told.
\* A started stream gets the one open response and the operation context, untouched.
ReleasesOrHandsOver ==
  /\ phase = "failed" /\ attempts > 0 =>
       /\ opctx # "live" /\ attctx # "live"
       /\ open # {} => open = {attempts} /\ sourceErr = ContextError(attctx)
  /\ phase = "streaming" => opctx = callerEnd /\ handed /\ open = {attempts}

\* dependency-review.md:53-56: startup attempts are bounded, and ambiguous or
\* partial streams are never replayed: no request follows a successful response.
NeverReplaysStream ==
  [][attempts' > attempts => answer.status \notin 100 .. 399]_vars

\* Stream returns: a stream or a failure.
StartReturns == phase = "called" ~> phase \in {"failed", "streaming"}

=============================================================================
