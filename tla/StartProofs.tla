----------------------------- MODULE StartProofs -----------------------------
(***************************************************************************)
(* Safety of Client.Stream for every number of retries, every set of       *)
(* responses and every way the caller's context may end.                   *)
(***************************************************************************)
EXTENDS ProviderStart, TLAPS

\* Before Stream cancels its operation context, it is the caller's.
Unwinding == phase \in {"close", "failed"}

\* What each phase knows; strengthens the properties to an inductive invariant.
ContextsFollow ==
  /\ ~Unwinding => opctx = callerEnd
  /\ ~Unwinding /\ attctx = "canceled" => callerEnd = "canceled"
  /\ operationErr = "canceled" => callerEnd = "canceled"
  /\ sourceErr = Canceled => callerEnd = "canceled"
  /\ phase = "close" => opctx # "live"
  /\ opctx # "live" => attctx # "live"

\* An open body is the last attempt's.  Once source.Next() is false, the source
\* has it, unless the attempt's context ended first.
BodyFollows ==
  /\ open \subseteq {attempts}
  /\ phase \in {"called", "sent", "backoff"} => open = {}
  /\ phase \in {"reading", "first", "streaming"} => handed
  /\ phase = "answered" /\ answer # NoAnswer => open = {attempts}
  /\ phase \in {"first", "streaming"} => open = {attempts}
  /\ open # {} /\ phase \in {"sourceFailed", "cancel", "close", "failed"} =>
       handed \/ (attctx # "live" /\ sourceErr = ContextError(attctx))
  /\ phase = "failed" /\ handed => open = {}
  /\ sourceErr.kind = "api" => open = {}

CallFollows ==
  /\ phase = "called" => attempts = 0
  /\ phase = "sent" => attempts > 0
  /\ phase # "failed" => ~failure.retryable /\ failure.cause = "nil"

AnswerStands == answer # NoAnswer /\ (~ShouldRetry \/ Exhausted)

AnswerFollows ==
  /\ phase = "reading" => AnswerStands /\ answer.status >= 400
  /\ sourceErr.kind = "api" =>
       AnswerStands /\ sourceErr.status = answer.status /\ answer.status >= 400
  /\ phase = "backoff" => ~Exhausted
  /\ sourceErr # Nil => phase \in {"sourceFailed", "cancel", "close", "failed"}

StartInvariant ==
  /\ TypeOK
  /\ ContextsFollow /\ BodyFollows /\ CallFollows /\ AnswerFollows
  /\ RetryableIsSafe /\ CancelledOnlyByCaller /\ ReleasesOrHandsOver

-----------------------------------------------------------------------------
(* What the failure of Stream says of its cause.                            *)

LEMMA ErrorKinds ==
  ASSUME NEW err \in ErrorValues \cup {Nil}
  PROVE  /\ err.kind \in {"nil", "canceled", "deadline", "other", "api"}
         /\ err.kind = "nil" => err = Nil
         /\ err.kind = "canceled" => err = Canceled
         /\ err.kind = "api" => err \in ApiErrors
<1>1. /\ Nil.kind = "nil" /\ Canceled.kind = "canceled"
      /\ Deadline.kind = "deadline" /\ Other.kind = "other"
  BY DEF Nil, Canceled, Deadline, Other
<1>2. \A apiErr \in ApiErrors : apiErr.kind = "api"
  BY DEF ApiErrors
<1>3. err \in ApiErrors \/ err = Nil \/ err = Canceled \/ err = Deadline \/ err = Other
  BY DEF ErrorValues
<1> QED BY <1>1, <1>2, <1>3

FailureRecord == [code : StartCodes, status : Statuses, retryable : BOOLEAN,
                  cause : {"nil", "canceled", "deadline"}]

LEMMA PlainFailure ==
  ASSUME NEW code \in StartCodes, NEW cause \in {"nil", "canceled", "deadline"}
  PROVE  /\ FailureOf(code, cause) \in FailureRecord
         /\ FailureOf(code, cause).cause = cause
         /\ ~FailureOf(code, cause).retryable
BY DEF FailureRecord, FailureOf, Statuses

LEMMA NormalizedFacts ==
  ASSUME NEW err \in ErrorValues \cup {Nil}
  PROVE  /\ NormalizeFailure(err, TRUE) \in FailureRecord
         /\ NormalizeFailure(err, TRUE).cause = "canceled" => err = Canceled
         /\ NormalizeFailure(err, TRUE).retryable => err.kind = "api" /\ RetryableStatus(err.status)
<1>1. CASE err.kind = "nil"
  <2>1. NormalizeFailure(err, TRUE) = FailureOf("stream_ended", "nil")
    BY <1>1 DEF NormalizeFailure
  <2>2. "stream_ended" \in StartCodes
    BY DEF StartCodes
  <2> QED BY <2>1, <2>2, PlainFailure
<1>2. CASE err.kind = "canceled"
  <2>1. NormalizeFailure(err, TRUE) = FailureOf("cancelled", "canceled")
    BY <1>2 DEF NormalizeFailure
  <2>2. "cancelled" \in StartCodes
    BY DEF StartCodes
  <2> QED BY <1>2, <2>1, <2>2, PlainFailure, ErrorKinds
<1>3. CASE err.kind = "deadline"
  <2>1. NormalizeFailure(err, TRUE) = FailureOf("deadline_exceeded", "deadline")
    BY <1>3 DEF NormalizeFailure
  <2>2. "deadline_exceeded" \in StartCodes
    BY DEF StartCodes
  <2> QED BY <2>1, <2>2, PlainFailure
<1>4. CASE err.kind = "other"
  <2>1. NormalizeFailure(err, TRUE) = FailureOf("transport_error", "nil")
    BY <1>4 DEF NormalizeFailure
  <2>2. "transport_error" \in StartCodes
    BY DEF StartCodes
  <2> QED BY <2>1, <2>2, PlainFailure
<1>5. CASE err.kind = "api"
  <2>1. NormalizeFailure(err, TRUE) = ApiFailure(err, TRUE)
    BY <1>5 DEF NormalizeFailure
  <2>2. err.status \in Statuses
    BY <1>5, ErrorKinds DEF ApiErrors
  <2>3. ApiFailure(err, TRUE).code \in StartCodes
    BY DEF ApiFailure, SafeCode, StatusCode, StartCodes
  <2>4. ApiFailure(err, TRUE).retryable = RetryableStatus(err.status)
    BY DEF ApiFailure, RetryableStatus
  <2>5. RetryableStatus(err.status) \in BOOLEAN
    BY DEF RetryableStatus
  <2>6. ApiFailure(err, TRUE).cause = "nil"
    BY DEF ApiFailure
  <2>7. ApiFailure(err, TRUE) \in FailureRecord
    <3>1. \A code \in StartCodes, status \in Statuses, retryable \in BOOLEAN :
            [code |-> code, status |-> status, retryable |-> retryable, cause |-> "nil"] \in FailureRecord
      BY DEF FailureRecord
    <3>2. PICK code \in StartCodes, retryable \in BOOLEAN :
            ApiFailure(err, TRUE) =
              [code |-> code, status |-> err.status, retryable |-> retryable, cause |-> "nil"]
      BY <2>3, <2>4, <2>5 DEF ApiFailure
    <3> QED BY <2>2, <3>1, <3>2
  <2> QED BY <1>5, <2>1, <2>4, <2>6, <2>7
<1> QED BY <1>1, <1>2, <1>3, <1>4, <1>5, ErrorKinds

LEMMA ContextErrorFacts ==
  ASSUME NEW state \in ContextState
  PROVE  /\ ContextError(state) \in ErrorValues
         /\ ContextError(state).kind # "api"
         /\ ContextError(state) # Nil
         /\ state # "live" => (ContextError(state) = Canceled <=> state = "canceled")
BY DEF ContextError, ContextState, ErrorValues, Nil, Canceled, Deadline

\* A rejection that stands although the server did not decline retries comes
\* after the last attempt.
LEMMA StandingAnswer ==
  ASSUME TypeOK, AnswerStands, RetryableStatus(answer.status)
  PROVE  attempts > MaxRetries \/ answer.advice = "false"
<1>1. answer \in [status : 100 .. 599, advice : {"none", "true", "false"}, code : WireCodes]
  BY StartAssumption DEF TypeOK, AnswerStands
<1>2. answer.advice \in {"none", "true", "false"}
  BY <1>1
<1> QED BY <1>2 DEF AnswerStands, ShouldRetry, Exhausted

-----------------------------------------------------------------------------
(* Steps by which source.Next() turns out false.                            *)

LEMMA SourceFailsStep ==
  ASSUME StartInvariant, NEW err \in ErrorValues \cup {Nil}, SourceFails(err),
         phase \in {"called", "answered", "backoff", "reading", "first"},
         err = Canceled => callerEnd = "canceled",
         err.kind = "api" => AnswerStands /\ err.status = answer.status /\ answer.status >= 400,
         open' \subseteq open, handed' \in BOOLEAN,
         open' # {} => handed' \/ (attctx # "live" /\ err = ContextError(attctx)),
         err.kind = "api" => open' = {}
  PROVE  StartInvariant'
<1> USE DEF SourceFails, StartInvariant, attemptVars
<1>1. TypeOK'
  BY DEF TypeOK, Phases
<1>2. ContextsFollow'
  BY DEF ContextsFollow, Unwinding
<1>3. BodyFollows' /\ CallFollows'
  BY DEF BodyFollows, CallFollows
<1>4. AnswerFollows'
  BY DEF AnswerFollows, AnswerStands, ShouldRetry, Exhausted
<1>5. (RetryableIsSafe /\ CancelledOnlyByCaller /\ ReleasesOrHandsOver)'
  BY DEF CallFollows, RetryableIsSafe, CancelledOnlyByCaller, ReleasesOrHandsOver, Exhausted
<1> QED BY <1>1, <1>2, <1>3, <1>4, <1>5

\* The attempt's context comes before what the attempt returned: an open response
\* stays behind, and the error says why.
LEMMA ContextFailsStep ==
  ASSUME StartInvariant, phase \in {"answered", "backoff"}, attctx # "live",
         SourceFails(ContextError(attctx)), UNCHANGED bodyVars
  PROVE  StartInvariant'
<1>1. attctx \in ContextState
  BY DEF StartInvariant, TypeOK
<1>2. attctx = "canceled" => callerEnd = "canceled"
  BY DEF StartInvariant, ContextsFollow, Unwinding
<1>3. open' \subseteq open /\ handed' \in BOOLEAN
  BY DEF bodyVars, StartInvariant, TypeOK
<1> QED BY <1>1, <1>2, <1>3, ContextErrorFacts, SourceFailsStep

LEMMA TransportErrorFacts ==
  ASSUME StartInvariant, phase \in {"answered", "reading", "first"}, NEW err \in TransportErrors
  PROVE  err \in ErrorValues /\ err.kind # "api" /\ (err = Canceled => callerEnd = "canceled")
<1>1. /\ Other \in ErrorValues /\ Other # Canceled /\ Other.kind # "api"
      /\ Deadline \in ErrorValues /\ Deadline # Canceled /\ Deadline.kind # "api"
  BY DEF ErrorValues, Other, Deadline, Canceled
<1>2. CASE err \in {Other, Deadline}
  BY <1>1, <1>2
<1>3. CASE attctx # "live" /\ err = ContextError(attctx)
  <2>1. attctx \in ContextState
    BY DEF StartInvariant, TypeOK
  <2>2. attctx = "canceled" => callerEnd = "canceled"
    BY DEF StartInvariant, ContextsFollow, Unwinding
  <2> QED BY <1>3, <2>1, <2>2, ContextErrorFacts
<1> QED BY <1>2, <1>3 DEF TransportErrors

\* The source's own failures.  A response it was given is still open after them,
\* for its Close.
LEMMA PlainFailsStep ==
  ASSUME StartInvariant, NEW err \in {Nil, Other} \cup TransportErrors, SourceFails(err),
         \/ phase = "called" /\ err = Other /\ UNCHANGED bodyVars
         \/ phase = "answered" /\ err # Nil /\ handed' = TRUE /\ UNCHANGED open
         \/ phase = "reading" /\ open' = {} /\ UNCHANGED handed
         \/ phase = "first" /\ UNCHANGED bodyVars
  PROVE  StartInvariant'
<1>1. err \in ErrorValues \cup {Nil} /\ err.kind # "api" /\ (err = Canceled => callerEnd = "canceled")
  <2>1. CASE err \in {Nil, Other}
    <3>1. /\ Nil.kind = "nil" /\ Other.kind = "other" /\ Canceled.kind = "canceled"
          /\ Other \in ErrorValues
      BY DEF ErrorValues, Other, Canceled, Nil
    <3> QED BY <2>1, <3>1
  <2>2. CASE err \in TransportErrors /\ phase # "called"
    BY <2>2, TransportErrorFacts
  <2> QED BY <2>1, <2>2
<1>2. open' \subseteq open /\ handed' \in BOOLEAN /\ (open' = {} \/ handed')
  <2>1. handed \in BOOLEAN
    BY DEF StartInvariant, TypeOK
  <2>2. CASE phase = "called" /\ UNCHANGED bodyVars
    BY <2>1, <2>2 DEF StartInvariant, BodyFollows, bodyVars
  <2>3. CASE phase = "first" /\ UNCHANGED bodyVars
    BY <2>1, <2>3 DEF StartInvariant, BodyFollows, bodyVars
  <2>4. CASE handed' = TRUE /\ UNCHANGED open
    BY <2>4
  <2>5. CASE open' = {} /\ UNCHANGED handed
    BY <2>1, <2>5
  <2> QED BY <2>2, <2>3, <2>4, <2>5
<1> QED BY <1>1, <1>2, SourceFailsStep

-----------------------------------------------------------------------------
LEMMA InitStart == Init => StartInvariant
<1> SUFFICES ASSUME Init PROVE StartInvariant
  OBVIOUS
<1>1. MaxRetries \in Nat /\ ContextEnds \subseteq {"canceled", "deadline"}
  BY StartAssumption
<1>2. /\ NoFailure \in [code : StartCodes, status : Statuses, retryable : BOOLEAN,
                       cause : {"nil", "canceled", "deadline"}]
      /\ NoFailure.retryable = FALSE /\ NoFailure.cause = "nil"
  BY DEF NoFailure, FailureOf, StartCodes, Statuses
<1>3. Nil.kind = "nil" /\ Nil # Canceled
  BY DEF Nil, Canceled
<1>4. TypeOK
  <2>1. failure \in [code : StartCodes, status : Statuses, retryable : BOOLEAN,
                    cause : {"nil", "canceled", "deadline"}]
    BY <1>2 DEF Init
  <2>2. attempts \in 0 .. MaxRetries + 1 /\ answer \in Responses \cup {NoAnswer}
    BY <1>1 DEF Init
  <2>3. /\ opctx \in ContextState /\ attctx \in ContextState
        /\ callerEnd \in ContextState /\ operationErr \in ContextState
    BY <1>1 DEF Init, ContextState
  <2>4. /\ phase \in Phases /\ sourceErr \in ErrorValues \cup {Nil} /\ timedOut \in BOOLEAN
        /\ open \subseteq 1 .. MaxRetries + 1 /\ handed \in BOOLEAN
    BY DEF Init, Phases
  <2> QED BY <2>1, <2>2, <2>3, <2>4 DEF TypeOK
<1>5. ContextsFollow /\ BodyFollows /\ CallFollows /\ AnswerFollows
  BY <1>2, <1>3 DEF Init, ContextsFollow, BodyFollows, CallFollows, AnswerFollows, Unwinding
<1> QED
  BY <1>2, <1>4, <1>5 DEF Init, StartInvariant, RetryableIsSafe, CancelledOnlyByCaller, ReleasesOrHandsOver

\* A new attempt, whose context starts as the operation's.
LEMMA SendStep ==
  ASSUME StartInvariant, Send, phase \in {"called", "backoff"}
  PROVE  StartInvariant'
<1> USE DEF Send, StartInvariant
<1>1. TypeOK'
  <2>1. attempts + 1 \in 0 .. MaxRetries + 1
    <3>1. CASE phase = "called"
      BY <3>1, StartAssumption DEF CallFollows
    <3>2. CASE phase = "backoff"
      BY <3>2, StartAssumption DEF AnswerFollows, Exhausted, TypeOK
    <3> QED BY <3>1, <3>2
  <2> QED BY <2>1 DEF TypeOK, Phases, bodyVars, errorVars
<1>2. ContextsFollow'
  BY DEF ContextsFollow, Unwinding, errorVars
<1>3. BodyFollows' /\ CallFollows'
  BY DEF BodyFollows, CallFollows, TypeOK, bodyVars, errorVars
<1>4. AnswerFollows'
  <2>1. sourceErr = Nil
    BY DEF AnswerFollows
  <2>2. Nil.kind # "api"
    BY DEF Nil
  <2> QED BY <2>1, <2>2 DEF AnswerFollows, errorVars
<1>5. (RetryableIsSafe /\ CancelledOnlyByCaller /\ ReleasesOrHandsOver)'
  BY DEF CallFollows, RetryableIsSafe, CancelledOnlyByCaller, ReleasesOrHandsOver, errorVars
<1> QED BY <1>1, <1>2, <1>3, <1>4, <1>5

\* The failures that carry no cause end the call before anything was sent.
LEMMA RefuseStep ==
  ASSUME StartInvariant, Refuse \/ SourceMissing
  PROVE  StartInvariant'
<1> USE DEF StartInvariant
<1>1. PICK code \in {"provider_unavailable", "invalid_request"} :
        /\ phase = "called" /\ Fail(FailureOf(code, "nil"))
        /\ \/ UNCHANGED <<opctx, attctx>>
           \/ opctx' = End(opctx, "canceled") /\ attctx' = End(attctx, "canceled")
        /\ UNCHANGED <<attempts, answer, timedOut, open, handed, sourceErr, operationErr, callerEnd>>
  BY DEF Refuse, SourceMissing, attemptVars, bodyVars
<1>2. /\ failure' \in FailureRecord /\ failure'.cause = "nil" /\ ~failure'.retryable
      /\ phase' = "failed"
  <2>1. code \in StartCodes
    BY DEF StartCodes
  <2> QED BY <1>1, <2>1, PlainFailure DEF Fail
<1>3. TypeOK'
  <2>1. opctx' \in ContextState /\ attctx' \in ContextState
    BY <1>1 DEF End, ContextState, TypeOK
  <2> QED BY <1>1, <1>2, <2>1 DEF TypeOK, Phases, FailureRecord
<1>4. ContextsFollow'
  BY <1>1, <1>2 DEF ContextsFollow, Unwinding, End
<1>5. BodyFollows' /\ CallFollows'
  BY <1>1, <1>2 DEF BodyFollows, CallFollows
<1>6. AnswerFollows'
  BY <1>1, <1>2 DEF AnswerFollows, AnswerStands, ShouldRetry, Exhausted
<1>7. (RetryableIsSafe /\ CancelledOnlyByCaller /\ ReleasesOrHandsOver)'
  BY <1>1, <1>2 DEF CallFollows, RetryableIsSafe, CancelledOnlyByCaller, ReleasesOrHandsOver
<1> QED BY <1>3, <1>4, <1>5, <1>6, <1>7

\* Steps of an attempt that leave the contexts, the error and the failure alone.
LEMMA AttemptStep ==
  ASSUME StartInvariant,
         \/ \E got \in Responses \cup {NoAnswer} : Answered(got)
         \/ Retry
         \/ FirstEvent
  PROVE  StartInvariant'
<1> USE DEF StartInvariant, attemptVars, errorVars
<1>1. sourceErr = Nil /\ Nil.kind # "api"
  BY DEF AnswerFollows, Nil, Answered, Retry, FirstEvent
<1>2. CASE \E got \in Responses \cup {NoAnswer} : Answered(got)
  <2>1. PICK got \in Responses \cup {NoAnswer} : Answered(got)
    BY <1>2
  <2> USE <2>1 DEF Answered
  <2>2. open' \subseteq {attempts} /\ attempts \in 1 .. MaxRetries + 1
    BY StartAssumption DEF BodyFollows, CallFollows, TypeOK
  <2>3. TypeOK'
    BY <2>2 DEF TypeOK, Phases
  <2>4. ContextsFollow'
    BY DEF ContextsFollow, Unwinding
  <2>5. BodyFollows' /\ CallFollows'
    BY <1>1, <2>2 DEF BodyFollows, CallFollows
  <2>6. AnswerFollows'
    BY <1>1 DEF AnswerFollows
  <2>7. (RetryableIsSafe /\ CancelledOnlyByCaller /\ ReleasesOrHandsOver)'
    BY DEF CallFollows, RetryableIsSafe, CancelledOnlyByCaller, ReleasesOrHandsOver
  <2> QED BY <2>3, <2>4, <2>5, <2>6, <2>7
<1>3. CASE Retry
  <2> USE <1>3 DEF Retry
  <2>1. open' = {}
    BY DEF BodyFollows
  <2>2. TypeOK'
    BY <2>1 DEF TypeOK, Phases
  <2>3. ContextsFollow' /\ BodyFollows' /\ CallFollows'
    BY <1>1, <2>1 DEF ContextsFollow, BodyFollows, CallFollows, Unwinding
  <2>4. AnswerFollows'
    BY DEF AnswerFollows, AnswerStands, ShouldRetry, Exhausted
  <2>5. (RetryableIsSafe /\ CancelledOnlyByCaller /\ ReleasesOrHandsOver)'
    BY DEF CallFollows, RetryableIsSafe, CancelledOnlyByCaller, ReleasesOrHandsOver
  <2> QED BY <2>2, <2>3, <2>4, <2>5
<1>4. CASE FirstEvent
  <2> USE <1>4 DEF FirstEvent, bodyVars
  <2>1. TypeOK'
    BY DEF TypeOK, Phases
  <2>2. ContextsFollow' /\ BodyFollows' /\ CallFollows'
    BY DEF ContextsFollow, BodyFollows, CallFollows, Unwinding
  <2>3. AnswerFollows'
    BY DEF AnswerFollows, AnswerStands, ShouldRetry, Exhausted
  <2>4. (RetryableIsSafe /\ CancelledOnlyByCaller /\ ReleasesOrHandsOver)'
    BY DEF BodyFollows, CallFollows, ContextsFollow, Unwinding, RetryableIsSafe,
           CancelledOnlyByCaller, ReleasesOrHandsOver
  <2> QED BY <2>1, <2>2, <2>3, <2>4
<1> QED BY <1>2, <1>3, <1>4

\* The answer of the last attempt: an error response to read, or a stream.
LEMMA ConcludeStep ==
  ASSUME StartInvariant, Conclude
  PROVE  StartInvariant'
<1> USE DEF Conclude
<1>1. CASE answer = NoAnswer
  <2>1. PICK err \in TransportErrors : SourceFails(err)
    BY <1>1
  <2>2. err # Nil
    <3>1. err \in {Other, Deadline}
      BY <2>1 DEF TransportErrors
    <3>2. Other.kind # Nil.kind /\ Deadline.kind # Nil.kind
      BY DEF Other, Deadline, Nil
    <3> QED BY <3>1, <3>2
  <2> QED BY <2>1, <2>2, PlainFailsStep
<1>2. CASE answer # NoAnswer
  <2> USE DEF StartInvariant, attemptVars, errorVars
  <2>1. /\ \/ answer.status >= 400 /\ phase' = "reading"
           \/ answer.status < 400 /\ phase' = "first" /\ open = {attempts}
        /\ handed' = TRUE
        /\ UNCHANGED <<opctx, attemptVars, open, errorVars, callerEnd>>
    <3>1. answer.status \in 100 .. 599
      BY <1>2, StartAssumption DEF TypeOK
    <3> QED BY <1>2, <3>1 DEF BodyFollows
  <2>2. AnswerStands'
    BY <1>2, <2>1 DEF AnswerStands, ShouldRetry, Exhausted
  <2>3. sourceErr = Nil /\ Nil.kind # "api"
    BY DEF AnswerFollows, Nil
  <2>4. TypeOK'
    BY <2>1 DEF TypeOK, Phases
  <2>5. ContextsFollow'
    BY <2>1 DEF ContextsFollow, Unwinding
  <2>6. BodyFollows' /\ CallFollows'
    BY <2>1, <2>3 DEF BodyFollows, CallFollows
  <2>7. AnswerFollows'
    <3>1. sourceErr' = Nil /\ phase' \in {"reading", "first"}
      BY <2>1, <2>3
    <3>2. phase' = "reading" => answer'.status >= 400
      BY <2>1
    <3> QED BY <2>2, <2>3, <3>1, <3>2 DEF AnswerFollows
  <2>8. (RetryableIsSafe /\ CancelledOnlyByCaller /\ ReleasesOrHandsOver)'
    BY <2>1 DEF CallFollows, RetryableIsSafe, CancelledOnlyByCaller, ReleasesOrHandsOver
  <2> QED BY <2>4, <2>5, <2>6, <2>7, <2>8
<1> QED BY <1>1, <1>2

\* Reading what the last attempt got.
LEMMA ReadStep ==
  ASSUME StartInvariant, ReadErrorBody \/ FirstFails
  PROVE  StartInvariant'
<1>1. open \subseteq {attempts}
  BY DEF StartInvariant, BodyFollows
<1>2. CASE /\ phase = "reading" /\ open' = {} /\ UNCHANGED handed
           /\ SourceFails([kind |-> "api", code |-> answer.code, status |-> answer.status])
  <2> DEFINE err == [kind |-> "api", code |-> answer.code, status |-> answer.status]
  <2>1. AnswerStands /\ answer.status >= 400
    BY <1>2 DEF StartInvariant, AnswerFollows
  <2>2. answer \in [status : 100 .. 599, advice : {"none", "true", "false"}, code : WireCodes]
    BY <2>1, StartAssumption DEF StartInvariant, TypeOK, AnswerStands
  <2>3. err \in ErrorValues
    <3>1. answer.code \in WireCodes /\ answer.status \in 0 .. 599
      BY <2>2
    <3> QED BY <3>1 DEF ErrorValues, ApiErrors, Statuses
  <2>4. err # Canceled /\ err.status = answer.status
    BY DEF Canceled
  <2>5. handed' \in BOOLEAN
    BY <1>2 DEF StartInvariant, TypeOK
  <2>6. SourceFails(err)
    BY <1>2
  <2> HIDE DEF err
  <2> QED BY <1>2, <2>1, <2>3, <2>4, <2>5, <2>6, SourceFailsStep
<1>3. CASE /\ phase = "reading" /\ open' = {} /\ UNCHANGED handed
           /\ \E err \in TransportErrors : SourceFails(err)
  BY <1>3, PlainFailsStep
<1>4. CASE FirstFails
  BY <1>4, PlainFailsStep DEF FirstFails
<1> QED BY <1>1, <1>2, <1>3, <1>4 DEF ReadErrorBody

-----------------------------------------------------------------------------
(* Giving up.                                                               *)

LEMMA ReadOperationErrStep ==
  ASSUME StartInvariant, ReadOperationErr
  PROVE  StartInvariant'
<1> USE DEF StartInvariant, ReadOperationErr, attemptVars, bodyVars
<1>1. TypeOK'
  BY DEF TypeOK, Phases
<1>2. ContextsFollow'
  BY DEF ContextsFollow, Unwinding
<1>3. BodyFollows' /\ CallFollows'
  BY DEF BodyFollows, CallFollows
<1>4. AnswerFollows'
  BY DEF AnswerFollows, AnswerStands, ShouldRetry, Exhausted
<1>5. (RetryableIsSafe /\ CancelledOnlyByCaller /\ ReleasesOrHandsOver)'
  BY DEF CallFollows, RetryableIsSafe, CancelledOnlyByCaller, ReleasesOrHandsOver
<1> QED BY <1>1, <1>2, <1>3, <1>4, <1>5

LEMMA CancelStep ==
  ASSUME StartInvariant, Cancel
  PROVE  StartInvariant'
<1> USE DEF StartInvariant, Cancel, bodyVars, errorVars
<1>1. /\ opctx' \in ContextState /\ attctx' \in ContextState
      /\ opctx' # "live" /\ attctx' # "live" /\ (attctx # "live" => attctx' = attctx)
  BY DEF TypeOK, ContextState, End
<1>2. TypeOK'
  BY <1>1 DEF TypeOK, Phases
<1>3. ContextsFollow'
  BY <1>1 DEF ContextsFollow, Unwinding
<1>4. BodyFollows' /\ CallFollows'
  BY <1>1 DEF BodyFollows, CallFollows
<1>5. AnswerFollows'
  BY DEF AnswerFollows, AnswerStands, ShouldRetry, Exhausted
<1>6. (RetryableIsSafe /\ CancelledOnlyByCaller /\ ReleasesOrHandsOver)'
  BY DEF CallFollows, RetryableIsSafe, CancelledOnlyByCaller, ReleasesOrHandsOver
<1> QED BY <1>2, <1>3, <1>4, <1>5, <1>6

\* The failure Stream returns is about its cause: a caller's cancellation, or
\* an answer that stands.
LEMMA CauseFacts ==
  ASSUME StartInvariant, NEW closeErr \in {Nil, Other}
  PROVE  /\ Cause(closeErr) \in ErrorValues \cup {Nil}
         /\ Cause(closeErr) = Canceled => callerEnd = "canceled"
         /\ Cause(closeErr).kind = "api" =>
              /\ operationErr = "live" /\ AnswerStands
              /\ Cause(closeErr).status = answer.status
<1> USE DEF StartInvariant
<1>1. CASE operationErr # "live"
  <2>1. Cause(closeErr) = ContextError(operationErr) /\ operationErr \in ContextState
    BY <1>1 DEF Cause, TypeOK
  <2> QED BY <1>1, <2>1, ContextErrorFacts DEF ContextsFollow
<1>2. CASE operationErr = "live" /\ sourceErr # Nil
  <2>1. Cause(closeErr) = sourceErr
    BY <1>2 DEF Cause
  <2> QED BY <1>2, <2>1 DEF TypeOK, ContextsFollow, AnswerFollows
<1>3. CASE operationErr = "live" /\ sourceErr = Nil
  <2>1. Cause(closeErr) = closeErr
    BY <1>3 DEF Cause
  <2>2. /\ Other \in ErrorValues /\ Other # Canceled /\ Other.kind # "api"
        /\ Nil # Canceled /\ Nil.kind # "api"
    BY DEF ErrorValues, Nil, Other, Canceled
  <2> QED BY <2>1, <2>2
<1> QED BY <1>1, <1>2, <1>3

LEMMA CauseKind ==
  ASSUME StartInvariant, NEW closeErr \in {Nil, Other}, Cause(closeErr).kind = "api"
  PROVE  sourceErr.kind = "api"
<1>1. operationErr = "live"
  BY CauseFacts
<1>2. Nil.kind # "api" /\ Other.kind # "api"
  BY DEF Nil, Other
<1> QED BY <1>1, <1>2 DEF Cause

LEMMA CloseAndFailStep ==
  ASSUME StartInvariant, CloseAndFail
  PROVE  StartInvariant'
<1> USE DEF StartInvariant
<1>1. PICK closeErr \in {Nil, Other} : Fail(NormalizeFailure(Cause(closeErr), TRUE))
  BY DEF CloseAndFail
<1> DEFINE err == Cause(closeErr)
<1>2. /\ phase = "close" /\ phase' = "failed"
      /\ open' = IF handed THEN open \ {attempts} ELSE open
      /\ failure' = NormalizeFailure(err, TRUE)
      /\ UNCHANGED <<opctx, attctx, attempts, answer, timedOut, handed, sourceErr, operationErr, callerEnd>>
  BY <1>1 DEF CloseAndFail, Fail, attemptVars
<1>3. /\ failure' \in FailureRecord
      /\ failure'.cause = "canceled" => err = Canceled
      /\ failure'.retryable => err.kind = "api" /\ RetryableStatus(err.status)
  BY <1>2, CauseFacts, NormalizedFacts
<1>4. /\ err = Canceled => callerEnd = "canceled"
      /\ err.kind = "api" => /\ operationErr = "live" /\ AnswerStands
                             /\ err.status = answer.status
  BY CauseFacts
<1> HIDE DEF err
<1>5. TypeOK'
  BY <1>2, <1>3 DEF TypeOK, Phases, FailureRecord
<1>6. ContextsFollow'
  BY <1>2 DEF ContextsFollow, Unwinding
<1>7. BodyFollows' /\ CallFollows'
  BY <1>2 DEF BodyFollows, CallFollows
<1>8. AnswerFollows'
  BY <1>2 DEF AnswerFollows, AnswerStands, ShouldRetry, Exhausted
<1>9. RetryableIsSafe'
  <2>1. failure'.retryable => attempts > MaxRetries \/ answer.advice = "false"
    BY <1>3, <1>4, StandingAnswer
  <2>2. failure'.retryable => open' = {}
    <3>1. failure'.retryable => sourceErr.kind = "api"
      BY <1>3, CauseKind DEF err
    <3> QED BY <1>2, <3>1 DEF BodyFollows
  <2> QED BY <1>2, <1>3, <1>4, <2>1, <2>2 DEF RetryableIsSafe, AnswerStands, Exhausted
<1>10. CancelledOnlyByCaller'
  BY <1>2, <1>3, <1>4 DEF CancelledOnlyByCaller
<1>11. ReleasesOrHandsOver'
  BY <1>2 DEF BodyFollows, ContextsFollow, ReleasesOrHandsOver
<1> QED BY <1>5, <1>6, <1>7, <1>8, <1>9, <1>10, <1>11

\* The environment: the caller's context ends, or something times out.
LEMMA ContextStep ==
  ASSUME StartInvariant, CallerEnds \/ AttemptTimesOut \/ ClientTimesOut
  PROVE  StartInvariant'
<1> USE DEF StartInvariant, bodyVars, errorVars
<1>1. /\ phase' = phase /\ phase \notin {"failed", "streaming"}
      /\ UNCHANGED <<attempts, answer, bodyVars, errorVars>>
  BY DEF CallerEnds, AttemptTimesOut, ClientTimesOut
<1>2. /\ opctx' \in ContextState /\ attctx' \in ContextState /\ callerEnd' \in ContextState
      /\ timedOut' \in BOOLEAN
      /\ attctx # "live" => attctx' = attctx
  <2> USE DEF End, ContextState, TypeOK
  <2>1. CASE CallerEnds
    <3>1. /\ callerEnd' \in {"canceled", "deadline"} /\ timedOut' = timedOut
          /\ opctx' = End(opctx, callerEnd') /\ attctx' = End(attctx, callerEnd')
      BY <2>1, StartAssumption DEF CallerEnds
    <3> QED BY <3>1
  <2>2. CASE AttemptTimesOut
    BY <2>2 DEF AttemptTimesOut
  <2>3. CASE ClientTimesOut
    BY <2>3 DEF ClientTimesOut
  <2> QED BY <2>1, <2>2, <2>3
<1>3. TypeOK'
  BY <1>1, <1>2 DEF TypeOK
<1>4. ContextsFollow'
  <2>1. CASE CallerEnds
    <3>1. /\ callerEnd = "live" /\ callerEnd' # "live"
          /\ opctx' = End(opctx, callerEnd') /\ attctx' = End(attctx, callerEnd')
      BY <2>1, StartAssumption DEF CallerEnds
    <3> QED BY <1>1, <3>1 DEF ContextsFollow, Unwinding, End
  <2>2. CASE AttemptTimesOut
    BY <1>1, <2>2 DEF ContextsFollow, Unwinding, AttemptTimesOut
  <2>3. CASE ClientTimesOut
    BY <1>1, <2>3 DEF ContextsFollow, Unwinding, ClientTimesOut
  <2> QED BY <2>1, <2>2, <2>3
<1>5. BodyFollows' /\ CallFollows' /\ AnswerFollows'
  BY <1>1, <1>2 DEF BodyFollows, CallFollows, AnswerFollows, AnswerStands, ShouldRetry, Exhausted
<1>6. (RetryableIsSafe /\ CancelledOnlyByCaller /\ ReleasesOrHandsOver)'
  BY <1>1 DEF CallFollows, RetryableIsSafe, CancelledOnlyByCaller, ReleasesOrHandsOver
<1> QED BY <1>3, <1>4, <1>5, <1>6

-----------------------------------------------------------------------------
LEMMA StartStep == StartInvariant /\ [Next]_vars => StartInvariant'
<1> SUFFICES ASSUME StartInvariant, [Next]_vars PROVE StartInvariant'
  OBVIOUS
<1>1. CASE UNCHANGED vars
  <2> USE <1>1 DEF vars, attemptVars, bodyVars, errorVars, StartInvariant
  <2>1. TypeOK'
    BY DEF TypeOK
  <2>2. ContextsFollow' /\ BodyFollows' /\ CallFollows'
    BY DEF ContextsFollow, BodyFollows, CallFollows, Unwinding
  <2>3. AnswerFollows'
    BY DEF AnswerFollows, AnswerStands, ShouldRetry, Exhausted
  <2>4. (RetryableIsSafe /\ CancelledOnlyByCaller /\ ReleasesOrHandsOver)'
    BY DEF RetryableIsSafe, CancelledOnlyByCaller, ReleasesOrHandsOver, Exhausted
  <2> QED BY <2>1, <2>2, <2>3, <2>4
<1>2. CASE Refuse \/ SourceMissing
  BY <1>2, RefuseStep
<1>3. CASE FirstAttempt \/ NextAttempt
  BY <1>3, SendStep DEF FirstAttempt, NextAttempt
<1>4. CASE NotSent
  BY <1>4, PlainFailsStep DEF NotSent
<1>5. CASE AttemptEnded \/ BackoffEnded
  BY <1>5, ContextFailsStep DEF AttemptEnded, BackoffEnded
<1>6. CASE Retry \/ Transport \/ FirstEvent
  BY <1>6, AttemptStep DEF Transport
<1>7. CASE Conclude
  BY <1>7, ConcludeStep
<1>8. CASE ReadErrorBody \/ FirstFails
  BY <1>8, ReadStep
<1>9. CASE ReadOperationErr
  BY <1>9, ReadOperationErrStep
<1>10. CASE Cancel
  BY <1>10, CancelStep
<1>11. CASE CloseAndFail
  BY <1>11, CloseAndFailStep
<1>12. CASE CallerEnds \/ AttemptTimesOut \/ ClientTimesOut
  BY <1>12, ContextStep
<1> QED
  BY <1>1, <1>2, <1>3, <1>4, <1>5, <1>6, <1>7, <1>8, <1>9, <1>10, <1>11, <1>12
  DEF Next, StreamCall, Body

\* StartInvariant holds throughout every operation that starts.
THEOREM StartInvariantHolds == Spec => []StartInvariant
BY InitStart, StartStep, PTL DEF Spec

\* Every variable keeps its type, however many attempts are made.
THEOREM StartTypeCorrect == Spec => []TypeOK
<1>1. StartInvariant => TypeOK
  BY DEF StartInvariant
<1> QED BY <1>1, StartInvariantHolds, PTL

\* For every bound on the retries and every set of responses, a failure that
\* normalizeFailure marks retryable is one the server rejected before anything
\* streamed, and one the SDK will not retry itself (provider.go:88-106,
\* requestconfig.go:600-602).
THEOREM RetryableOnlyWhenSafe == Spec => []RetryableIsSafe
<1>1. StartInvariant => RetryableIsSafe
  BY DEF StartInvariant
<1> QED BY <1>1, StartInvariantHolds, PTL

\* However the call unwinds, a failure caused by cancellation was the caller's:
\* Stream reads the context's error before it cancels it (provider.go:59-73).
THEOREM CancellationIsTheCallers == Spec => []CancelledOnlyByCaller
<1>1. StartInvariant => CancelledOnlyByCaller
  BY DEF StartInvariant
<1> QED BY <1>1, StartInvariantHolds, PTL

\* However often Execute retries, Stream hands over a stream with exactly one open
\* response, and a failure ends both contexts with no response left open, but for one:
\* the last attempt's, if it came when that attempt's context had already ended.
\* Execute returns the context's error then and keeps the response to itself
\* (requestconfig.go:597-599, 617-620, 634-639; provider.go:54-86).
THEOREM StartReleasesOrHandsOver == Spec => []ReleasesOrHandsOver
<1>1. StartInvariant => ReleasesOrHandsOver
  BY DEF StartInvariant
<1> QED BY <1>1, StartInvariantHolds, PTL

=============================================================================
