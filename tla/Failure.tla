------------------------------ MODULE Failure ------------------------------
(***************************************************************************)
(* Bounded, redacted failures of the OpenAI provider (src/error.go).       *)
(*                                                                         *)
(* Go error values are abstracted to the distinctions normalizeFailure     *)
(* makes with errors.Is and errors.AsType: no error, a context error, an   *)
(* API error (with its wire code and HTTP status), anything else.          *)
(***************************************************************************)
EXTENDS Naturals

CONSTANTS
  WireCodes,     \* texts an API may send as an error code
  Folded,        \* strings.ToLower(strings.TrimSpace(code)), per wire code
  PlainCodes     \* non-empty texts of at most maxErrorCodeBytes, all of a-z 0-9 _ - .

\* Folding is total on the wire codes, and a plain code folds to itself.
ASSUME FoldedAssumption ==
  /\ WireCodes = DOMAIN Folded
  /\ \A code \in PlainCodes : code \in WireCodes /\ Folded[code] = code

-----------------------------------------------------------------------------
Statuses == 0 .. 599                   \* 0: the API error carries no status

\* An error value; code and status mean something for API errors only.
Nil      == [kind |-> "nil",      code |-> "", status |-> 0]
Canceled == [kind |-> "canceled", code |-> "", status |-> 0]
Deadline == [kind |-> "deadline", code |-> "", status |-> 0]
Other    == [kind |-> "other",    code |-> "", status |-> 0]
ApiErrors == [kind : {"api"}, code : WireCodes, status : Statuses]
ErrorValues == {Canceled, Deadline, Other} \cup ApiErrors

\* A context: live, or why it ended, which is what its Err then returns.
ContextState == {"live", "canceled", "deadline"}
ContextError(state) == IF state = "canceled" THEN Canceled ELSE Deadline

\* Wrong: the code is forwarded as the API sent it.
SafeCodeVerbatim(code) == code

\* safeCode: a code outside the plain alphabet is replaced, never forwarded.
SafeCode(code) ==
  IF Folded[code] \in PlainCodes THEN Folded[code] ELSE "provider_error"

\* statusCode: "http_<n>"; the number is the failure's status field.
StatusCode(status) == IF status = 0 THEN "provider_error" ELSE "http_status"

RetryableStatus(status) == status \in {408, 409, 429} \/ status >= 500

FailureOf(code, cause) ==
  [code |-> code, status |-> 0, retryable |-> FALSE, cause |-> cause]

ApiFailure(err, retryablePhase) ==
  [code      |-> IF SafeCode(err.code) = "provider_error"
                 THEN StatusCode(err.status) ELSE SafeCode(err.code),
   status    |-> err.status,
   retryable |-> retryablePhase /\ RetryableStatus(err.status),
   cause     |-> "nil"]

\* normalizeFailure: only the two context causes survive as a cause.
NormalizeFailure(err, retryablePhase) ==
  CASE err.kind = "nil"      -> FailureOf("stream_ended", "nil")
    [] err.kind = "canceled" -> FailureOf("cancelled", "canceled")
    [] err.kind = "deadline" -> FailureOf("deadline_exceeded", "deadline")
    [] err.kind = "api"      -> ApiFailure(err, retryablePhase)
    [] err.kind = "other"    -> FailureOf("transport_error", "nil")

=============================================================================
