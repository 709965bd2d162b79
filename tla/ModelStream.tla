---------------------------- MODULE ModelStream ----------------------------
(***************************************************************************)
(* What a model.Stream promises its consumer, without saying how (the      *)
(* interface of vendor/.../spice-agent/model/model.go and the comments of  *)
(* provider.go): events in order, nothing after a terminal event, Close at *)
(* any time, and io.EOF only once the stream has ended or been closed.  A  *)
(* Recv that starts after Close began returns nothing but io.EOF.          *)
(***************************************************************************)
EXTENDS Naturals, Sequences

CONSTANTS
  Event,             \* events a stream may return
  TerminalEvent      \* those that end it

VARIABLES
  delivered,         \* events returned so far
  closing,           \* Close has begun
  busy,              \* a Recv call that passed its first check is in progress
  outcome            \* how the last Recv returned

contractVars == <<delivered, closing, busy, outcome>>

Ended == delivered # << >> /\ delivered[Len(delivered)] \in TerminalEvent

Init ==
  /\ delivered = << >>
  /\ closing = FALSE
  /\ busy = FALSE
  /\ outcome = "none"

RecvStarts ==
  /\ ~busy /\ ~closing /\ ~Ended
  /\ busy' = TRUE
  /\ outcome' = "none"
  /\ UNCHANGED <<delivered, closing>>

RecvEnds ==
  /\ ~busy /\ (closing \/ Ended)
  /\ outcome' = "eof"
  /\ UNCHANGED <<delivered, closing, busy>>

\* One more event, after which the stream may have ended.
RecvDelivers ==
  /\ busy /\ ~Ended
  /\ busy' = FALSE
  /\ outcome' = "event"
  /\ Len(delivered') = Len(delivered) + 1
  /\ delivered' = Append(delivered, delivered'[Len(delivered')])
  /\ delivered'[Len(delivered')] \in Event
  /\ UNCHANGED closing

RecvFails ==
  /\ busy
  /\ busy' = FALSE
  /\ outcome' \in {"error", "protocol_error", "context"}
  /\ UNCHANGED <<delivered, closing>>

Close ==
  /\ ~closing
  /\ closing' = TRUE
  /\ UNCHANGED <<delivered, busy, outcome>>

Next == RecvStarts \/ RecvEnds \/ RecvDelivers \/ RecvFails \/ Close

Spec == Init /\ [][Next]_contractVars

=============================================================================
