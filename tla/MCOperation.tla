---------------------------- MODULE MCOperation ----------------------------
(***************************************************************************)
(* A small instance of Operation: one retry, a stream of two raw events,   *)
(* one Close caller.                                                       *)
(***************************************************************************)
EXTENDS Operation

MCByte == {"a"}
MCWireCodes == {"rate_limit"}
MCFolded == [code \in MCWireCodes |-> code]

MCRawEvents ==
  { [type |-> "ignored"],
    [type |-> "completed", output |-> <<[type |-> "message", text |-> <<"a">>, supported |-> TRUE]>>,
     usage |-> 0] }

\* The stream itself knows the timeout as an error of its source.
MCSourceErrors == {Other, Deadline}

MCResponses ==
  { [status |-> 200, advice |-> "none", code |-> "rate_limit"],
    [status |-> 429, advice |-> "none", code |-> "rate_limit"] }

=============================================================================
