-------------------------- MODULE MCProviderStart --------------------------
(***************************************************************************)
(* A small instance of ProviderStart for TLC.                              *)
(***************************************************************************)
EXTENDS ProviderStart

MCWireCodes  == {"rate_limit", "b@d"}
MCFolded     == [code \in MCWireCodes |-> code]
MCPlainCodes == {"rate_limit"}

Response(status, advice, code) == [status |-> status, advice |-> advice, code |-> code]

\* Streams, rejections of both kinds, and advice that agrees or disagrees.
MCResponses ==
  { Response(200, "none", "b@d"),
    Response(200, "true", "b@d"),
    Response(400, "none", "rate_limit"),
    Response(400, "true", "rate_limit"),
    Response(429, "none", "rate_limit"),
    Response(503, "false", "b@d") }

=============================================================================
