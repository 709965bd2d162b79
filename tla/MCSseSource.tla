----------------------------- MODULE MCSseSource -----------------------------
(***************************************************************************)
(* A small instance of SseSource: every body of up to four lines, and      *)
(* every pair of blocks of up to two lines before a rest of one.           *)
(***************************************************************************)
EXTENDS SseSource

MCBlocks ==
  { lines \in UNION {[1 .. n -> Line \ {"empty", "comment"}] : n \in 1 .. 2} :
      \E i \in DOMAIN lines : lines[i] \in Payloads }

MCBodies ==
  UNION {[1 .. n -> Line] : n \in 0 .. 4}
    \cup {first \o <<"empty">> \o second \o <<"empty">> : first, second \in MCBlocks}
    \cup {first \o <<"empty", "response", "comment", "empty">> \o second \o <<"empty", "whole">> :
            first, second \in {<<"whole">>, <<"thread.", "whole">>, <<"left", "right">>, <<"[DONE]">>}}

=============================================================================
