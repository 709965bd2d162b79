------------------------- MODULE MCResponsesStream -------------------------
(***************************************************************************)
(* Small instances of ResponsesStream for TLC.                             *)
(***************************************************************************)
EXTENDS StreamProperties

CONSTANTS c1, c2      \* Close callers

NoCloser   == {}
OneCloser  == {c1}
TwoClosers == {c1, c2}

\* Texts are made of "a" and of the two-byte character "x" "y".
MCByte == {"a", "x", "y"}
MCContinuation == {"y"}
MCSize == [byte \in {"a", "x"} |-> IF byte = "a" THEN 1 ELSE 2]

\* What the JSON decoder guarantees and the theorem CharactersAreKept assumes.
ASSUME MCTextsAssumption ==
  /\ MCSize \in [Byte \ Continuation -> 1 .. ChunkBytes]
  /\ \A event \in RawEvents : WholeEvent(event, MCSize)

MCWireCodes  == {"rate_limit", "RATE_LIMIT", "b@d"}
MCFolded     == [code \in MCWireCodes |-> IF code = "RATE_LIMIT" THEN "rate_limit" ELSE code]
MCPlainCodes == {"rate_limit"}

MCToolNames    == {"read", "undeclared"}
MCAllowedTools == {"read"}

Delta(text)           == [type |-> "delta", text |-> text]
Done(output, usage)   == [type |-> "completed", output |-> output, usage |-> usage]
Ignored               == [type |-> "ignored"]
Message(text)         == [type |-> "message", text |-> text, supported |-> TRUE]
Call(id, name)        == [type |-> "function_call", id |-> id, name |-> name, valid |-> TRUE]
Unsuccessful(type, c) == [type |-> type, code |-> c]

\* For the interleavings: one event of each kind the pump and Recv tell apart.
RaceEvents ==
  { Delta(<<"a">>),
    Ignored,
    Untyped,
    Done(<<Message(<<"a">>), Call("i1", "read")>>, 0) }

\* For the liveness properties: a raw event without events, and the last one.
LivenessEvents == { Ignored, Done(<<Message(<<"a">>)>>, 0) }

RaceSourceErrors == {Other}
RaceCloseErrors  == {Other}

\* For the translation: deltas that are empty, cut between characters, or too
\* long; completions that agree with them, add to them or contradict them, with
\* accepted and rejected calls, items and usage; the three unsuccessful ends.
TranslationEvents ==
  { Delta(<< >>),
    Delta(<<"a">>),
    Delta(<<"a", "x", "y">>),
    Delta(<<"x", "y", "a", "x", "y">>),
    Ignored,
    Done(<<Message(<<"a">>), [type |-> "reasoning"], Call("i1", "read")>>, 0),
    Done(<<Message(<<"a", "x", "y">>), Call("i1", "read"), Call("i2", "read")>>, 0),
    Done(<<Message(<<"a">>), Message(<<"x", "y">>)>>, -1),
    Done(<<Message(<<"a", "x", "y">>)>>, 0),
    Done(<<Call("i1", "read"), Call("i1", "read")>>, 0),
    Done(<<Call("i2", "read"), Call("i1", "undeclared")>>, 0),
    Done(<<Message(<<"a">>), Call("i2", "read"), [type |-> "hosted"]>>, 0),
    Done(<<[Message(<<"a">>) EXCEPT !.supported = FALSE]>>, 0),
    Done(<<[Call("i1", "read") EXCEPT !.valid = FALSE]>>, 0),
    Done(<<Call("i1", "read"), Call("i2", "read"), Call("i3", "read")>>, 0),
    Done(<<Message(<<"a">>), Message(<<"a">>), Message(<<"a">>), Message(<<"a">>)>>, 0),
    Done(<<Message(<<"x", "y", "a", "x", "y">>), Message(<<"a", "a">>)>>, 0),
    Unsuccessful("failed", "b@d"),
    Unsuccessful("incomplete", "rate_limit"),
    Unsuccessful("error", "RATE_LIMIT") }

=============================================================================
