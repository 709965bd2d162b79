------------------------------ MODULE SseSource ------------------------------
(***************************************************************************)
(* The event source of a streamed response: eventStreamDecoder.Next, the   *)
(* line decoder, under Stream.Next, as the pump of a stream calls it while *)
(* another goroutine may close it.                                         *)
(*                                                                         *)
(* A line of the body is what the decoder's switch and the JSON decoder    *)
(* tell apart.  Data is the sequence of its lines' positions in the body,  *)
(* so that no two lines are taken for each other.                          *)
(***************************************************************************)
EXTENDS Naturals, Sequences

CONSTANTS
  Bodies,    \* sequences of lines
  MaxCalls   \* bound on the calls of Next

VARIABLES
  body, ending,   \* the response, and how the connection ends
  position,       \* lines the scanner has returned
  event, data,    \* of the decoder's call: what the lines since the last event say
  done, err,      \* fields of Stream
  call,           \* what the caller's call of Next is at
  calls, closed,
  delivered       \* what Current returned for each Next that was true

vars == <<body, ending, position, event, data, done, err, call, calls, closed, delivered>>

\* "data" lines hold a whole JSON value, one of its halves, the end marker or a
\* value with an error; "event" lines name what follows.
Payloads == {"whole", "left", "right", "[DONE]", "error"}
Names    == {"response", "thread."}
Line     == Payloads \cup Names \cup {"comment", "empty"}

ASSUME BodiesAssumption == Bodies \subseteq Seq(Line) /\ MaxCalls \in Nat

\* What Stream.Next makes of the data, its lines joined by line ends: the marker
\* is a prefix, gjson finds an error in the first value, and Unmarshal accepts
\* one value only.
Meaning(lines) ==
  IF lines[1] \in {"[DONE]", "error"} THEN lines[1]
  ELSE IF lines \in {<<"whole">>, <<"left", "right">>} THEN "value" ELSE "malformed"

DataOf(positions) == [i \in DOMAIN positions |-> body[positions[i]]]

Init ==
  /\ body \in Bodies /\ ending \in {"eof", "reset"}
  /\ position = 0 /\ event = "none" /\ data = << >>
  /\ done = FALSE /\ err = "none"
  /\ call = "idle" /\ calls = 0 /\ closed = FALSE
  /\ delivered = << >>

CallNext ==
  /\ call \in {"idle", "true", "false"} /\ calls < MaxCalls
  /\ calls' = calls + 1
  /\ event' = "none" /\ data' = << >>
  /\ call' = IF err = "none" THEN "scan" ELSE "false"
  /\ UNCHANGED <<body, ending, position, done, err, closed, delivered>>

\* The scanner returns a line; it may have been buffered before Close.
Scan(line) ==
  /\ call = "scan" /\ position < Len(body) /\ body[position + 1] = line
  /\ position' = position + 1

\* Wrong: the name outlives a block without data.
FieldKeepsName ==
  /\ \E line \in Line :
       /\ Scan(line)
       /\ line = "empty" => data = << >>
       /\ event' = IF line \in Names THEN line ELSE event
       /\ data' = IF line \in Payloads THEN Append(data, position') ELSE data
  /\ UNCHANGED <<body, ending, done, err, call, calls, closed, delivered>>

\* A line that dispatches nothing.
Field ==
  /\ \E line \in Line :
       /\ Scan(line)
       /\ line = "empty" => data = << >>
       /\ event' = IF line \in Names THEN line ELSE IF line = "empty" THEN "none" ELSE event
       /\ data' = IF line \in Payloads THEN Append(data, position') ELSE data
  /\ UNCHANGED <<body, ending, done, err, call, calls, closed, delivered>>

\* An empty line after data ends the decoder's call.  The Stream goes on past the
\* marker and everything after it, fails on an error, and returns a value; one
\* named as an Assistants thread event is wrapped, and has no type of its own.
Dispatch ==
  /\ Scan("empty") /\ data # << >>
  /\ LET meaning == IF event = "thread." /\ Meaning(DataOf(data)) = "value" THEN "wrapped"
                    ELSE Meaning(DataOf(data))
     IN  \/ /\ done \/ meaning = "[DONE]"
            /\ done' = TRUE /\ UNCHANGED <<err, call, delivered>>
         \/ /\ ~done /\ meaning \in {"error", "malformed"}
            /\ err' = meaning /\ call' = "false" /\ UNCHANGED <<done, delivered>>
         \/ /\ ~done /\ meaning \in {"value", "wrapped"}
            /\ delivered' = Append(delivered, [data |-> data, typed |-> meaning = "value"])
            /\ call' = "true" /\ UNCHANGED <<done, err>>
  /\ event' = "none" /\ data' = << >>
  /\ UNCHANGED <<body, ending, calls, closed>>

\* Wrong: the decoder's error is lost.
ScanEndsSilently ==
  /\ call = "scan" /\ (position = Len(body) \/ closed)
  /\ call' = "false"
  /\ event' = "none" /\ data' = << >>
  /\ UNCHANGED <<body, ending, position, done, err, calls, closed, delivered>>

\* No line is left, or the body was closed: what has no empty line after it is
\* dropped, and the scanner's error becomes the Stream's.  A scanner that saw the
\* end, in an earlier call, does not read again.
ScanEnds ==
  /\ call = "scan"
  /\ \/ position = Len(body) /\ err' = (IF ending = "eof" THEN "none" ELSE "transport")
     \/ closed /\ Len(delivered) + 1 = calls /\ err' = "transport"
  /\ call' = "false"
  /\ event' = "none" /\ data' = << >>
  /\ UNCHANGED <<body, ending, position, done, calls, closed, delivered>>

Close ==
  /\ ~closed /\ closed' = TRUE
  /\ UNCHANGED <<body, ending, position, event, data, done, err, call, calls, delivered>>

Next == CallNext \/ Field \/ Dispatch \/ ScanEnds \/ Close

Spec == Init /\ [][Next]_vars

-----------------------------------------------------------------------------
(* A reading of the body as a whole: the blocks between its empty lines.    *)

\* The positions of a set up to end, in their order.
InOrder(positions, end) ==
  LET order[i \in Nat] ==
        IF i = 0 THEN << >>
        ELSE IF i \in positions THEN Append(order[i - 1], i) ELSE order[i - 1]
  IN  order[end]

\* The lines of the block that the empty line at end closes.
BlockLines(end) ==
  {i \in 1 .. end - 1 : \A j \in i .. end - 1 : body[j] # "empty"}

BlockData(end) == InOrder({i \in BlockLines(end) : body[i] \in Payloads}, end)

\* The last name in the block counts.
BlockName(end) ==
  LET names == {i \in BlockLines(end) : body[i] \in Names}
  IN  IF names = {} THEN "none" ELSE body[CHOOSE i \in names : \A j \in names : j <= i]

BlockEnds == {i \in DOMAIN body : body[i] = "empty" /\ BlockData(i) # << >>}

\* A block is an event if every block up to it holds a value.
EventEnds ==
  {end \in BlockEnds : \A b \in BlockEnds : b <= end => Meaning(DataOf(BlockData(b))) = "value"}

\* The events delivered are the body's blocks in their order, each with its own
\* lines and name, up to the first that is none: no block is skipped, merged with
\* another, cut short, or delivered before the empty line that ends it.
EventsAreBlocks ==
  LET ends == InOrder(EventEnds, position)
  IN  delivered = [i \in DOMAIN ends |->
                     [data |-> BlockData(ends[i]), typed |-> BlockName(ends[i]) # "thread."]]

\* The Stream ends without an error only when the whole body was read to its
\* proper end, and every block before the marker was an event.
EndIsTruthful ==
  call = "false" /\ err = "none" =>
    /\ position = Len(body) /\ ending = "eof"
    /\ \A b \in BlockEnds \ EventEnds :
         \E m \in BlockEnds : m <= b /\ Meaning(DataOf(BlockData(m))) = "[DONE]"

=============================================================================
