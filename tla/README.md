# TLA+ model of the Spice Agent OpenAI provider

This directory specifies the provider in `src/`: a Go client that turns one
provider-neutral `model.Request` into an OpenAI Responses stream and that stream
into `model.StreamEvent`s. The specifications are translated from the Go source;
`PROJECT.json` maps every definition to the lines it stands for. TLC checks them on
small instances, and TLAPS proves the properties that matter most for every value of
the constants.

## The system

| component | state it keeps | operations |
|---|---|---|
| operation start, `Client.Stream` | operation context, source, first event | refuse, start the source, read one event, fail or hand out a stream |
| SDK attempts, `requestconfig.Execute` (vendored) | attempt number and context, last response, the timer left with the body | send, retry, back off, read an error body, close a body |
| response stream, `stream` | channel of capacity 1, prefetched event, pending events, text so far, call IDs, terminal and closed flags, `sync.Once` | `Recv`, `Close`, the pump goroutine |
| event translation, `translate*` | the stream's text and call IDs | one raw event to zero or more model events, or a rejection |
| request translation, `translateRequest` | text builder and items of a message, items so far | translate a part, flush, end a message, translate a tool |
| failure normalization, `error.go` | none | error to code, status, retryable, cause |
| configuration, `config.go` | the options built so far | normalize, validate, apply a client option, construct |
| metadata facts | none | bound a fact, encode the facts |
| SSE decoder and `ssestream.Stream` (vendored) | scanner position, event and data so far, done and error | next line, next event, close |
| quality gate, `internal/qualitygate` | the repository on disk, temporaries, a child process, a deadline | modes and their gates, bootstrap, metadata checks |
| activation and declarations | none | static |

How they interact. `Client.Stream` translates the request, derives an operation
context from the caller's, and starts an SDK source, whose construction runs the HTTP
attempts. It reads the first event itself; if there is one it starts the pump
goroutine, which owns the source from then on and sends each result over a channel of
capacity one. `Recv` takes the prefetched event, then what the channel holds, translates
it with the accumulator in the `stream` struct and queues the events. `Close`, from any
goroutine, marks the stream closed, cancels the operation, closes the source and joins
the pump. Failures of all of them pass through `normalizeFailure`.

What is hard here:

- three goroutines (pump, `Recv`, `Close`) meet at two contexts, a channel, a flag and
  a `sync.Once`, and two `select`s choose freely among ready cases;
- the order of small steps carries the meaning: cancel before closing the source, read
  the operation's error before cancelling it, close `raw` before `pumpDone`, set
  `terminal` while events are pending;
- a rejected raw event leaves the accumulator changed and the stream usable;
- two retry loops, the SDK's and the host's, and three bounds on time, the caller's, the
  attempt's and the HTTP client's, overlap in a start, and go on to bound the stream;
- a response may come when its attempt's context has already ended, and then belongs to
  no one;
- an event source that breaks off inside an event, or is closed by another goroutine;
- in the quality gate, every step may fail after a temporary was made, children may hang,
  and what a mode promises depends on the order of its gates;
- text is cut into chunks, merged and compared in several places.

## Modules

`Failure` holds error values and their normalization. `Translation` extends it with the
translation of raw events. `ResponsesStream` extends `Translation` with the goroutines;
`StreamProperties` states what is expected of it and instantiates the abstract
`ModelStream`. `ProviderStart` extends `Failure` with a start. `Operation` composes the
two: it extends `ResponsesStream` and instantiates `ProviderStart` on the variables they
share. `RequestTranslation` stands alone, with `RequestProperties`; so do `SseSource` and
`ProviderConfig`. The quality gate is `QualityGate`, with `Bootstrap` for the one of its
steps that has control of its own.
`MC*` modules choose small instances; `*Proofs` modules hold theorems;
`Iteration` holds the lemmas about functions defined step by step that several
of them rest on.

### Failure

An error is `nil`, one of the two context errors, an API error with its wire code and
status, or something else: what `errors.Is` and `errors.AsType` tell apart. Wire codes
are abstract values with a folding (`ToLower`, `TrimSpace`) and a set of plain codes, so
`SafeCode` replaces what is not plain. The status in `http_<n>` is the failure's
status field, so the code itself is the constant `http_status`.

### Translation

Operators from a raw event and an accumulator `[text, seen]` to
`[ok, events, terminal, acc]`, in the order the code has its effects: text is recorded
before its chunks are built, call IDs while items are scanned, missing text before the
usage is checked. Texts are sequences of bytes with a set of continuation bytes, and
`ChunkEnd` cuts as `textEvents` does. The error `model.TextDelta` might return there
cannot occur, and neither can those of the metadata helpers; they are left out.

### ResponsesStream and ModelStream

One variable per field or goroutine position. Actions and code:

| actions | code |
|---|---|
| `PumpEvent`, `PumpEnd` | `source.Next()` returned true, or false |
| `PumpSend`, `PumpAbandon` | the two cases of the pump's `select`s |
| `PumpCloseRaw`, `PumpCloseDone` | its deferred calls |
| `RecvEnter` | the closed and terminal check |
| `RecvProceed` | `ctx.Err()`, `popPending`, the loop of `receive` |
| `RecvBuffered`, `RecvRaw`, `RecvRawClosed`, `RecvContextDone`, `RecvOperationDone` | `nextRaw`, one action per case, with `translate` and `popPending` |
| `CloseCall`, `CloseFirst`, `CloseCancel`, `CloseSource`, `CloseJoin`, `CloseWait` | `Close` inside and around `closeOnce.Do` |
| `OperationEnds`, `RecvContextEnds` | contexts of callers |

The source is the environment: it may return any event, end cleanly or with an error,
before or after it was closed. `produced`, `taken` and `delivered` are history
variables. There is one `Recv` caller, as the comment of `Client.Stream` requires.

`ModelStream` is what a consumer of `model.Stream` may rely on: events in order, none
after a terminal one, a failed `Recv` changes nothing, and once `Close` has begun or a
terminal event was delivered, a `Recv` that starts returns only `io.EOF`. The refinement maps
`closing` to `closed`, `busy` to `recv # "idle"` and `outcome` to the kind of `result`.

### ProviderStart

`phase` is the position in `Client.Stream`: while the source is being constructed, in
an attempt (`sent`, `answered`, `backoff`, `reading`), at the first event, and then
through the unwinding `sourceFailed`, `cancel`, `close`. An attempt's context is derived
from the operation's, bounded by the timeout, and checked before what the transport
returned. `shouldRetry` is taken whole: no response, advice in a header, or the status.
The caller's context may end between any two steps, also between the reads of
`source.Err` and of the operation's error.

`open` holds the attempts whose response has an open body: a response is open from
`Answered`, the return of the HTTP handler, until `Retry`, `ReadErrorBody` or the source's
`Close` closes it. `handed` says that `Execute` stored the response where the source finds
it (`ResponseBodyInto`, line 635). `AttemptEnded` does neither: `Execute` returns
`ctx.Err()` before it looks at the response (597-599), so the source has nothing to
close.

`TransportErrors` are the errors a request or a read of a body may end with: the
attempt's context, an error of the transport's own, or a deadline of the HTTP client.
`ClientTimesOut` is its `Timeout` (`config.go:95`, or that of a host's client) or the dial
timeout of its transport; `errors.Is` takes these for `context.DeadlineExceeded`, so
`normalizeFailure` reports `deadline_exceeded`. Whether an error body can be read and
decoded is nondeterministic. A transport that invents `context.Canceled` under a live
context is left out. A source's `Close` is assumed not to report the cancellation that
`Stream` itself caused: the SDK's closes a response body.

### RequestTranslation

`translateRequest` part by part, with the builder `text`, the items `own` of the current
message and the items so far. A text part is never empty, as `message.New` guarantees; an
ID stands for everything copied with a call or result. Whether the encoded request would
exceed 32 MiB is a property of the request. The default cases for unknown roles and kinds
cannot be reached with a validated request.

### Operation

One call of `Client.Stream` and the stream it returns. Until `phase` is `streaming` the
actions are `ProviderStart`'s (`Starting`), afterwards they are `ResponsesStream`'s. What
belongs to neither is added there: the SDK leaves the attempt's timeout with the returned
body (`requestconfig.go:665-676`), so `BodyTimesOut` may end the attempt's context under
the stream, and `ClientTimesOut` is the `Timeout` of the HTTP client, which covers the
body as well; a `ReadBody` that fails then may report either. `CancelStream` cancels both contexts
and `CloseBody` closes the body and stops the timer. `Start!Next` leaves the stream's
variables alone, and the other way round, so the composition refines `ResponsesStream`.

### SseSource

`ssestream` under the pump: `CallNext` is the entry of `Stream.Next`, `Scan` and `Field`
one line of `eventStreamDecoder.Next`, `Dispatch` what `Stream.Next` makes of an event,
`ScanEnds` the end of the body or a read error, `Close` the close of the body by another
goroutine. A line is of a kind the switch and the JSON decoder tell apart, and the data
of an event is the sequence of the positions of its lines. The reference
(`BlockEnds`, `BlockData`, `BlockName`, `EventEnds`) reads the body as a whole.

### ProviderConfig

`New`: `Normalize`, `Validate`, one `Apply` per client option, and `Build`, which gives
what a request of the client uses, the SDK's defaults (`SDKDefaults`) under the options
of `New`. A base URL is the record of what `url.Parse` and `allowedBaseURLScheme` tell
apart, with the spaces and slashes that follow it; `TrimRight` cuts a tail, and
`normalizedBaseURL` shows what the order of the two trims does to `https://host/ /`.

### Bootstrap and QualityGate

`Bootstrap` is `bootstrapDependencies` and `bootstrapModuleGraph`, a `step` for each call
that may fail, deferred calls included: `Fails` goes on with the deferred call that is
next. The child of `Download` may change any file of the repository.

`QualityGate` is `execute` and `run`: a mode is a sequence of gates, a gate a sequence of
steps (read, create, close, or run a child), and a failing step ends the run after what
the gate deferred. `commandEnvironment` is modelled on sets of variables. What may be
wrong with the repository is a set of `faults`, one per check; a child finds its fault,
fails for other reasons, hangs, or is killed at the deadline. `Captured` tells the commands
whose output the gate reads (`capture`) from those that write to the gate's own files: only
the former make `cmd.Run` wait for a pipe. The bootstrap's own steps
are one step per graph there and a module of their own in `Bootstrap`; each of the four
metadata checks is one read, which passes exactly if its part of the metadata is right.

## What TLC checks

| run | instance | what it shows |
|---|---|---|
| `stream_race` | two closers, three events from {delta, ignored, untyped, completed}, one source and one close error, both context ends; 2.1 million states | `PipelineIntegrity`, `SequentialEquivalence`, `TerminalIsLast`, `CloseJoinsPump`, `CloseNeverLooksLikeTruncation`, and that the stream implements `ModelStream` |
| `stream_translation` | no closer, three events out of twenty (agreeing, contradicting, at every limit, all unsuccessful ends) | `TypeOK`, `CallsOnlyWithCompletion`, `TextReconciled`, `DeltasKeepCharacters` |
| `stream_liveness` | two closers, two events, fairness | `CloseReturns`, `PumpExits`, `RecvReturns` |
| `provider_start` | up to three attempts, six responses, fairness | `RetryableIsSafe`, `CancelledOnlyByCaller`, `ReleasesOrHandsOver`, `StartReturns` |
| `request_translation` | every message of up to three parts, every pair of up to two, 15 060 requests, a cap of three items | `ConversationPreserved`, `AcceptsExactly`, `WellFormedInput` |
| `operation` | one retry, two raw events, one closer, both ends of the caller's context, both timeouts at any time; 310 000 states | `EndExplained`, `NothingLeft`, `BodyHasOwner`, `RecvAlwaysReturns`, and that the stream behaves as `ResponsesStream` |
| `sse_source` | every body of up to four lines of nine kinds, and pairs of blocks; the connection ends or is reset anywhere; three calls of `Next` and a concurrent close | `EventsAreBlocks`, `EndIsTruthful` |
| `provider_config` | twelve URLs in six spellings, the boundaries of the other fields, up to two client options | `AcceptsExactly`, `RequestFollowsConfig`, `AttemptsAreBounded` |
| `bootstrap` | two graphs, one of them optional, every step failing or not | `ChangeReported`, `SuccessIsComplete`, `TemporariesRemoved`, `DownloadsOnlyCopies` |
| `quality_gate` | six modes and an unknown one, no fault, each alone and all of them, four working directories, an ambient environment in mixed case, fairness | `PassIsSound`, `MetadataComesFirst`, `Hermetic`, `TemporariesRemoved`, `OnlyFmtRewrites`, `Terminates` |
| `inconsistent_text`, `replayed_stream` | as above | statements of the documentation that the code does not keep, see below |

Why the bounds are enough. Two closers show the owner of the `sync.Once` and a waiter. Three events
fill every place between source and consumer: the prefetched one, the channel of
capacity one, and the one the blocked pump holds. Three raw events let a delta, a
rejected event and a completion follow each other; chunks of two bytes, texts up to six,
two calls and three items put every limit within reach from both sides. Three attempts
show a first, a middle and a last one. A message of three parts has text before, between
and after calls; two messages show that text does not leak from one to the next, and
four possible items against a cap of three show both sides of it.

In the runs of the other components: one retry and two raw events let an operation fail
before and after its first answer and its stream end with a terminal event, an error or
not at all; four lines hold an event whose data has two lines, a block without data,
and what follows each; one fault at a time shows that a mode misses none, and all of them together that the first failure ends it; the boundaries of the
durations and retries are the real ones.

The pipeline and the translation are checked in separate instances of the same
module, because the twenty raw events and the interleavings multiply.

### Fairness

`StreamProperties!Fairness` is weak fairness per step of each goroutine, which Go's
scheduler gives; a `select` case that stays ready is taken in the end, because nothing
else can happen to that goroutine in the meantime but another case. A source is only
assumed to return after its context ended or it was closed: `ARCHITECTURE.md:36-39` makes
that the contract of a transport. Nobody is forced to call `Recv` or `Close`, and no
context is forced to end. In `ProviderStart` the attempt's timeout is fair, because
`Config.validate` makes it positive, and transports and bodies return once the attempt's
context has ended.

In `Operation` the timeout of the attempt is fair, a read of the body returns once the
attempt's context has ended (the transport's contract again), and the pump and a `Recv`
make progress; neither the server nor the caller has to do anything. In `QualityGate` the
gate makes progress, the deadline of `context.WithTimeout` comes, and a child ends after
`exec.CommandContext` killed it; a child left alone may run forever. That a killed child's
command ends is not assumed where its output is captured: `capture` (`main.go:545-559`)
copies it through pipes and sets no `WaitDelay`, so `cmd.Run` returns only when every
process that inherited the pipe, such as `cover` under `go tool`, has ended too. `Terminates`
therefore says that the gate exits or waits forever, past its deadline, for a
captured command, and that the modes that capture nothing always exit. No timeout of the
HTTP client is assumed to come: the properties hold without one.

Deadlock is checked in the stream runs whose system goes on (a `Recv` can always be called);
all other modules model calls, which end, so their configurations switch the check off.

### Disagreements

- **Inconsistent text.** `ARCHITECTURE.md:18-19` says inconsistent final text fails
  closed. A rejected event leaves its text in the accumulator and the stream open, so a
  consumer that receives again can be given a completion whose text it did not get.
  `TextReconciled` is what does hold: a completed stream delivered the final text unless
  an earlier raw event was rejected.
- **Replays.** `docs/dependency-review.md:55-56` and `SECURITY.md:18-20` exclude that a
  stream is replayed. The SDK honours `x-should-retry: true` whatever the status, so with
  retries configured a successful response can be dropped and requested again before
  `Client.Stream` sees its first event.

More is noted without a run. `Execute` returns the attempt's error at
`requestconfig.go:597-599` although it may hold a response, which nobody closes;
what becomes of its connection is up to the transport, which the ended context has
told. `ReleasesOrHandsOver`, `BodyHasOwner` and `NothingLeft` say that this is the only
such response, and when. `deadline_exceeded` does not mean that the caller's
deadline or the configured timeout of an attempt came: an unreachable host gives it after
the dial timeout of the default transport. The gate may outlive its deadline, as
said under Fairness. The comment of `model.Stream` allows `io.EOF` only
after a terminal event, and `Recv` also returns it on a closed stream; `ModelStream` states
the weaker contract. And `repositoryRoot` looks for a prefix of a module path that the
module of `tools/` shares: a bootstrap started there takes `tools/` for the repository and
passes without the product's graph. The other modes fail there on the metadata, which is
why `PassIsSound` excludes this one case.

## What is proved

All theorems hold for every value of the constants that satisfies the named assumptions
(`FoldedAssumption`, `LimitsAssumption`, `StreamAssumption`, `StartAssumption`,
`RequestAssumption`, `ConfigAssumption`, `BodiesAssumption`, `BootstrapAssumption`,
`GateAssumption`), that is for any closers, events, errors, limits, responses, bodies,
requests, configurations, client options, module graphs, repositories and environments.
The few theorems with a hypothesis of their own are named with it below.

- `Iteration`: lemmas only. A set of naturals that holds 0 and every successor is all of
  them (`SetInduction`, from the well-foundedness of finite subsets, so without an operator
  parameter); a step function has exactly one run (`RunExists`, `RunUnique`); hence the
  recursive functions of the models and the `FlattenSeq` of the properties have the values
  their equations say.
- `ResponsesStreamProofs`, on translation: `TranslateFacts` - a translation is well typed,
  its terminal event is the last, and the terminal flag is true exactly when there is one;
  `TranslateCalls` - calls come with the completed event, distinct and declared. The chunks
  of a text, joined, are the text (`ChunksJoin`).
- `ResponsesStreamProofs`, on the stream: `TypeCorrect`, `LifecycleHolds`, `TerminalEventIsLast`,
  `CloseJoined`, `CloseIsNoTruncation`, `StreamImplementsContract`, `PipelineKept`,
  `SequentiallyEquivalent`, `CallsComeWithCompletion`, `TextIsReconciled`. The inductive
  invariant of the first six is `TypeOK /\ Lifecycle /\ TerminalIsLast`. `Lifecycle` is
  needed because the properties speak about one goroutine at a time: `CloseJoinsPump` follows from the
  owner of the once being the only one between `cancel` and `join`; that no `Recv`
  asks for a raw event while events are pending or the stream has ended gives both
  `TerminalIsLast` and the refinement. It also shows that `endError` never sees a
  terminal stream, so that its `nil` return, and the `io.EOF` of `receive`, are dead code.
  The other four are about the whole history. `PipelineIntegrity` is inductive with
  `PumpLifecycle`: which of raw, channel and hand a result is in follows the pump.
  `SequentialEquivalence` rests on it: the result `Recv` takes is the next one produced,
  so a step that consumes it unfolds the replay by one. Calls need that they stand next to
  each other before the completed event (`CallBlock`). For the text, a translation adds
  to the accumulator exactly the text of its deltas (`TranslateKeepsText`), the scan of the
  output gathers the texts of its messages, and a terminal event came with the last result
  consumed (`EndsWithLast`).
- `CharactersAreKept`, there too, has a hypothesis on the texts: every text of a raw event
  is a sequence of whole characters, the first byte of a character determines how many
  continuation bytes follow, and no character is longer than a chunk. Go's JSON decoder
  guarantees the first two (it replaces what is not UTF-8), and a chunk has 64 KiB. Without
  it the property is false, because `Byte` alone does not say which sequences are UTF-8;
  `MCResponsesStream` evaluates it as an `ASSUME` of its texts. The hard step is the
  completed event: the deltas then continue a text of another event, and begin with a
  character because the streamed text is a prefix of the final one, and its last
  character ends where the prefix ends in both (`WholeSuffix`). So the accumulator
  holds a whole text after every translation, which is what the replay keeps.
- `StartProofs`: `StartTypeCorrect`, `RetryableOnlyWhenSafe`, `CancellationIsTheCallers`,
  `StartReleasesOrHandsOver`. The invariant adds to the properties what each phase knows:
  before the unwinding the operation context ends only as the caller's does, and an
  attempt's never outlives it (`ContextsFollow`); an open body is the last attempt's, and
  once the source has failed it is the source's, unless the error is that of the
  attempt's ended context (`BodyFollows`); an API error is the answer of an attempt
  that stood (`AnswerFollows`). So `StartReleasesOrHandsOver` proves that no path but the
  one through 597-599 leaves a response open.
- `RequestProofs`: `TranslationTypeCorrect`, `InputIsWellFormed`,
  `ConversationIsPreserved`, `TranslationAcceptsExactly`. The items of the message in
  progress must be as well formed as the others. `ConversationInvariant` adds that nothing
  is buffered between messages, and the equation is kept because both sides grow by the
  words of one part, or move words from the buffer to the items. `AcceptanceInvariant`
  says what has been checked: every part of the messages done was fit to be sent, and
  a tool's text is still in the buffer, where the next flush finds it; there is an item per
  run, and the buffer holds the run that is none yet. So each refusal points to its
  reason, and at the end nothing is left unchecked.
- `ResponsesStreamProofs`, on an operation: `OperationHasStream` (an operation implements
  `ResponsesStream`) and with it `OperationKeepsContract` (and `ModelStream`),
  `BodyIsOwned`, `OperationLeavesNothing` and `EndIsExplained`. All but `BodyIsOwned` assume that
  a context can be cancelled, `"canceled"` in `ContextEnds`, as the action of `Close` does.
  The invariant `Owned` ties the start's phase, whether the source has the response and
  whether it is closed to the open body and both contexts.
  For `EndIsExplained` an error must be followed from where it is made to the code the host
  gets, so `Explanations` says of each place that can hold one (the contexts, the answer and
  error of the start, the pump's results in hand and in the channel,
  what `Recv` returns) that its cause has happened; for a deadline that is one of the
  contexts' or of the HTTP client's (`DeadlineExplained`).
- `SseSourceProofs`: `EventsReadFromBody` and `SourceEndsTruthfully`. The model reads
  the body line by line, the properties read it as a whole. What relates them, in
  `SourceInvariant`: while a call scans, its data and name are those of the block that ends
  after the next line (`ScansBlock`), which a later call can only know because an earlier one
  stopped between two blocks (`StopsBetweenBlocks`); and every block read was an event
  until one was the marker or an error (`AllAreEvents`, `EndedByMarker`). The blocks grow line
  by line (`BlockLinesGrow`, `BlockDataGrows`, `BlockNameGrows`) because their positions are
  collected by a recursive function, `InOrder`.
- `ConfigProofs`: `ConfigTypeCorrect`, `ConfigAcceptsExactly`, `ConfigIsFollowed`,
  `AttemptsBounded`. `Stages` says of each stage what has been established of the
  arguments; the lemma `Spelling` relates the two trims of the base URL to the
  spelling that `Acceptable` reads directly.
- `BootstrapProofs`: all five properties of the run, for any number of graphs and any
  contents. The invariant says at each step what exists, and that a path that skipped a
  graph has an error or found it absent.
- `QualityGateProofs`: every safety property of the run, for any repository, directories
  and environment. Each gate is shown to be well formed and to assure its checks
  (`GatesAssure`, `ModesAssure`); the invariant is that what is still to run, or an error,
  covers what the mode promises and is not yet known to be right.

Only model-checked: the liveness properties, because fairness and `ENABLED` are outside the
prover's reach. Every safety property that a passing run checks has a theorem.

## What is not modelled

- Metadata facts: bounding and encoding a few independent strings. Their error returns are
  taken as impossible, because the bounds leave room for the escapes of the encoder.
- What the metadata checks of the gate compare, requirement by requirement: they read
  files and change nothing, so each is a step of `QualityGate` that passes or fails.
- Activation and declarations (`autoconfigure`, `build.go`, settings and manifest files):
  static values without control.
- Live acceptance and benchmarks: they drive the real service, or measure.
- The child processes of the gate and what they find: each is a check that passes or
  fails. The jobs of the CI file, of which the gate reads only the text.
- JSON and HTTP encoding, URL parsing beyond what is read of its result, delays and
  wall-clock time, accessors of `Error`, `String`, nil receivers and contexts, and the
  vendored SDK beyond the parts named above (headers, middleware, redirects).
- More than one concurrent `Recv`, which is outside the contract.

## Plan

1. Done: `Failure`, `Translation`, `ResponsesStream` with `ModelStream`, `ProviderStart`,
   `RequestTranslation`; then `Operation`, `SseSource`, `ProviderConfig`,
   `Bootstrap`, `QualityGate`.
2. Done: the proofs above. Left: a refinement from `SseSource` to the source that
   `ResponsesStream` assumes.
