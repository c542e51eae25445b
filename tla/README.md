# A TLA+ model of skyl

skyl is a Go library that puts one interface in front of several LLM providers,
and a gateway that serves that interface over HTTP. This directory holds TLA+
modules translated from its source, the TLC configurations that check them on
small instances, and proofs of the main safety properties for every instance.

Paths below are relative to the repository's root; `src/` is left out.

    tlc -workers 2 -config Client.cfg MCClient.tla
    tlapm ClientProofs.tla

## 1. The system

| Component | Code | State it keeps | Operations | Interacts with |
|---|---|---|---|---|
| Client | `skyl.go`, `provider.go` | options, fixed at New; per call: loop variable, last error | Complete, Stream, Models | calls a Provider, the retry policy, the hooks; hands out an observed stream |
| Listings of models | Models in each adapter | none; per attempt: the page token, what was fetched | Models | runs inside an attempt of the Client; a host with pages |
| Retry policy, errors | `retry.go`, `errors.go` | none | shouldRetry, backoff, sleep, ClassifyStatus, ParseRetryAfter | pure, except sleep, which waits on a timer and the caller's context |
| Observed stream | `observedstream.go` | usage, stopReason, completed, fired | Next, Event, Err, Close | wraps a provider's stream; one consumer; fires hooks |
| CollectStream | `stream.go` | the response it builds | one | reads and closes a stream |
| OpenAI-compatible core | `internal/oai/oai.go` | stream: pending, order, usage, stopReason, flushed, done, sawTerminal, err, closed | Complete, Models, Stream; Next, Close | reads SSE records off an HTTP body |
| Gemini, Anthropic adapters | `provider/gemini`, `provider/anthropic` | stream: queued, usage/accumulator, flushed, done, err | as above | SSE reader; the Anthropic SDK |
| OpenAI, compat providers | `provider/openai`, `provider/openaicompat` | none of their own | configuration | the oai core |
| SSE reader | `internal/sse` | the scanner, done, err | Next, Event, Err | a response body; read by two decoders |
| HTTP helpers | `internal/httpx` | none | PostJSON, Get, Merge | the adapters' requests |
| Requests, messages, responses | `request.go`, `message.go`, `response.go`, the conversions in the adapters and in `gateway/api.go` | none | Validate, Text, ToolCalls, Usage.Add; to and from JSON and each wire format | pure |
| Gateway streaming handler | `gateway/server.go` 402-490, 552-585, 616-664 | handler's and heartbeat's control points, writeMu, the done channel | handleChatStream, startHeartbeat | a client, the Client's stream, net/http |
| Gateway server | `gateway/server.go`, `gateway/api.go` | the draining flag, the tokens | chat, models, providers, probes, metrics; authentication, CORS, logging | a Client per provider |
| Gateway process | `gateway/config.go`, `gateway/cmd/skyl-gateway` | none | read the environment, drain, shut down | the server, signals |
| OpenTelemetry hook | `otel/otel.go` | instruments | record, RoundTrip | hook events |
| Sandbox, cassette, test helpers | `internal/sandbox`, `internal/cassette`, ... | a recording | fake provider, record, replay | tests only |

What is hard about it:

* **Concurrency.** The caller's context, the attempt's deadline, the backoff
  timer and the provider race in every call. In the gateway a heartbeat
  goroutine shares the ResponseWriter with the event loop, and the writer is
  valid only until the handler returns.
* **Failure and ordering.** A stream may break anywhere, before or after its
  done event. Tool calls come in interleaved fragments, totals in a record of
  their own, and a severed connection ends as a complete one does.
* **Protocol.** A stream may be read to its end and not closed, closed early,
  closed twice; the hooks must be told once and truthfully each time.
* **Long sequences.** A conversation goes through an adapter, the gateway's JSON, the
  caller and perhaps another adapter, again at each turn; every stage has forms
  the next one lacks.
* **Configuration.** Some twenty variables are parsed, defaulted, clamped and dropped, and
  a request's settings take another shape for each provider.
* **Arithmetic.** The backoff shifts a 64-bit duration left and draws from the
  result; two caps bound it, one of them only for the provider's own hints.

What makes each component correct:

* Client: bounded attempts, none after a failure nobody can cure, at most one
  after the caller left, a verdict that matches the last attempt, a hook event
  per attempt, waits no shorter than asked and no longer than configured; the
  call returns.
* Observed stream: reported exactly once, as completed exactly if it was.
* CollectStream: everything of a stream that ended cleanly, nothing otherwise.
* Listings: all models, once and in order, or an error; an end even where the pages have none.
* SSE reader: the records the lines make up, none of a body that was cut off, and the
  truth about how the body ended.
* Telemetry: every operation and every token counted once.
* Decoders: whole calls, everything in order, the last totals, no truncated
  answer taken for a whole one, and the Stream contract.
* Streaming handler: no interleaved or late write, events in order, one terminal
  frame, no leak of handler, heartbeat or upstream when the client leaves.
* Messages: what a provider said is what it, or another one, is told it said;
  a tool result finds its call; what a caller was given is accepted again; a setting
  means the same to every provider.
* Server and process: no handler without a token, no more of them than the cap
  however they end, readiness fails before the listener closes, a stop cuts a
  request only at the end of its grace period, and a signal ends the process; the
  environment, and nothing else, decides what is configured.

## 2. Modules

| Module | Models | Uses |
|---|---|---|
| `RetryPolicy` | options, error classes, shouldRetry, backoff | |
| `CallSpec` | abstract: what a call promises its caller | |
| `Client` | one call on a Client, with contexts and timers | extends RetryPolicy; refines CallSpec |
| `ModelsListing` | Client.Models with the adapters' pages inside its attempts | extends Client |
| `StreamContract` | abstract: what a `skyl.Stream` may do | |
| `ObservedStream` | the wrapper and its consumer, CollectStream among them | extends StreamContract |
| `Telemetry` | the OpenTelemetry hook over a call and its stream | extends ObservedStream |
| `SseReader` | the reader of Server-Sent Events | |
| `OaiStream` | the decoder of the OpenAI-compatible core | refines StreamContract |
| `GeminiStream` | the decoder of the Gemini adapter | refines StreamContract |
| `AnthropicStream` | the decoder of the Anthropic adapter, over the SDK's accumulator | refines StreamContract |
| `GatewayStream` | handleChatStream and its heartbeat | extends StreamContract |
| `GatewayServer` | the gateway process: configuration, middleware, handlers, shutdown | |
| `Environment` | ConfigFromEnv, and the process started with what it yields | extends GatewayServer, RetryPolicy |
| `Mapping` | Validate, the gateway's JSON, the adapters' messages and replies, as operators | |
| `Settings` | the other fields of a request: their checks, and the payload of each adapter, as operators | |
| `Conversation` | a conversation over several requests and providers | extends Mapping, Settings |
| `MC*` | the instances TLC checks | |
| `Subsequences` | `Among`: the members of a sequence that lie in a set, in order | |
| `SequenceLemmas` | lemmas: induction over numbers and sequences; sequences filtered and joined | TLAPS |
| `ClientProofs` | theorems about Client, backoff and ModelsListing | TLAPS |
| `StreamConsumerProofs` | about ObservedStream, Telemetry and GatewayStream | TLAPS |
| `GatewayServerProofs` | about GatewayServer and Environment | TLAPS |
| `OaiStreamProofs`, `AnthropicStreamProofs` | about these two decoders | TLAPS |
| `GeminiStreamProofs` | about GeminiStream and SseReader | TLAPS |
| `ConversationProofs` | about Mapping, Settings and Conversation | TLAPS |

Three modules compose others by extending them: a step of `ModelsListing` is a step of
`Client` or a stutter of it, and so are `Telemetry` over `ObservedStream` and
`Environment` over `GatewayServer`. What is proved of the smaller system therefore
holds in the larger one (section 4).

### Client and RetryPolicy

A Client keeps nothing between calls but its options, so one call stands for
any number of concurrent ones. Complete, Stream (up to the handshake) and Models
share one loop, and `op` tells them apart where the code does: Models is not
validated and stops at an unsupported endpoint, Stream has no attempt timeout.

| Code | Model |
|---|---|
| New and the options | `Init`, `Configured` |
| validation fails | `Reject` |
| the provider is called | `StartAttempt`, in `FirstAttempt` and `Wake` |
| the call into the provider returns, hooks run, verdict | `Succeed`, `FailForGood`, `FailAndWait`, `GiveUp` |
| sleep's select | `Wake`, `StopWaiting`; both enabled when both are ready |
| context.WithTimeout fires; the caller cancels | `AttemptExpires`, `CallerDone` |

The provider is the environment: it answers with any error of a small set that
has a member of each class `shouldRetry` and `Stops` tell apart, or with the
error of a context that is done. `backoff` keeps its fixed width: durations
live in a signed word of `2 * HalfWord` values and the shift wraps.

`CallSpec` knows neither policies nor errors: attempts within a budget, one
verdict, no new retry for a caller already cancelled. `KeepsPromise` is the
refinement.

### ModelsListing

A catalogue is its pages and the page that the last one names as the next, so that a
host whose pages lead back to an earlier one is a catalogue as any other. `StartListing`
joins the Client's start of an attempt with the listing's first page, `PageArrives` and
`LastPageArrives` are the loop of an adapter's Models (`LastPage` has the conditions under
which each of them stops), and `PageFails` is the Client's verdict on a request for a
page that failed. Gemini's loop is skyl's own, Anthropic's is the SDK's, and an
OpenAI-compatible host has one page. Which entries are listed, and under which name,
differs too (`Listable`, `ModelInfo`).

### StreamContract and ObservedStream

`StreamContract` is what stream.go and the adapters have in common: events are
delivered in order, nothing follows a done event, a clean end comes only after
it, a failure may come at any time and is final, Close is idempotent. It also
allows what the decoders really do and an ideal stream would not: a failure
after the done event, and reads after Close.

`ObservedStream` puts the wrapper on top, with its fields, and the consumer:
code that calls Next and Close in any order, or CollectStream. `reports` is what
the hooks were given. A call of the wrapper is one step: the contract of a stream
is one consuming goroutine.

### Telemetry

The hook is given an event per attempt (`AttemptFails`, `AttemptSucceeds`) and one when the
wrapper reports the end of a stream (`StreamStep` looks at whether `reports` grew in the
step). `Record` is otel.record: durations, tokens where a count is not zero, and a span if
spans are wanted. Which failures are retried is `Client`'s matter; here an attempt that
fails may be the last or not.

### SseReader

`ScanLine` is a turn of Next's loop for one line, `BodyEnds` a body that ends between two
lines, `ScanEnds` the end of the loop. A body may end cleanly, with the connection, or
with a line the scanner cannot hold, after a newline or in the middle of a line. `body`
remembers the lines; `RecordsFaithful` parts them at the blank ones (`Group`) and puts each
record together from its group of lines (`RecordOf`), without any of the reader's state.
It is about records with data. Where a record would have an event name and no data
(`BareNames`), the comment in Next and its code disagree, and `RecordsFaithful` accepts either.

### OaiStream

The consumer is inside Next (`reading`) or between two calls (`idle`). A step
reads one record, the way one turn of Next's loop does, and the provider may send
any record of `Frames`, end the body, or break the connection; Close may
come between two calls. `sent` and `log` remember what went in and came out; the
properties compare the two with definitions that do not use the decoder's state
(`WholeCalls` puts a call together from all its fragments at once).

### GeminiStream and AnthropicStream

The two other decoders have the same shape and differ in what is hard about them.

A Gemini record may carry several parts, so one turn of the loop queues several
events (`ReadCandidate`) and later calls hand them out (`HandOutQueued`) before
anything is read. There is no sentinel: the terminal event comes at the end of the
body (`ReadEOF`), and a `finishReason` is the only sign that the answer is whole.

The Anthropic decoder reads events from the SDK, passes text and thinking on as they
come, and takes calls, totals and the stop reason from the message the SDK
accumulated, at the end of the stream (`ReadEnd`, `Finish`). `Accumulate` is what
the adapter relies on the SDK for and is not part of this repository; a
message_start comes first or not at all, as in the provider's protocol. What it
gathers is compared with the transcript: `Told` has what the records of `sent` amount
to, and its `CallAt` puts a call together from all its `Pieces` at once.

### GatewayStream

Two goroutines with a program counter each. A write begins in one step and ends in
another, so two overlapping writes would be a state of the model. The mutex, the
done channel, `<-exited` and the order of the deferred calls (unlock, stop the
heartbeat, close the upstream) are explicit. The client reads, stalls and leaves
at any moment; net/http ends the request's context some time after it left.

### GatewayServer

The process and its requests, each a connection with one request. Process and
requests share the draining flag, the listener, the throttle's slots and the
life of the process; everything else of a request is its own.

| Code | Model |
|---|---|
| NewServer on the configuration; the map of tokens | `Start`, `Valid`, `TokenMaps` |
| ListenAndServe and its error; the signal | `Listen`, `AcceptFails`; `Signal` |
| main's select, both ways; StartDraining | `ListenerError`, `Drain` |
| the end of drainDelay, Shutdown, Close, return | `Shutdown`, `ShutdownReturns`, `GraceExpires`, `CloseAnyway`, `ReturnFromMain` |
| routes: healthz, readyz and metrics, cors, authenticate, Throttle | `AnswerProbe`, `AnswerPreflight`, `RefuseToken`, `RefuseLoad`, `Admit` |
| the handlers | `AnswerProviders`, `Reject`, `CallProvider`, `ProviderAnswers`, `ProviderFails`, `ContextDone`, `StreamEnds` |
| the way out of handler, throttle and logger | `Return`, `Panic` |

The middleware is one step: on each way through it, one piece of shared state is read
(the draining flag, or the slots). net/http and chi are external: they accept, notice a
client that left, wait for connections at work in Shutdown, and give a slot
back when the handler behind it ends. A request in the phase `upstream` stands for a call on the Client,
and one in `streaming` for the rest of handleChatStream, which is `GatewayStream`.
A connection may be accepted and its request read until the process is gone, which is
why a `connected` request is told apart from one at work: Shutdown closes only the former.
Left out: errors of closing the listener, which Shutdown and Close would return.

### Environment

An environment is what the variables hold, cut at commas and colons and, where a number, a
duration or a boolean is asked for, parsed or known not to parse. `Parses` and
`ConfigFromEnv` are config.go's function of that name in its two outcomes;
`ClientPolicy` and `ClientTimeout` are what the options it collects make of a client's
defaults, through the same operators as `Client`'s `Init`, and `ServerLimits` what
NewServer makes of the two intervals. `EnvSpec` is `GatewayServer` with `cfg` chosen by `env`.

### Mapping, Settings and Conversation

`Mapping` has what becomes of a turn: the parts, their validation, the gateway's JSON
in both directions, the wire message of each adapter, and the parts an adapter takes
from a reply. A text is a sequence of pieces, so that joining shows; base64 puts
a mark in front of the data; the arguments of a call are told apart as absent, broken,
holding a number beyond float64, or sound.

`Settings` has the rest of a request: model, system prompt, limits, stop sequences,
tools with their schemas, tool choice, thinking, response format and ProviderOptions. A
payload is a function from fields to values, built as the adapters build it: a field that
is not set is not there. ProviderOptions come last, and what a key means depends on the adapter.
The OpenAI-compatible and the Gemini one put them over the payload by whole fields (`Merge`).
Anthropic's writes them into the encoded body, one after the other in the order of their keys,
where a key with a dot is a path (`WriteInto`): `output_config.effort` sets the effort and leaves
the format beside it, and an option for all of `output_config` comes before it, so that the path
wins where the two overlap. `Dotted` is the table of the keys that are such paths. A
schema comes with its list of required names as strings or, decoded from JSON, as
values, since requiredNames of the Anthropic adapter tells the two apart.

`Conversation` runs turns through both. skyl keeps nothing between two requests, so the state is
the caller's: the history he sends each time, with `origins` to remember what each turn
was, as the provider put it or as the answer to which call. He writes a turn
(`WriteTurn`), asks any provider (`Ask`, whose `Verdict` is decodeChat, Validate and the
conversion in the code's order), and answers the calls of a reply one message each or
all in one (`AnswerCall`, `AnswerCalls`). Every request has settings of its own, which
`Heard` reads back off the payload by the rules of the provider that gets it. `Places` has the
place of each setting in a payload, and `SettingsCarried` excepts a setting only where an option
is written to its place, into it or around it (`Meet`). What the options themselves come to is
`OptionsCarried`. `request` has the wire messages of
each turn apart, where the adapters append them to one list. `Reply` is the adapter's
Complete and the gateway's response: a refusal without content is an error, and
arguments that are not JSON leave a gateway's caller with a 200 and no body
(`unreadable`). Not in it: the stop reason, usage and raw bodies of a response.

## 3. Runs

| Run | Question | Distinct states |
|---|---|---|
| `client` | Are retries, waits, hooks and verdicts as the policy says under every race, does the call keep CallSpec's promise and return? | 396 000 |
| `models_listing` | Is a listing that succeeds whole, whichever page failed at first, and does it return where the pages lead to an end or time runs out? | 45 000 |
| `observed_stream` | Is every stream reported once and truthfully, does CollectStream return all or nothing, and do the metrics have every operation and token once? | 175 000 |
| `sse_reader` | Does the reader surface the records with data its lines make up, and tell a body that ended from one that was cut off? | 367 000 |
| `oai_stream` | Does the decoder deliver what was sent, and keep the Stream contract, whatever comes in and wherever it ends? | 517 000 |
| `gemini_stream` | Are events of one record and of several delivered in order, with the right totals and never a truncated answer for a whole one? | 53 000 |
| `anthropic_stream` | The same for the accumulated message: whole calls, the prompt's total with its cached parts, one flush | 560 000 |
| `gateway_stream` | Do handler and heartbeat stay apart, does the client get its events and a terminal frame, does a hang-up free everything? | 42 900 |
| `gateway_server` | Does the environment alone decide what is configured, do token and cap decide what gets in, however requests end, and is a stop orderly and sure? | 318 000 |
| `conversation` | Does everything said reach the next provider, do results find their calls, is a setting heard by every provider, are the options applied last and in order, and is what a caller was given accepted again? | 786 000 |
| `stream_timeout`, `call_without_tool_use` | Does the code do what its docs say here? It does not: section 6 | |

Every property has a mutant in `PROJECT.json`: a change of one definition, such as
a bug in that code would be, under which TLC finds the property violated.

### Bounds

* `HalfWord = 8`, `MaxShift = 1` (Client): durations are -8..7. The delay options
  hold a base whose shift wraps to a negative number, three retries take the
  shift past its cap, and the caps lie below and above the jitter ceiling,
  so every branch of `backoff` is taken. Larger words repeat these cases;
  `ClientProofs` covers them all.
* Up to three retries: more than one wait to sum, and more than one chance for a late
  call.
* Catalogues of up to three pages, `MaxPages = 4`, up to two retries (ModelsListing): an
  empty page, entries without a name, a last page that names nothing, itself, the
  first page or one between; an attempt that fetches one page more than there are
  stands for one that never stops.
* `MaxEvents = 4` (ObservedStream): two of a kind, to see order and loss, among
  others and the done event. `MaxAttempts = 2` (Telemetry): an attempt that fails, with every
  class of error the hook tells apart, before one of either outcome.
* `MaxLines = 5` (SseReader): two records, one of two lines and one unfinished, with the
  blank line between; or a record of several data lines of which some are empty. The
  values have no leading space, one or two.
* `MaxFrames = 5` (OaiStream): two calls interleaved over three chunks, plus a
  finish reason and a usage chunk or sentinel after them.
* `MaxFrames = 4` (GeminiStream): two records of several parts, a finish reason and a
  record of usage alone after it; or two finish reasons.
* `MaxEvents = 5` (AnthropicStream): a start, a call of two blocks or of a block and its
  pieces, a stop; or two stops. A second text block and a call with three pieces
  at once would need six and repeat these cases.
* `MaxForwarded = 3`, `MaxBeats = 2` (GatewayStream): a keep-alive before, between and
  after events, one of them still pending when the handler stops.
* Two requests (GatewayServer): with a cap of one, one in flight and one refused, or
  one that takes the slot another gave back; one cut and one served at the exit. Nine
  environments: one capped, with CORS, metrics, a label that has the primary token's
  value and a label given twice; one uncapped, with values that are set and ignored;
  and seven that must not start: without a token, a provider, a known default
  provider, with a token without a label or a label without a token, and with a value
  that does not parse, one of them read early and one late.
* `MaxMessages = 5` (Conversation): a turn, a reply with two calls, their results in one
  message or two, and a second reply or turn after them; or two replies of
  different providers. The conversion of a turn does not depend on the others, so
  more of them repeat these cases. `ConversationProofs` covers conversations of any
  length. `MaxWished = 1`: only the requests of at most one turn have
  settings other than the plainest, because a payload's settings and its turns do not
  depend on each other, and a verdict on both is a conjunction. Among them are options for a
  whole field that skyl sets or leaves alone, paths beside what skyl sets in an object and over
  it, into an object that is not there, and a path together with an option for the whole object.

The bounds cap environments (events, records, ticks), except that the Client
needs none: its own budget ends it. CHECK_DEADLOCK is off where a call, a stream or a
request ends, which is everywhere but in `sse_reader`.

### Fairness

* Client: the call's goroutine is scheduled, timers fire, and an adapter
  returns once the context it was given is done, since every request is made with
  that context (`internal/httpx`). A provider that hangs owes no answer and the
  caller never has to cancel: hence `CallReturns` says of a unary call that it
  returns only with a timeout, and of any call that it does once its caller is gone.
* ModelsListing: besides, a host sends the page it is asked for unless the request fails.
  Without an end of the pages it does so for ever, and `ListingReturns` asks for a
  timeout or a caller that leaves.
* GatewayStream: goroutines run; strong fairness for taking the mutex, as
  `sync.Mutex` hands itself to a waiter that starves; a write ends unless the
  client stalls; net/http notices a connection that ended; a stream bound to
  an ended context answers its Next. A client may stall for ever, no tick has to
  come, no provider owes an event.
* GatewayServer: the process runs and its sleeps and deadlines pass. A Client
  returns when its context is done, which is `CallReturns` of the client. A response to a client that does not read may
  block for ever, so a handler need return only once its client has left, and a
  stop relies on the grace period instead.

## 4. Proofs

All theorems hold for every value of the constants under the modules' named
assumptions (`PolicyAssumption`, `ClientAssumption`, `ContractAssumption` and its
relatives), which TLC evaluates in the passing runs.

* **`ClientProofs`.** The properties are not inductive as they stand: that a late
  call was the only one needs to know that it was the last, and that a verdict fits the
  last attempt needs the number of calls to follow the loop variable.
  `LoopInvariant` says both, and that the failure slept on is the last one
  reported and curable. `SafetyInvariant` joins it with the type invariant and
  the properties; `Safety` proves it, action by action, and the other theorems
  read off it: `TypeCorrect`, `HooksComplete`, `RetriesCurable`,
  `VerdictJustified`, `LateCallBound`, `HintsHonoured`, `TotalWaitBounded`.
  `Refinement` proves that every step is a step of CallSpec or a stutter.
  `BackoffBounds` and `LongerHintNeverShortens` are about `backoff` itself, for all
  widths; the second needs the hint's cap to be at least the maximum delay,
  and with a smaller cap it is false. `ListingKeepsPromise` carries the refinement over to
  `ModelsListing`: every step of a listing is a step of Client or a stutter, and the
  listing starts in a state of Client.
* **`ClientProofs`, of the listing.** `ListingInvariant` says that while pages are
  left that were not fetched, the token is that of the next one and what is on its way is the
  models of those before it, in order; and that afterwards the pages lead back (`LeadsBack`), so
  that the listing can only fail. `CatalogueWhole` follows: for any catalogue and any
  failures, a listing that succeeds is whole.
* **`StreamConsumerProofs`.** `WrapperInvariant` ties the wrapper's flags to the
  history: completed exactly if a done event was delivered, fired exactly if
  that or Close happened. `Once` and `Truthful` follow. `Collected`: CollectStream's
  response is what the events delivered add up to, or nothing. `RecordInvariant`
  counts what the hook has recorded against what attempts and stream reported;
  `Metered` reads off it that every operation and token is counted once.
  `OnceWithTelemetry`, `TruthfulWithTelemetry` and `CollectedWithTelemetry` say the same as
  the first three of a stream that the hook listens to.
* **`StreamConsumerProofs`, of the gateway.** `MutexInvariant` says who holds the mutex in
  terms of the two program counters, and that the heartbeat's life lies within the handler's.
  `Exclusive`, `Released` and `TypeCorrect` follow. `EndInvariant` says for each control
  point what the response's last frame may be; `EndSent` reads off it that a handler that
  returned to a client that stayed has sent a terminal frame, unless an event could not be
  encoded. `InOrder`: the frames other than keep-alives are the events of the
  stream, in its order.
* **`GatewayServerProofs`.** For any requests, tokens and configurations. `Inv` has five
  parts beside the types: which phases hold a slot (`PhasesInvariant`), that every
  accepted token is a configured one (`TokensInvariant`), that who is in
  flight presented one of them and has no 401 (`CallersInvariant`), the slots taken against
  the cap (`BudgetInvariant`, with the library's facts about cardinality), and the
  stages of a stop (`StopInvariant`): without the last, that an exit with
  status 0 came after draining would not follow from the step that exits.
  `TypeCorrect`, `CallersOnly` and `Orderly` follow; `CallersOnlyFromEnvironment` and
  `OrderlyFromEnvironment` are the same for a process started in any environment.
  `ConfiguredByEnvironment` needs three more parts, on what was chosen, on what the start
  made of it and on what the requests were answered.
* **`SequenceLemmas`.** The library's induction theorems take an operator as a parameter,
  which the provers here cannot instantiate. `NatSetInduction` and `SeqSetInduction` state induction for a
  set instead of a predicate, from the least member of a set of numbers, and the lemmas
  of the module are proved with them: what `FlattenSeq`, `Among` and `FlatMap` make of
  a sequence that grows by a member, of a concatenation, of nothing, and of a sequence that is
  mapped or filtered once more. All proofs about
  histories below rest on them.
* **`OaiStreamProofs`.** `Progress` orders the flags (signal, terminal record seen, flushed,
  done), `Terminal` ties the done event to the end of the log and to a wire on which no
  record can follow. `NeverTruncated` follows, and `Refinement`: for any records, the decoder
  is a Stream as `StreamContract` has it. `Faithful` rests on `Delivery`: each call in the
  decoder's buffer is what the fragments of its index amount to, and what was handed
  out, with the calls still in the buffer after it, is the texts that came and the whole
  calls, in the order in which they began; and on `Totals` for the usage and the stop
  reason of the done event.
* **`GeminiStreamProofs`.** `Delivery`: the log, followed by the queue, is what the parts of
  all records amount to; `Progress` orders the flags and `Totals` has the usage and the
  stop reason. `Untruncated`, `Faithful` and `Refinement` follow.
* **`AnthropicStreamProofs`.** `Progress` has what flags and queue may be before and after
  the provider's stop reason. `Delivery`: the log and the queue are what was told
  (`Told`), and the SDK's accumulated message is `MessageOf` the transcript.
  `NeverTruncated`, `Faithful` and `Refinement` follow.
* **`GeminiStreamProofs`, of the reader.** For any lines. `Collection`: in the loop, Next's
  locals are the record that the lines since the last blank one make up so far, and between
  two calls no line is under way. `Surfaced` follows, of a stronger statement (`AllSurfaced`) by
  which bare event names are surfaced too; what the data lines come to, joined
  one by one, against the newlines put between all of them, is a matter of lemmas
  (`TrimmedConcat`, `JoinedTrimmed`). `EndsTold`: what Next and Err say of the end of a body
  is true.
* **`ConversationProofs`, of turns.** About the gateway's JSON, for every turn. `RoundTrip`: what it renders
  it accepts, and reads back as the same message; provided that Validate accepts the
  turn and that an image has one source (`OneSource`, which message.go asks for: of an
  image with both, the URL is lost). `MirrorsValidate`: what it accepts passes Validate,
  provided that the turn is not empty and that the base64 of an image decodes to
  something (`SomeData`). Both reduce to a lemma about one part.
* **`ConversationProofs`, of settings.** `EverySettingCarried`: whatever settings a request
  has, each provider hears them, except where its options write over them. Its invariant (`SentAsAsked`) is short: a payload that was
  sent was made of settings of the caller's that passed Validate. The work is in what the
  payloads say. A payload is an overlay of objects of one field each; if their names differ
  (`Fields`), each field says what its own object says (`AmongTen` and its like), which
  makes one fact per setting and adapter (`OaiTells`, `GeminiTells`, `AnthropicTells`); the
  provider's reading of these facts gives the setting back (`OaiHears` and so on). What
  Anthropic's paths leave alone is a matter of two lemmas: a field that no option names or leads
  into (`GetWritten`), and a field of an object beside the paths into it (`GetWrittenBeside`).
  `EveryOptionCarried`: what the options write is there, by `MergeCarries` and `WriteCarries`. A tool's
  schema means the same in each adapter's form, and after the gateway's decoding
  (`GatewayDecodesSettings`). Assumed is that `MaxTokensField`, which a caller may choose
  (`WithMaxTokensField`), is not the name of another field of the payload; and of the paths
  (`DottedAssumption`) that each has one key and two names, the first of them an object's.

* **`ConversationProofs`, of conversations.** For turns, replies and outputs of any kind, in any
  number. `TurnsTraced` and `RequestTraced` are the invariant: every turn is the caller's, or
  is rendered from a reply that some provider may give, or holds one result for each call it is
  said to answer, of a reply that is in the conversation; and a request was made of, and judged by,
  just these turns. The three properties need it because they speak of what was said turns ago,
  of which only the history is left. One lemma says that a traced turn stays so (`TracedStays`),
  one that the caller of the gateway gives back what he got (`BackFromCaller`). What is in a turn
  is a matter of operators: the parts an adapter takes from a reply have its text and its calls
  (`PartsSay`), what it sends for them has them again (`MessageSays`), a call is the same after
  both (`CallComesBack`), in the same place among the texts (`OrderKept`), and a result
  has its call's key (`ResultsSay`). `EveryTurnCarried` and `EveryResultReachesItsCall` put these
  together; `EveryAppendedTurnAccepted` shows that `Verdict` finds nothing against a plain turn
  (`PlainAccepted`), a reply (`ReplyAccepted`) or results (`ResultsAccepted`). Assumed is that replies and outputs
  have texts where they say they have (`IsReply`, and `Outputs` in `ConversationAssumption`), and nothing of
  the turns a caller writes.

Only model-checked:

* Everything temporal under fairness (`CallReturns`, `ListingReturns`, `HandlerReturns`,
  `SignalEnds`, `RequestsReleased`): the prover handles neither fairness nor ENABLED.

## 5. Hazards

`PROJECT.json` lists what this code does that a test would hardly reach, at its
line, with the properties that would notice it going wrong, or the reason why
there is none yet.

## 6. Where code and documentation disagree

* `stream_timeout`: docs/gateway.md and docs/threat-model.md call the attempt
  timeout the only bound of a streaming request. Client.Stream applies none, so
  a provider that accepts the connection and never answers holds the call until
  the caller cancels.
* `call_without_tool_use`: docs/feature-matrix.md says of Gemini that a response with
  any function call reports StopToolUse whatever its finishReason. The streaming
  decoder looks only at the parts of the record that carries the finishReason:
  a call in an earlier record leaves the stop reason at end_turn.

More are in the models, or in the code beside them, without a run of their own:

* HookEvent.Completed says that a stream failing mid-flight is reported. It is only if the
  consumer also closes it; a loop that reads to the end and does not close, which
  observedstream.go sets out to serve, reports nothing (`RecordedOnce`).
* CHANGELOG.md says that the assistant's turn can be appended and replayed verbatim, and
  gateway/api.go that it has to be. The Anthropic adapter decodes a call's arguments into
  an `any`, which turns an integer beyond 2^53 into another one (`TurnsCarried` excepts it).
* docs/gateway.md calls all pairs of SKYL_AUTH_TOKENS valid at once. Of two tokens with one
  label only the later is accepted (`EnvironmentDecides`).
* otel.Hook's comment says that streaming is reported twice, at the handshake and at the end.
  record drops every OpStream event, so a stream that never starts is in no metric.
* A comment of the Gemini adapter offers thinkingConfig through ProviderOptions, "merged
  last". The merge is of whole fields, and thinkingConfig lies in generationConfig, so this
  drops every limit and format of the request (`Places`).
* A comment in sse.go says that records without a data field, bare event names among them,
  are skipped, since callers cannot act on them. The code keeps a flag that an event line sets
  as well, so a record of a name alone is surfaced with empty data (`EndRecord`;
  `RecordsFaithful` accepts either).
* maxEventBytes in sse.go bounds a line, not, as its comment says, an event.
* A Gemini catalogue whose only page names itself is listed twice, since the guard compares a
  page's token with the one it was asked with, and the first is asked with none
  (`ListingWhole` excepts it).
* The decoder of the oai core delivers its done event at [DONE] and then reads on; if the
  connection breaks before the body ends, a stream that has reported success fails
  (stream.go: "the final event of a successful stream").
* docs/data-handling.md says that a request's log line carries the label of its token.
  logRequests sits outside authenticate and reads the request it was given, while
  the label is in the context of a copy.
* A comment in routes says that a panic is still logged; logRequests does not defer its
  line, so a panic passes it by (`Panic`).
* writeSSE says that it reports whether the client is connected; it also reports false for
  a payload that cannot be encoded, and the response ends without a terminal frame.
* A listener that has failed while a signal is waiting may be taken for an ordinary stop,
  with status 0 (`Drain`).
* Of a reply the docs say to append it to the conversation and send it back. One without
  text or calls has no parts, and Validate refuses every request that has it
  (`AppendedTurnsAccepted` excludes it).
* Gemini is sent a result under its CallID as the function's name. For a call that Gemini
  made the two are the same; a call that another provider made has an id of its own, and
  its result reaches Gemini under a name no function has (`ResultsReachTheirCalls` excludes it).
* Arguments that are not JSON make the request to Gemini unencodable. PostJSON reports this
  like a failed connection, so the Client retries what no retry can cure.
* That `is_error` is lost on its way to Gemini, and to OpenAI for an empty result, is
  documented (docs/feature-matrix.md), and the model has it.

## 7. Not modelled

* `internal/sandbox`, `internal/cassette`, `internal/providertest`,
  `internal/testutil`, `cmd`: test support. The faults the sandbox injects are
  choices of the environments above.
* The I/O of `internal/httpx` (requests, headers, the limit on an error's body) and the
  exporter behind `gateway/telemetry.go`.
* Parsing of text: numbers, durations and booleans of the environment, JSON, HTTP dates,
  the scanner's cutting of a body into lines. A value arrives parsed, or known not to parse.
* Of Anthropic's option keys, paths of more than two names, paths into lists (`system`, `tools`,
  `stop_sequences`) and the rest of the path syntax of the library behind
  `option.WithJSONSet`: escapes and appending.
* CORS response headers, bodies of the gateway's unary responses, access-log lines, names of
  models and request attributes in telemetry, propagation of trace headers.
* Usage's sums and the usage of a unary response, which is copied field by field.
* Paging and accumulation inside the Anthropic SDK, net/http, chi: modelled as this code
  relies on them, marked external.
* Concurrent use of one stream: stream.go excludes it.

## 8. Plan

Done: all modules of section 2, their runs, and proofs about all of them.

Left, in this order:

1. A finer `OaiStream` for one hazard listed without a property: a connection that breaks
   between the finish reason and [DONE]. The code does not say whether the response was
   complete, so a property needs that decision first.
2. A client that stalls for ever under a heartbeat's write: `HandlerReturns` makes an
   exception of it, as the server sets no write deadline. With one in the code, the
   exception goes.
3. The sums of Usage over attempts and turns, once something in the code depends on them.
