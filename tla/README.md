# A TLA+ project for posthog-go

posthog-go is a client library. An application calls `Enqueue`, `GetFeatureFlag`,
`Emails.Send` and friends; goroutines of the library batch and upload events,
keep feature flag definitions fresh and retry what failed, until `Close` stops
them. This directory holds TLA+ modules translated from the Go source, TLC
configurations that check them on small instances, and TLAPS proofs of the most
important safety properties for every value of the constants. `PROJECT.json`
maps each definition to the lines it models.

- [The system](#the-system): components, state, interactions, hard behaviours
- [The modules](#the-modules) and how they correspond to the code
- [The runs](#the-runs): what is checked, the bounds, what was found
- [Fairness](#fairness)
- [The proofs](#the-proofs)
- [What is not modelled](#what-is-not-modelled)
- [Plan](#plan)

To repeat a run: `tlc -config delivery_v1.cfg MCDelivery.tla`; to repeat a
proof: `tlapm DeliveryProofs.tla`.

## The system

### Components

| Component | Source | State | Operations |
|---|---|---|---|
| Delivery pipeline | posthog.go | channels `msgs`, `batches`; the loop's batch; `inFlight`; `deliveries` with their done channels | `Enqueue`, `loop`, `sendBatch`, `processBatch`, `send` |
| Capture-v1 upload | capture_v1*.go | pending events of a batch, attempt number | `sendV1`, `partitionV1Results` |
| Flush | flush.go | `flushRequests`, done channels a caller waits for | `FlushWithContext`, `beginDeliveryAttempt`, `completeDelivery` |
| Close | posthog.go | `closed`, `quit`, `shutdown`, `ctx` | `CloseWithContext`, the quit case of `loop`, `awaitDrain` |
| Callbacks | message.go, posthog.go | - (the application's) | `Callback.Success`, `Callback.Failure`, the recover of `processBatch` |
| Definitions poller | featureflags.go | `state` (definitions and their ETag), `loaded`, the poller's context | polling goroutine, `ForceReload`, `GetFeatureFlags` and the getters, `shutdownPoller` |
| Definition cache provider | flag_definition_cache.go | external: cache entry, lease | `ShouldFetch...`, `Get...`, `On...Received`, `Shutdown` |
| Email client | emails.go, emails_error.go | `closed`, `inFlight`, `ctx`; per call the attempt and its error | `Send`, `Get`, `start`, `request`, `retryDelay`, `close`, `drain` |
| Flag-called events | feature_flag_evaluations.go, posthog.go | per snapshot `accessed`; per client the LRU of reported events | `recordAccess`, `captureFlagCalledIfNeeded`, `OnlyAccessed`, `Only`, `cloneWith` |
| Local evaluation | featureflags.go, feature_flag_property_group.go, groups.go | one snapshot of definitions, a cache of dependencies per evaluation | `computeFlagLocally`, `matchFeatureFlagProperties`, `matchProperty`, cohorts, `definitionUnresolvedReason`, `filterDefinitionError` |
| Flag resolution, remote requests | flags.go, posthog.go, featureflags.go | the snapshot a call selected, its attempts | `GetFeatureFlagResult`, `GetAllFlags`, `SendFeatureFlags`, `EvaluateFlags`, `makeFlagsRequest` |
| Request context | request_context.go, posthog.go | values of a `context.Context`, the writer's status | `NewRequestContextMiddleware`, `WithRequestContext`, `EnqueueWithContext`, `capturePanic` |
| OpenTelemetry bridge | otel/ | store of contexts by span, active requests | `OnStart`, `OnEnd`, `Shutdown`, its middleware |
| MCP: go-sdk servers | posthogmcpsdk/ | catalog generations, walks, generated sessions | `lookup`, `walk`, `advertise`, `receive`, `send`, `resolve` |
| MCP: mcp-go servers | posthogmcpgo/ | calls in flight, generated sessions | `beforeCall`, `afterCall`, the middleware, `touch`, `sweep`, `forget` |
| MCP: events | posthogmcp/ | - | `CaptureToolCall`, `prepareToolCall`, the stages of an event that is too large |
| Delays | backoff.go, posthog.go, capture_v1_send.go | - | `Duration`, `Retry-After` |
| Configuration | config.go, feature_flag_config.go, system_context.go | - | `validate`, defaults |
| Messages | capture.go, alias.go, identify.go, ... | - | validation, JSON |
| Error tracking | error_tracking*.go | - | builds messages, calls `Enqueue` |
| No-op client, logger | noop_posthog.go, logger.go, error.go | - | - |
| Programs | cmd, examples, extras, sdk_compliance_adapter | - | use the library |

### Interactions

```
 callers ── Enqueue ──► msgs ──► loop ──► batches ──► processBatch (one per batch)
    │                              ▲                        │ upload, retry, partial results
    │                 Flush ───────┤◄── done channels ──────┤
    │                 Close ─ quit ┘         inFlight ──────┤
    │◄──────────────────── Callback.Success / Failure ◄─────┘
    │
    ├─ GetFeatureFlag ─► poller.state ◄── poller goroutine ◄─► server, cache provider
    │        └─ flag-called event ─► LRU ─► Enqueue
    ├─ snapshot reads ─► accessed ─► LRU ─► Enqueue
    └─ Emails.Send ─► HTTP with retries         Close: loop ─► shutdownPoller
                                                Close: emails.close (drain, abort)

 HTTP handlers ── middleware ─► request context ─► EnqueueWithContext, EvaluateFlagsWithContext
                       └─ panics ─► $exception         └─► spans (otel processors)
 MCP servers ── listings ─► catalog ─► calls ─► events ─► Enqueue
                                   sessions ┘
```

`Close` ties the parts together: `emails` refuse new calls, the loop drains, the
poller is stopped from the loop goroutine, and all that within one deadline.

### Hard behaviours and what makes each component correct

*Delivery.* `Enqueue` reads `closed` and sends on `msgs` much later; the loop
closes that channel on shutdown. A batch is registered, counted and then perhaps
refused by the full channel. Done channels are replaced when a batch is retried,
while Flush callers hold the old ones. `awaitDrain` trusts a counter. A
capture-v1 response settles some events of a batch and leaves the rest for a
retry. Correct means: a message that was accepted has exactly one owner until it
gets its one outcome; nobody waits for a channel that nobody closes; a `Flush`
or `Close` that returns nil kept its promise; nothing is accepted afterwards.

*Poller.* Three sources write the definitions (server, cache, the 402 that clears
them) and an ETag is sent back that must name what is held. Provider calls may
outlive the shutdown. Correct means: a 304 never confirms the wrong definitions,
what is published is real, provider calls end when they should, and nobody who
waits for definitions, reload or shutdown waits for ever.

*Emails.* A request may time out at the client while the server works on it; the
transport may repeat it; its answer may break off; `Close` drains and then
aborts. Correct means: one email per send, a result only for a queued email,
nothing running after `Close`.

*Flag-called events.* Snapshot and client cache are asked and filled in separate
steps. Correct means: a read reaches Enqueue, which may refuse or drop its event, an event is
repeated only for a reason, a derived snapshot remembers what its parent
reported.

*Local evaluation.* A flag is decided by its first matching condition, each
condition with its own target (person, group), filters that may be undecidable,
cohorts that are negated and nested, flags that depend on flags and share a cache,
and reasons for what stays open that are computed twice: by the evaluation, and
by code that inspects the definition alone. Correct means: a call that passes
everything gets what the definition means; one that passes less never gets an
answer that more would contradict; the two reasons agree.

*Flag resolution.* Four calls mix local values and the server's answer, each in its
own way, while the poller replaces the definitions. Correct means: what is said of
a flag comes from one source; a failed request loses nothing that was known;
every flag has a value or a reason.

*MCP instrumentation.* The middleware must remove from a call exactly the argument
that it advertised on that tool, and knows this only from listings that other
requests cause, page by page, while tools change. A call is seen by hooks and by a
middleware; a session id has to be remembered as long as it is used, in a bounded
map; a conversation handle is minted before it is known to arrive. Correct means:
calls of settled tools are recognized and nobody waits for a walk that has ended;
calls are reported once, under the session and the conversation the agent knows.

*Request context and spans.* Contexts nest and are inherited, by goroutines that
outlive their handler too; panics pass several middlewares. Correct means: events,
flags and spans of a request name one user, unless a span names its own; an opt-out survives; a panic is
reported once by each middleware that reports; no span gets ids of a request
that is over.

`hazards` in `PROJECT.json` lists all of this line by line with the properties
that cover it.

## The modules

| Module | Models | Composed with |
|---|---|---|
| `Delivery` | pipeline, both upload modes, Flush, Close | base of the next three |
| `DeliveryContract` | what an application is promised | refined by `DeliveryRefinement` |
| `DeliveryRefinement` | the mapping from `Delivery` to the contract | |
| `DeliveryPanic` | `Delivery` with a `Callback.Success` that panics | extends `Delivery` |
| `FlagPoller` | pollers of several clients, server, shared provider | |
| `Emails` | calls, transport, server, `Close` | |
| `FlagCalled` | snapshots, client cache, an Enqueue that may refuse or drop | |
| `Verdicts` | what an evaluation may come to, and the order of reasons | base of the next five |
| `Semver` | versions and ranges of the `semver_*` operators | |
| `PropertyMatch` | one filter against the properties of a call | extends `Verdicts`, `Semver` |
| `LocalEvaluation` | flags, conditions, cohorts, dependencies; its recursion is tied by `MCFlags` | extends `PropertyMatch` |
| `FlagEvaluation` | an application that evaluates a flag with more and more properties | extends `LocalEvaluation` |
| `FlagMeaning` | what definitions mean, as a recursive reference definition | extends `FlagEvaluation` |
| `FlagResolution` | calls that mix local values and the server's | extends `Verdicts`; composed with `FlagMeaning` in `MCFlags`, which takes its verdicts from it |
| `McpCatalog` | the tool catalog of go-sdk servers | |
| `McpSessions` | session ids of both MCP adapters | base of the next two |
| `McpCalls` | calls of go-sdk servers, conversation handles | extends `McpSessions` |
| `McpGoCalls` | calls of mcp-go servers, hooks and middleware | extends `McpSessions` |
| `McpEvents` | the events of a call | |
| `RequestContext` | contexts, middlewares, panics, what an event takes from them | base of `OtelSpans` |
| `OtelSpans` | both span processors over `RequestContext` | extends it |
| `DeliveryProofs`, `FlagPollerProofs`, `EmailsProofs`, `FlagCalledProofs` | theorems | extend the module named |
| `DeliveryContractProofs` | the contracts of Flush and Close, the refinement, panics of callbacks | extends `DeliveryProofs`, `DeliveryRefinement`, `DeliveryPanic` |
| `FlagsProofs` | theorems on local evaluation, resolution, version ranges, filters and reasons | extends `FlagResolution`, `FlagEvaluation` |
| `McpProofs` | theorems on the catalog, sessions, calls and events | extends `McpCatalog`, `McpCalls`, `McpGoCalls`, `McpEvents` |
| `RequestContextProofs` | theorems on contexts, panics and spans | extends `OtelSpans` |
| `MC...` | model values, sizes, the definitions and calls of an instance | `MCFlags` and `MCAdapters` compose the modules they extend |

### Delivery

One message stands for one `Enqueue` call, one member of `Deliveries` for a
`*delivery` value with the goroutine that serves it. A batch is a set (its order
only shapes the body), channels are sequences, a message has a `Size` in place of
its bytes.

| Code | Module |
|---|---|
| `Enqueue`: validation, `closed`, BeforeSend and serialization, the select on `msgs` | `EnqueueCheckClosed`, then `EnqueueDiscard`, `EnqueueUnserializable` or `SendPrepared`, with the result in `enq[m]`; the time between the check of `closed` and the send is the state "preparing" |
| the select of `loop` | `lpc = "select"`: `LoopReceive`, `LoopTick`, `LoopFlushRequest`, `LoopQuit` |
| `processMessage`, `flushBatch` | `ProcessMessage`, `FlushBatch`, `AppendMessage`; the message in hand is `held` |
| `sendBatch` | `FlushBatch` registers and counts, `SubmitAccepted` passes the batch on, `SubmitRefused` undoes both and reports the batch |
| `processBatch` and its deferred calls | `ProcessBatch`, `Worker`: receive, `BeginUpload`, `UploadEnds`, `DeferRetry`, `RetryTimer`, `RetryInterrupted`, `ProcessBatchReturn` |
| `send`, `sendV1` | `UploadEnds` with the outcomes the code tells apart: accepted, terminal, retryable, in v1 per event (`PartitionV1Results`) |
| `beginDeliveryAttempt`, `completeDelivery` | `BeginDeliveryAttempt`, `CompleteDelivery`: a done channel is a pair of a delivery and a generation, `closedDone` those closed |
| `FlushWithContext` | `Flush`: `FlushCall`, request, reply, wait; `before` records what was accepted before the call |
| `CloseWithContext`, `awaitDrain`, deferred closes of `loop` | `Close`, `AwaitDrain`, `LoopShutdown`, `LoopCloseBatches` |

`successes`, `failures`, `absorbed` and `acked` record what the application and
the server see; `absorbed` holds the events a capture-v1 response leaves out,
which the code takes as accepted and reports to nobody.

### FlagPoller

Definitions are the version the server gave them, an ETag is the version it
names. The polling goroutine is `pc[c]`, one state before and one during each
outside call, so that the shutdown and its deadline can come in between.
`FetchNewFeatureFlags`, `CallProvider`, `Return` (`ShouldFetchReturns`,
`GetReturns`, `PutReturns`, `ReleaseReturns`), `FetchFlagDefinitions`, `Answer`
(200, 304, 402 `QuotaLimited`, failures) and `PollEnds` follow the functions of
the same names; `Tick`, `TakeReload`, `TakeShutdown` are its select;
`ShutdownPoller`, `PollerStopped`, `PollerAbandoned` run in the client's loop
goroutine. `ForceReload` meets the goroutine on an unbuffered channel; when the
client is closed first, the goroutine closes that channel and the waiting send
panics in its caller (`ForceReloadPanics`). The server's versions, the provider's
cache entry and its lease are the environment.

### Emails

`Start` is `start` (admission under the mutex), `Attempt` and `Do` one turn of
the loop in `request`, `RetryDelay` the decision, `RetryTimer` and
`RetryInterrupted` the wait, `Finish` the deferred `finish`. `LoopShutdown`, `DrainAborts` and
`CloseReturn` are `Close`; `CallerCancels` and `AbortReaches` end a request's
context, the latter at any time after the abort since it comes from a goroutine
of its own. `wire` is every attempt the client sent. The server claims an
idempotency key while it works on it and remembers it when it has queued the
email; it may receive an attempt late, repeatedly, or not at all, and answers
with what `retryDelay` tells apart.

### FlagCalled

`RecordAccess` is `recordAccess` up to the client call, `GetFeatureFlag` a read
without a snapshot, `Contains`, `Enqueue`, `Add` the three unlocked steps of
`captureFlagCalledIfNeededWithContext`. `OnlyAccessed`, `OnlyAccessedFilter` and
`CloneWith` are the two critical sections of `OnlyAccessed` and the copy, so that
reads can come between them; `Only` is the other way to a child. An event is its
key and response; distinct_id, device and groups are fixed. The LRU evicts any
entry it holds but the new one. `Enqueue` has the three outcomes of
`EnqueueWithContext` that matter here: the event is queued; it is refused with an
error (`refused`) and not remembered; or it is dropped and no error returned, when
BeforeSend drops it, makes it invalid or panics, or it fails to serialize (`lost`),
and then it is remembered like one that was queued.

### Verdicts, Semver, PropertyMatch, LocalEvaluation, FlagEvaluation, FlagMeaning

Pure operators with the names of the functions they translate. A verdict is a
value, `inconclusive` (`InconclusiveMatchError`) or `server`
(`RequiresServerEvaluationError`) with a reason, or `failed`; `Pick` is
`pickUnresolvedReason`. `MatchProperty` is `matchProperty` with its operators in
groups (`ExactMatch`, `RegexMatch`, `SemverMatch`, dates, comparisons); values are
tagged with the kind that Go decodes them to, and numbers count halves, so that
1 and 1.0, which the code compares by their text, are different numerals of one number.
`ParseSemver`, `CaretBounds` and `Successor` work with ints of width `MaxInt`.
`ComputeFlagLocally` evaluates a definition for a call; conditions, filters, the entries
of a cohort and the chain of a dependency are folds with the state of the loops they
translate. A cohort leads back to `MatchFilter`, directly or through flags that depend on
flags, and `Inspect` to itself: those calls go through the constants `Matching` and
`Inspecting`, whose value in a configuration applies the operator itself (`MCMatching`,
`MCInspecting`). That is the
recursion of the code, without a `RECURSIVE` operator, about which nothing could be
proved. A hash is
the set of bucketing values it lets in, which keeps every use of it (rollout,
holdout, variant) and drops its arithmetic. `DefinitionReason` and `Unusable` are
`definitionUnresolvedReason` and `filterDefinitionError`, the code that judges a
definition without a call.

`FlagEvaluation` lets an application repeat one call with one property more each
time, so that what is known grows, which is what `AnswersNeverContradict` is
about. Its assumptions on `Definitions` are what decoding and the code's own types
guarantee (`WellFormedFlag`, `WellFormedFilter`: conditions and chains are sequences, a
group of filters is there, a variant is told apart from on and off), and that cohorts and
chains have no circles: there is a `Depth` of at most `MaxDepth` that falls from a filter
to those it leads to (`LeadsTo`). From a circle of cohorts the code would not return; a
circle among flags reaches the client as an empty chain, which leads nowhere. `GroupMeans` and `FlagMeans` are the plain reading of a
cohort and of a flag: the first condition all of whose filters hold, without caches,
verdicts or early returns. `FlagMeaning` closes them to a recursive `Meaning`.

`AnswersNeverContradict` leaves out a flag that exits early, also for the answer
"false", which an attempt to prove it showed to be necessary: an early exit answers
"false" by a condition that holds but does not let the bucketing value in, and a later
call that passes more may find that condition open, because the flag it depends on now
compares what is no number, and go on to a condition that matches; TLC shows it of a
definition with such a dependency. `DependencyFails` leaves the same cause out of
`CompleteCallsGetTheMeaning`.

### FlagResolution

One call at a time: `Begin`, `EvaluateLocally` (the definitions are selected once,
after waiting for the first request where the code waits), then `ServerAnswers`,
`RequestFailsForNow` (what `makeFlagsRequest` tries again) or `RequestFails`. The
poller's `LoadDefinitions` may come between any two steps, and the context may end.
`LocalAnswer`, `RemoteAnswer` and `FailedAnswer` are what each of the four calls
makes of it, with and without a poller. Both forms of a reply (`Unmarshal`), quota
limits and failed flags are among the replies.

### McpCatalog, McpSessions, McpCalls, McpGoCalls, McpEvents

`McpCatalog` has a process per call (`LookupIn`, `WalkServed`, `WalkAdvertised`,
`WalkClosed`, `WaitEnds`, `Return`, `Read`, `Compare`, `Dispatch`) and per listing
of a client (`List`, `ListServed`, `ListAdvertised`), split where the code leaves
its mutex or calls the server. `Change` and `Announce` are the server's tools and
its notification, which starts a generation. `disturbed` is history: the calls that
no catalog could answer rightly.

`McpSessions` chooses an id: generated and remembered for a connection (`sweep`,
`evictOldest`, the entry's activity), derived for a transport session, new for a
stateless request. Both adapters have this code, in posthogmcpsdk/sessions.go and
posthogmcpgo/sessions.go; the second adds `touch` and `forget` (`Touch`,
`Unregister` in `McpGoCalls`).

`McpCalls` is `prepare`, `deliverConversation` and `observe`: `Prepare` mints or
keeps a handle, `Finish` delivers it and reports the call. `McpGoCalls` has the
hooks (`Arrive`, `Answer`), the middleware (`Enter`, `HandlerReturns`) and mcp-go
around them, which may deny a call, run it as a task, or lose it to a panic.
`McpEvents` builds the messages of a call with its context (`PrepareToolCall`),
drops parts in the order of the stages until a message fits (`Build`), and
enqueues each.

### RequestContext, OtelSpans

`frames` is the stack of what runs: middlewares and scopes in which a handler goes
on with a derived context. `Middleware`, `Attach`, `FrameReturns`, `WriteHeader` and
`Forwarded` (a status the writer's wrapper does not see), `Unwinds` and
`Unwind` (the deferred recover, which captures, may panic itself, and panics on),
`EnqueueWithContext`. `ResolveCaptureContext`, `MergeContextProperties` and
`WithDefaults` are the functions of those names. A context carries `layers`, the
history of what was attached, from which the properties recompute what it
should mean. `OtelSpans` adds spans that handlers and goroutines start from a
context, the store of the `SpanProcessor` and the active requests of the bridge's
middleware; the steps of `Shutdown` are separate. Attributes are functions from keys:
`RequestContextAttributes` puts the properties of a context over its ids and skips
what is empty, as `toAttribute` does; `WithContextAttributes` is `withRequestContext`,
where a span keeps what it has (`own`, any of `Own` when it ends) and gets no distinct
id if one of `IdentityAttributes` is among that. `Meant` is what an attribute should be,
recomputed from the layers.

## The runs

Deadlock is checked in the runs of `Delivery`, `FlagPoller` and `Emails`, where
`Terminated` steps mark the states in which everything is through. In the others
callers may simply stop.

| Run | Instance | Shows |
|---|---|---|
| `delivery_v1` | 3 messages (one that BeforeSend may drop, or that fails to serialize, and is never queued), capture-v1, batches of 2, queue of 2, one slot for batches, 2 attempts, a Flush and two Closes with deadlines | no double report across partial results; Flush and Close keep their contracts; the pipeline implements `DeliveryContract` |
| `delivery_live` | 2 messages, legacy capture, a Flush and a Close | every accepted message is settled, Flush and Close return |
| `delivery_panic` | 4 messages of sizes 2, 1, 2, 9 with limits of 3, two Close calls, one attempt, a Success that panics | nothing that was accepted is lost, whatever limit it meets |
| `delivery_v1_silent` | as `delivery_v1` | **violated**: an event the response leaves out gets no callback |
| `poller_shared` | 2 clients, one without SecretKey, a provider, 2 versions | ETag, order of the provider's shutdown, what a clean Close means |
| `poller_live` | 1 client, a getter, a reload, a Close | the three calls return |
| `emails` | 2 sends with one key, 1 retry, a Close with a deadline | one email, honest results, a drain nobody joins; every call returns |
| `flagcalled_snapshots` | 2 goroutines, 2 flags, 2 snapshots that may differ, 1 derived, 3 reads, cache of 1 | no read is forgotten before Enqueue, events repeated only for a reason, derived snapshots exact |
| `flags` | definitions of up to two conditions with up to two filters, five cohorts, two more flags, every operator alone with every operand; 3 calls; 6 snapshots, 6 replies, 12 requests of resolution, 2 attempts | complete calls get the meaning, answers never contradict, the two reasons agree, ranges admit what they say, one source, every flag accounted for |
| `flags_failed` | replies in which flags failed | **violated**: with local evaluation a failed flag is returned as false |
| `adapters` | each of the adapters' parts in turn: 2 calls and a listing of 2 pages; 1 call of a go-sdk server in 3 sessions; 2 calls of an mcp-go server in 2; calls with small and large parts; 3 handlers deep; 1 span of a handler or of its goroutine, with a session or a user of its own, in a context whose properties override one id and empty the other | the eleven properties of the MCP, context and span modules |
| `mcp_long_call` | the mcp-go part | **violated**: the session of a call that runs past the timeout is dropped |

**Why these bounds.** *Delivery*: with `BatchSize` 2 the two messages that are queued
form one full batch or two partial ones, and the third is refused or reported at
once; with one slot in
`batches` the second submission can block or be shed; with two attempts a batch
goes through first try, wait, last try and exhaustion; one Flush meets Close in every
order, and in `delivery_v1` two Close calls with deadlines meet each other. That run
uses symmetry of the two messages that are queued and of the two Close calls.
Oversized messages and a batch that does not fit meet in `delivery_panic`, which
uses symmetry of its two Close calls and of the two messages of one size. One delivery per possible batch is enough: identities
never run out. *FlagPoller*: with two versions definitions are replaced once, so
ETag and definitions can disagree; two clients are the smallest election and one of
them must only read. *Emails*: two calls are the least that can share a key, one
retry the least that leaves an earlier attempt behind. Status requests (`Get`) run
the same loop without a key and are left out of the instance. *FlagCalled*: a cache
of one entry evicts with two events; two goroutines are the least that overlap;
three reads allow a read before, during and after a derivation; the run uses
symmetry of goroutines, keys and original snapshots, none of which the module tells
apart, and no liveness property. *Flags*: two conditions are the least with an
order, two filters the least where one is undecidable and the other not; the
cohorts nest, negate, are empty, static or contain an unusable filter; the two
other flags make a dependency that is direct, through a chain, through a cohort, on
a flag that cannot be evaluated, and missing. Texts are chosen so that every
relation among operands has both answers; `MaxInt` is 3 so that increments reach
the end of the type. *Adapters*: two callers are the least of which one waits for
the other's walk; one change and two generations are the least that make a walk
stale; the clock starts at `TTL` and ticks once (`MaxTime` 2), which makes what was
learned before it stale too; the second page is empty, so that a walk has two steps
without a third tool state. Two connections with room for one id make each evict the other, a clock of
four ticks with a timeout of one passes it twice. Calls of the mcp-go part come from one
of the two connections or have no session (`GoSessions`); the go-sdk part has all
three, and no ticks; `CallsSpec`, of which its theorems speak, has them. Three frames nest two
middlewares and a scope. For spans two are enough: a handler in a
middleware; `SpanFrames` is that bound.

Bounds of the model, not of the code: `MaxVersion`, `MaxReads`, `MaxTime`,
`LastTime`, `MaxChanges`, `MaxGenerations`, `MaxIds`, `MaxHandles`, `MaxFrames`,
`MaxBridged`, `SpanFrames`, `GoSessions`. Constants of the code or the configuration that an
instance makes small: queue and batch sizes, `MaxAttempts`, `MaxRetries`,
`CacheSize`, `MaxInt`, `MaxPages`, `TTL`, `MaxSessions`, `Timeout`, `MaxInFlight`,
`MaxDepth`, `MaxBytes`.

The parts of `adapters` do not run at the same time: they share no state in the
code (a catalog, a session resolver and a request context belong to different
objects), and their product would only multiply states.

### Findings

- `delivery_v1_silent`: capture_v1_send.go:166 takes an event the 2xx response does not mention
  as accepted without a callback, where message.go:20 says Success is called for
  every message that was sent.
- `flags_failed`: with local evaluation featureflags.go:1448 returns the value of a
  flag whose evaluation failed on the server, without looking at its mark, where
  posthog.go:2084 says not to return "the incorrect enabled=false value" and the path without
  local evaluation does not.
- `mcp_long_call`: posthogmcpgo/sessions.go:105 drops ids of idle sessions also while
  one of their calls runs, where the comment on `touch` says a call past the timeout
  does not rotate the session it started in.

Further statements do not hold, and have no run of their own:

- The comment on `client.batches` (posthog.go:193) calls the channel a concurrency
  limiter, but each batch has a goroutine that empties its slot at once, so it does
  not bound the uploads that run at a time.
- After a panic in `Callback.Success` the whole batch is reported as failed, what
  Success was already called for included. `DeliveryPanic` has it; `NothingLost`
  allows it.
- posthog.go:1073 asks the cache, enqueues and adds without a lock, so that a flag
  call can be reported twice, where the comment above says it fires if it "has not
  already been reported". `DuplicatesExplained` states what does hold.
- `captureFlagCalledIfNeeded` takes no error for a queued event (posthog.go:1082), but
  `EnqueueWithContext` returns none either when BeforeSend drops the event or panics,
  or it fails to serialize. The event is remembered and later ones are suppressed,
  where the same comment says one fires. In `FlagCalled` they are `lost`, and
  `SuppressedWasTaken` says what does hold.
- otel/processor.go:68 empties the store of contexts before the inner processor is
  shut down; a span that ends in between is exported without its context, where the
  comment on `SpanProcessor` (line 13) says spans started from one are exported with
  it. Elsewhere they are (`SpansKeepTheirContext`).
- A snapshot marks a key as accessed before its event is queued and skips later
  reads of it, also when Enqueue refused or dropped the event. This is why
  `ReadIsReported` has the disjuncts `refused` and `lost`: it says that no read is
  forgotten on its way to Enqueue.
- featureflags.go:1129 shares the visited cohorts over the conditions of a flag, so
  that a cohort that is unusable only in a later condition, about another target, is
  not warned about. `CohortsShared` leaves such definitions out of two properties.
- The wrapper of the response writer takes an informational status (1xx) for the
  final one, and does not see the 200 that a forwarded Flush, ReadFrom or Hijack may
  send. `Codes` has no 1xx; `PanicsReportedOnce` compares the status only where
  the wrapper was the first to send (`clean`).
- A walk of the catalog ends at a page cap. Tools behind it stay unknown, which
  `StableToolsAreKnown` says, and the instance does not reach.
- `lookup` (posthogmcpsdk/tools.go:197) looks again only once: a call that is outrun
  by announcements twice is prepared from a generation that is no longer current, and
  may treat a tool as it was before. `disturbed` counts such calls, and
  `StableToolsAreKnown` leaves them out.

## Fairness

Weak fairness of each goroutine's step: the Go scheduler runs what can run,
timers fire, and the HTTP client has a timeout, so an upload or request in
progress ends. The server owes no particular answer, callers are not obliged to
call, contexts not obliged to end, tickers are part of the goroutine that
selects on them. Strong fairness is assumed in one place, the choice of the
poller's select among a tick, a reload and the shutdown (`TakeReload`,
`TakeShutdown`): select picks uniformly among ready cases, so a case that is
ready time and again is taken. No fairness is assumed of `ServerChanges`,
`LeaseExpires`, `CallerCancels` or of the deadlines. A callback and a provider
call are assumed to return, as the interfaces ask for.

Only `Delivery`, `FlagPoller` and `Emails` state fairness. In the other modules the
steps belong to callers and handlers of the application, which need not go on;
that a call does not wait for ever on another one is the safety property
`WaitsForARunningWalk`.

## The proofs

The theorems have the form `Spec => []P`, `Spec => [][A]_vars` or, for the
refinement, `Spec => ImplementsContract`, where `Spec` is that of the component
(`PanicSpec`, `ResolutionSpec`, `CatalogSpec`, `CallsSpec`, `GoSpec`, `EventsSpec`,
`RequestSpec`, `SpansSpec`), and hold for every value of the constants that satisfies the named ASSUMEs of the
modules (finite sets of messages and deliveries, positive limits, distinct model
values; that a connection is no transport session and no stateless request; that a
reply is not the absence of one; that the empty name is no conversation; that status
codes are final ones, from 200). The theorems on version ranges, on filters and on the
order of reasons are about operators. Those on local evaluation (`EvaluationSpec`) that reach
through cohorts and dependencies have `Recursion` as a hypothesis: `Matching` is `MatchFilter`
on the filters of the definitions, as in every configuration.
Each of the others is proved from an inductive invariant: initial states satisfy it, every
action preserves it (one step per action), PTL concludes.

**DeliveryProofs.** `TypeInv` is `TypeOK` with `HeldOK`: without the latter the
step that appends could append `None`. `TypeCorrect` follows. Ownership is
proved all at once by `OwnInv` because no part is inductive alone:
`NothingLost` needs `OneOwner` (when a batch moves on, its messages must not be
elsewhere too), `AtMostOneCallback` needs `NothingLost` (only an owned message is
reported, and an owned message is not settled), all need `PendingWhileServed` (a
delivery that ended owns nothing) and `OutcomeOnlyAfterEnqueue`. Lemmas on
sequences say what sending to and receiving from a channel does to the set of its
elements. `NeverUploadedAgain` is an action property that follows from
`NothingLost`. `ClosedForGood` follows from `ShutdownOrder`: whoever returned
from Close saw `shutdown`, which comes after the close of `msgs`.

**FlagPollerProofs.** `EtagIsHonest` and `NothingClearedIsPublished` follow from
the invariant that every state is one of `States` with the ETag of its
definitions, and that who is about to publish has just loaded. `FollowerPlaces`,
`ReaderPlaces`, `LateInv`, `ReleaseInv` and `CloseInv` add where the goroutine
can be: a late call has a cancelled context and is past its check; the provider
is released only in the last states; the loop stops only when the goroutine is
through or the deadline passed.

**EmailsProofs.** `TypeInv` adds `RetriesLeft` (who waits may try again).
`KeysInv`: each attempt carries its call's key, and the server works on or has
queued at most one attempt per key; this is `QueuedAtMostOnce` for all sends
because the key is fixed before the loop. `AcceptedInv` gives `SuccessMeansQueued`.
`CloseInv` ties the count of requests in flight to where they are.

**FlagCalledProofs.** `CacheInv`: what is in the cache, or about to be added,
was queued, or dropped without an error. `DupInv`: an event that neither overlapped nor was evicted was queued
at most once, and if it was, it is in the cache or in the hands of the only
caller that queued it. `SnapInv` relates a child to its parent in every stage of
the derivation, with the facts that `accessed` only grows and live snapshots do
not change. `ReadsAreReported` combines `CacheInv` with `SnapInv`: a child
inherits only accesses its parent had.

`SuccessIsHonest` has an argument of its own: `successes` of a message grows only in
the step in which its upload is acknowledged, or for one that was acknowledged.

**DeliveryContractProofs.** *Close.* `CountInv`: `inFlight` is the number of
deliveries that a goroutine serves (`Busy`), each of which is in `batches` once or
received. `DrainInv`: once the loop is past its drain, queue and batch are empty,
and it returns only when nothing is busy or a Close call gave up. `CloserInv`: only
one Close call gets past the mutex, so it is the one that returns nil, and then
nobody cancelled. With `NothingLost` every accepted message is then settled.
*Flush.* `Life(d)` lists what a step may do to one delivery, and every action does
one of these to each; from that `DoneInv`, that a done channel is closed exactly when
its attempt is over, and `FlushNeverStranded`. `BarrierInv` follows a message that
was accepted before the call: it is in what the loop still has to pass on
(`InHand`), then in a delivery whose current channel the caller waits for, then
tried or settled; `ServingInv` says the loop drains what it counted.
*Refinement.* Every step of `Delivery` maps to a step of `DeliveryContract` or a
stutter: outcomes only grow (`OutcomesGrow`), a step settles a set of pending messages
(`Settle` of the contract), and the return of a clean Close finds none pending, which
is `CloseIsClean`.
*Panics.* A recovered goroutine reports its whole batch, so with a callback that panics
a message may be reported twice and `OwnInv` is not inductive. `PlacesInv` is what is
left of it, and `PlacesNext` (in `DeliveryProofs`) says that every step of `Delivery`
keeps it by itself. `ContentsInv` adds that whatever a batch was started with and is no
longer pending in it was settled; the panic settles the rest, hence `NotLostByPanics`.

**FlagsProofs.** `AnswerHasASource`: an answer is what one of `LocalAnswer`,
`FailedAnswer`, `RemoteAnswer` makes of the snapshot the call selected and of one
reply; the rest is case analysis of these operators, for both forms of a reply, any
definitions and any verdicts. `FailedFlagsHaveNoValueWithoutPoller` delimits the
finding of `flags_failed`. The theorems of the ranges say for any components short of
the largest int what `~`, `^` and `*` admit, and of the largest that a `~` range
overflows and admits nothing. `UnusableFiltersAreNeverDecided` goes through the causes of
`Unusable` and what each operator of `MatchPropertyValue` makes of them, for any tables
of texts, any properties and any filter whose lists hold scalars. `ReasonsHaveNoOrder`:
`Pick` is the minimum of its order, so it does not matter which condition is checked first.
*Local evaluation.* `EvaluationInv` is that the verdict is what the code makes of the
definitions and of a call that is well formed; calls only grow (`Passes`). It gives
`UnusableFiltersStayUndecided` and `RangesStayTrue`, the latter with what the fold over
the parts of a wildcard returns (`NonEmptyPartsRun`). For `AnswersStay` the loops have to be
followed. An interpretation `T` says of every filter whether it holds of a person and of
a group, no third value: `Interprets` asks that it agrees with `GroupMeans` and
`FlagMeans` on cohorts and dependencies and with the properties of a call where these
decide, and `ValueUnder` is then the value of a flag. `FilterIsSound`: whatever is in the cache,
the code decides a filter as `T` has it or leaves it open, and what it leaves in the cache is
`ValueUnder` of each flag it names, or "nil". There is a lemma for each loop
(`GroupIsSound`, `ConditionIsSound`, `FlagIsSound`, `ChainIsSound`), which finds the states the loop may be
in after i items: `FoldInvariant` is the induction over a fold. The induction over the
nesting is on `Depth`, and only over filters no deeper than the deepest of the evaluated
flag (`Below`): a chain that led back to that flag would be deeper. `InterpretationExists`
by the same induction. An interpretation for the later call is one for the earlier
(`EarlierInterprets`), so both answers are what it means: `LocalAnswersAreMeant` for one answer,
`AnswersStay` for two.

**McpProofs.** *Catalog.* `LeadersInv`: who is named as the walker of a generation
walks it, and who waits names one. `KnowledgeInv`: of the current generation, entries,
pages in progress, listings on their way to a client and what callers read are true
of the server's tools, or the tool changed since and is about to be announced; by
lemmas that say knowledge is kept by a step that learns only true things
(`KnowsMore`). *Sessions.* `MemoryInv` (an entry is the latest id and activity of its
connection; ids belong to one) and `Remembered`: a connection with an id that is not
in the map was evicted or idle for longer than the timeout. `Remembered` has the
connections that were closed as its parameter, as mcp-go's are forgotten.
*Calls.* `FlightInv`: the list of calls in flight has no repetitions, holds only
calls that have not been answered and is as long as its limit says; a call was
captured at most by the one of hook and middleware that is responsible for it.
*Events.* `Told` says what the messages of one call have in common (user, session,
properties), whichever of them are built; each stage of shrinking keeps that. The stages
are a list, and the one that is used is the first that fits: that there is a first is
the well-foundedness of the order of naturals (`HasLeast`), not an induction over the
list. `JoinedInv` (events name for a conversation the session derived from it) makes
`StoriesAgree` inductive over calls.

**RequestContextProofs.** `ContextOK` relates a context to its history: its user,
session and each of its properties are those of the last visible layer that gives them. It holds
of the empty context and `WithRequestContext` preserves it (`Attaching`), fresh or
not. `StackInv` says it of every frame, and that a context names the bridge of a
handler that has not returned. `UnwindingInv` follows a panic: the frames that are left
are those it began with, and `reports` has one entry for each capturing frame among the
others (`Passed`), at the place that counts the capturing frames from the top (`Place`).
`StatusOK` is what makes the reported status right: a middleware called before any
status was sent has seen the one that was, unless a forwarded method sent the 200. `Tells` says what an event takes from such a context,
for any default properties. `SpansInv` adds the spans: ids only under a handler that
runs (`IsSpan`), the store has the contexts of exactly the live spans that have one
(`StoreOK`), and what was exported carries its context (`Explained`): of each key,
`Exporting` shows that the attributes made from a context are what its layers mean, since
`ContextOK` says so of every property, and `Adding` that a span's own come first.

**Only model-checked.** All liveness, and ENABLED, which are outside what TLAPS can do
here, as is induction over data. `CompleteCallsGetTheMeaning` and
`BlamedDefinitionsWereWarnedAbout` are about what a call leaves open and why:
the first compares with the recursive `Meaning`, and `FlagMeaning` has a `RECURSIVE`
operator; both leave out definitions by conditions on the filters the flag has itself, which are
enough for the definitions of the run but not for all. `LocalAnswersAreMeant` is the part of the first that holds
of every call: what is answered is what is meant.
Conversely some proved invariants are in no run any more, since the run that had
them checks what is not proved: `SuccessMeansAcked`, `OneOwner`,
`NoUploadOfSettled`, `NothingAcceptedAfterClose`, `PublishesDefinitions`,
`ReadersClaimNothing`, `FollowersSpareTheServer`, `LateCallsBounded`,
`NothingRunsAfterClose`, `CleanCloseAbortsNothing`, `SuppressedWasTaken`,
`ChildRemembers` and the type invariants.

## What is not modelled

- *Data.* Property values beyond what operators tell apart, JSON, header and error
  texts, compression, and validation of arguments beyond its verdict.
- *Local evaluation:* the hash, the classification of regular expressions, the parsing
  of dates and version components and the printing of numbers are constants; there is one group
  type; `distinct_id` and `$group_key` among the properties are left out.
- *One client with everything.* `Delivery` is a client without poller and
  without emails; `FlagPoller` and `Emails` model the rest of `Close` next to a
  loop reduced to what they need of it.
- *Time.* Delays are reduced to order: a timer fires some time after it was set.
  `backoff.go` and `Retry-After` compute durations in floating point with jitter.
- *MCP:* sanitizing, intent, model and identity of a call, and the rewriting of
  schemas and arguments are data; *OpenTelemetry:* the exporter, the AI gateway
  warning, attribute conversion and the exception mapping.
- *The server, the provider, the LRU, mcp-go, go-sdk, the tracer and the
  application* are external and as free as the code that talks to them has to expect.
- *Configuration, messages, error tracking, the no-op client and the programs* keep
  no state the code above depends on; `PROJECT.json` lists each with the reason.

## Plan

Done, in this order: `Delivery`, `FlagPoller`, `Emails`, `FlagCalled`, each with its
proofs; local evaluation and flag resolution; the MCP adapters, the request context
and its spans; the proofs of the contracts of Flush and Close, of the refinement, of
resolution, ranges, filters and reasons, of the catalog, sessions, calls and events, of
contexts, panics and spans, of panicking callbacks; the proofs about local evaluation
through cohorts and dependencies. Left:

1. What a call leaves open and why, proved: that `Inspect` finds every filter that
   cannot be used although it looks into a cohort once, and that a flag is left open only for
   what it found or what the call lacks.
2. `Negated` and the pairs of `TextOperators`, `regex` and the comparisons as opposites
   of each other, as lemmas.
