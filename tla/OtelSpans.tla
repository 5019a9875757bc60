----------------------------- MODULE OtelSpans -----------------------------
(***************************************************************************)
(* The OpenTelemetry bridge: the SpanProcessor, which exports AI spans with *)
(* the request context they were started in, and the ContextSpanProcessor,  *)
(* which writes the ids of a request to the live spans of its handlers.     *)
(***************************************************************************)
EXTENDS RequestContext

CONSTANTS
  Spans,
  Inherited, \* the RequestContexts attached to that of a span
  Own        \* the attributes a span may have of its own, by key

VARIABLES
  goroutine,     \* the context of a goroutine that may outlive its handler
  spans,         \* [at, ids, ctx, handled]; the last two are history
  store,         \* requestContextStore.entries
  storeClosed,
  innerShut,     \* the batch processor is shut down
  bridgeShut,    \* the ContextSpanProcessor is
  exported       \* what the exporter got of the span that just ended: its attributes; history: own, late, of

spanVars == <<goroutine, spans, store, storeClosed, innerShut, bridgeShut, exported>>

NoIds == [distinct |-> NoId, session |-> NoId]
Unborn == [at |-> "none", ids |-> NoIds, ctx |-> NoContext, handled |-> FALSE]
Ended == [Unborn EXCEPT !.at = "ended"]
NotExported == [attributes |-> NoProperties, own |-> NoProperties, late |-> TRUE, of |-> Unborn]

DistinctIdAttribute == "posthog.distinct_id"
IdentityAttributes == {DistinctIdAttribute, "user.id", "ai.telemetry.metadata.posthog_distinct_id",
                       "ai.settings.context.posthog_distinct_id"}

SpansInit ==
  /\ goroutine = NoContext /\ spans = [s \in Spans |-> Unborn]
  /\ store = [s \in {} |-> NoContext] /\ storeClosed = FALSE /\ innerShut = FALSE /\ bridgeShut = FALSE
  /\ exported = NotExported

\* capturedRequestContext
Captured(ctx) ==
  ctx.attached /\ ~(ctx.distinct = NoId /\ ctx.session = NoId /\ DOMAIN ctx.properties = {})

\* enrichContextSpan: the ids a live span gets, besides those it has.
ContextIds(ctx, ids) ==
  IF (ctx.bridge # 0 /\ ctx.bridge \notin active) \/ ~enabled \/ ~ctx.attached THEN ids
  ELSE [distinct |-> IF ids.distinct # NoId THEN ids.distinct ELSE ctx.distinct,
        session |-> IF ids.session # NoId THEN ids.session ELSE ctx.session]

\* requestContextAttributes: the properties override the ids, and toAttribute skips
\* what is empty, an id so overridden with it.
RequestContextAttributes(ctx) ==
  LET ids == Over(Only(DistinctIdAttribute, ctx.distinct), Only(SessionId, ctx.session))
      values == Over(ctx.properties, ids)
  IN  Restrict(values, {k \in DOMAIN values : values[k] # NoId})

NamesUser(own) == IdentityAttributes \cap DOMAIN own # {}

\* Mutant: only the same key stands for the user of a span.
WithContextAttributesByKey(own, extra) == Over(own, extra)

\* withRequestContext: a span keeps the attributes it has, and is given no distinct id
\* if one of them names a user.
WithContextAttributes(own, extra) ==
  Over(own, Restrict(extra, {k \in DOMAIN extra : k = DistinctIdAttribute => ~NamesUser(own)}))

\* A tracer starts a span in a context; both processors see OnStart.
OnStart(s, ctx) ==
  /\ spans[s].at = "none"
  /\ spans' = [spans EXCEPT ![s] =
       [at |-> "live", ctx |-> ctx,
        ids |-> IF bridgeShut THEN NoIds ELSE ContextIds(ctx, NoIds),
        handled |-> ctx.bridge = 0 \/ \E i \in DOMAIN frames : frames[i].bridge = ctx.bridge]]
  /\ store' = IF Captured(ctx) /\ ~storeClosed THEN Over(Only(s, ctx), store) ELSE store
  /\ UNCHANGED <<storeClosed, innerShut, bridgeShut>>

\* The code that runs starts a span, and goes on in its context.
StartSpan(s) ==
  /\ OnStart(s, Ctx) /\ Attach([Ctx EXCEPT !.span = s]) /\ UNCHANGED goroutine

\* A goroutine starts one with the context it was given.
StartSpanOfGoroutine(s) ==
  /\ goroutine.attached /\ OnStart(s, goroutine)
  /\ UNCHANGED <<contextVars, goroutine>>

GiveToGoroutine ==
  /\ Running /\ Ctx.attached /\ goroutine = NoContext /\ goroutine' = Ctx
  /\ UNCHANGED <<contextVars, spans, store, storeClosed, innerShut, bridgeShut>>

\* What is exported of a span: without a context in the store, what it has.
ExportedAttributes(s, own) ==
  IF s \in DOMAIN store THEN WithContextAttributes(own, RequestContextAttributes(store[s])) ELSE own

\* SpanProcessor.OnEnd, of a span that is one of AI or not.
OnEnd(s, ai, own) ==
  /\ spans[s].at = "live" /\ spans' = [spans EXCEPT ![s] = Ended]
  /\ store' = Restrict(store, DOMAIN store \ {s})
  /\ exported' = IF ~ai \/ innerShut THEN NotExported
                 ELSE [attributes |-> ExportedAttributes(s, own), own |-> own,
                       late |-> storeClosed, of |-> spans[s]]
  /\ UNCHANGED <<contextVars, goroutine, storeClosed, innerShut, bridgeShut>>

\* NewRequestContextMiddleware of either package; that of posthogotel also writes the
\* ids to the live span of the context.
RequestMiddleware(tracing, capture, bridge) ==
  LET ctx == WithRequestContext(Ctx, ExtractRequestContext(tracing), TRUE)
      s == ctx.span
  IN  /\ Middleware(ctx, capture, bridge)
      /\ spans' = IF bridge # 0 /\ s # NoId /\ spans[s].at = "live"
                  THEN [spans EXCEPT ![s].ids = ContextIds([ctx EXCEPT !.bridge = 0], @)] ELSE spans
      /\ UNCHANGED <<goroutine, store, storeClosed, innerShut, bridgeShut>>

\* The provider shuts its processors down in the order they were registered in, the
\* ContextSpanProcessor first; SpanProcessor.Shutdown has two steps.
CloseStore ==
  /\ bridgeShut /\ ~storeClosed /\ storeClosed' = TRUE /\ store' = [s \in {} |-> NoContext]
  /\ UNCHANGED <<contextVars, goroutine, spans, innerShut, bridgeShut>>
ShutInner ==
  /\ storeClosed /\ ~innerShut /\ innerShut' = TRUE
  /\ UNCHANGED <<contextVars, goroutine, spans, store, storeClosed, bridgeShut>>
ShutBridge ==
  /\ ~bridgeShut /\ bridgeShut' = TRUE
  /\ UNCHANGED <<contextVars, goroutine, spans, store, storeClosed, innerShut>>

\* A request in the middlewares of either package, and its spans.
SpansNext ==
  \/ /\ \/ StackNext \/ CloseClient
        \/ \E given \in Inherited : Attach(WithRequestContext(Ctx, given, FALSE))
     /\ UNCHANGED <<goroutine, spans, store, storeClosed, innerShut, bridgeShut>>
     /\ exported' = NotExported
  \/ /\ \/ \E tracing \in BOOLEAN, bridge \in {0, bridged + 1} :
             bridge <= MaxBridged /\ RequestMiddleware(tracing, FALSE, bridge)
        \/ \E s \in Spans : StartSpan(s) \/ StartSpanOfGoroutine(s)
        \/ GiveToGoroutine \/ CloseStore \/ ShutInner \/ ShutBridge
     /\ exported' = NotExported
  \/ \E s \in Spans, ai \in BOOLEAN, own \in Own : OnEnd(s, ai, own)

SpansSpec == ContextInit /\ SpansInit /\ [][SpansNext]_<<contextVars, spanVars>>

--------------------------------------------------------------------------
(* Properties.                                                             *)

ValueOf(f, k) == IF k \in DOMAIN f THEN f[k] ELSE NoId

\* What the layers of a context mean for an attribute: the last visible property of
\* that name, else the user or the session that was attached last.
Meant(layers, k) ==
  IF Giving(layers, k) # {} THEN Sanitize(LastGiven(layers, Giving(layers, k)).properties[k])
  ELSE CASE k = DistinctIdAttribute -> UserOf(layers)
         [] k = SessionId -> SessionOf(layers)
         [] OTHER -> NoId

\* The keys of a span, of its context and of the ids.
AttributeKeys(e) ==
  UNION {DOMAIN l.given.properties : l \in {e.of.ctx.layers[i] : i \in DOMAIN e.of.ctx.layers}}
    \cup DOMAIN e.attributes \cup DOMAIN e.own \cup IdentityAttributes \cup {SessionId}

\* The attributes of an exported span are its own and those its context means, which for
\* the session is that of the events captured from it; a span that names a user itself
\* gets no other.
CarriesItsContext(e) ==
  /\ \A k \in AttributeKeys(e) :
       ValueOf(e.attributes, k) = IF k \in DOMAIN e.own THEN e.own[k]
                                  ELSE IF k = DistinctIdAttribute /\ NamesUser(e.own) THEN NoId
                                  ELSE Meant(e.of.ctx.layers, k)
  /\ SessionId \notin DOMAIN e.own =>
       ValueOf(e.attributes, SessionId) =
         ValueOf(CaptureEvent(e.of.ctx, NoId, NoProperties).properties, SessionId)

\* "Spans started from a context carrying posthog.WithRequestContext are exported with
\* its distinct ID, session ID and properties" (SpanProcessor), unless they end after
\* Shutdown has released the contexts; and no context outlives its span, or Shutdown.
SpansKeepTheirContext ==
  /\ DOMAIN store \subseteq {s \in Spans : spans[s].at = "live"}
  /\ storeClosed => DOMAIN store = {}
  /\ ~exported.late => CarriesItsContext(exported)

\* "Spans started from an inherited request context after the handler returns omit
\* request IDs" (NewRequestContextMiddleware): however the handler ended.
LateSpansOmitIds ==
  \A s \in Spans : spans[s].ids # NoIds => spans[s].handled
=============================================================================
