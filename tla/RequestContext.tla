--------------------------- MODULE RequestContext ---------------------------
(***************************************************************************)
(* The request context: what NewRequestContextMiddleware and the            *)
(* WithRequestContext functions attach to a context.Context, what           *)
(* EnqueueWithContext and EvaluateFlagsWithContext take from it, and what   *)
(* the middleware reports of a handler that panics.  One request, whose     *)
(* handlers may be wrapped several times.                                   *)
(***************************************************************************)
EXTENDS Naturals, Sequences, SequencesExt

CONSTANTS
  Users,         \* distinct ids callers name
  Headers,       \* tracing headers of a request: [distinct, session]
  NoId,          \* no value, ""
  Blank,         \* a value that sanitizing empties
  Generated,     \* a distinct id made up for an event without one
  Codes,         \* final status codes a handler writes
  Layers,        \* RequestContexts a handler attaches
  Given,         \* properties of captured events
  MaxFrames,     \* bound of the handlers and scopes open at a time
  MaxBridged     \* bound of the calls of posthogotel's middleware

ASSUME ValuesAssumption == NoId # Blank /\ FALSE # Blank
ASSUME CodesAssumption == \A code \in Codes : code \in Nat /\ code >= 200

VARIABLES
  headers,    \* of the request: [distinct, session]
  defaults,   \* Config.DefaultEventProperties
  frames,     \* calls that hold a context, innermost last: [ctx, capture, status, wrote, clean, bridge]
  active,     \* the contextSpanRequests that are active
  bridged,    \* how many there were
  sentStatus, \* the status the server sent, 0 for none
  unwinding,  \* what unwinds the stack: "nothing", "panic" of a handler, "exit", "other" panic
  enabled,    \* the client is open
  lastEvent,  \* of the call that just returned
  reports,    \* the exceptions captured for the last panic
  atPanic     \* history: frames when it began

stackVars == <<frames, active, bridged>>
panicVars == <<unwinding, reports, atPanic>>
contextVars == <<headers, defaults, stackVars, sentStatus, panicVars, enabled, lastEvent>>

Profile == "$process_person_profile"
SessionId == "$session_id"
Method == "$request_method"

NoProperties == [k \in {} |-> NoId]
Only(k, v) == [x \in {k} |-> v]
\* The entries of f, and those of g for other keys.
Over(f, g) == [k \in DOMAIN f \cup DOMAIN g |-> IF k \in DOMAIN f THEN f[k] ELSE g[k]]
\* A context.Context without PostHog metadata.  layers is history: what was attached;
\* bridge and span are what posthogotel and a tracer put into it.
NoContext == [attached |-> FALSE, distinct |-> NoId, session |-> NoId, properties |-> NoProperties,
              layers |-> <<>>, bridge |-> 0, span |-> NoId]

\* sanitizeRequestContextValue; the control characters and the runes beyond the
\* thousandth that it drops leave ids apart.
Sanitize(value) == IF value = Blank THEN NoId ELSE value
OrElse(value, other) == IF Sanitize(value) # NoId THEN Sanitize(value) ELSE other

\* withRequestContext
WithRequestContext(ctx, given, fresh) ==
  LET base == IF fresh THEN NoContext ELSE ctx
  IN  [attached |-> TRUE,
       distinct |-> OrElse(given.distinct, base.distinct),
       session |-> OrElse(given.session, base.session),
       properties |-> Over([k \in DOMAIN given.properties |-> Sanitize(given.properties[k])], base.properties),
       layers |-> Append(ctx.layers, [given |-> given, fresh |-> fresh]),
       bridge |-> ctx.bridge, span |-> ctx.span]

\* ExtractRequestContext; of the metadata, which is always there, one property.
ExtractRequestContext(captureTracingHeaders) ==
  [distinct |-> IF captureTracingHeaders THEN Sanitize(headers.distinct) ELSE NoId,
   session |-> IF captureTracingHeaders THEN Sanitize(headers.session) ELSE NoId,
   properties |-> Only(Method, "GET")]

--------------------------------------------------------------------------
(* What events take from a context.                                        *)

\* mergeContextProperties
MergeContextProperties(ctx, explicit) ==
  LET session == IF ctx.session = NoId THEN NoProperties ELSE Only(SessionId, ctx.session)
  IN  Over(explicit, Over(ctx.properties, session))

\* Mutant: whoever has no id of its own gets a generated one.
ResolveCaptureContextPersonless(ctx, distinct, explicit) ==
  LET personless == distinct = NoId
      merged == MergeContextProperties(ctx, explicit)
  IN  [refused |-> personless /\ ~ctx.attached,
       generated |-> personless,
       distinct |-> IF personless THEN Generated ELSE distinct,
       properties |-> IF personless THEN Over(merged, Only(Profile, FALSE)) ELSE merged]

\* resolveCaptureContext
ResolveCaptureContext(ctx, distinct, explicit) ==
  LET named == IF distinct # NoId THEN distinct ELSE ctx.distinct
      personless == named = NoId
      merged == MergeContextProperties(ctx, explicit)
  IN  [refused |-> personless /\ ~ctx.attached,
       generated |-> personless,
       distinct |-> IF personless THEN Generated ELSE named,
       properties |-> IF personless THEN Over(merged, Only(Profile, FALSE)) ELSE merged]

\* Mutant: the default properties have the last word.
WithDefaultsLast(properties) == Over(defaults, properties)

\* EnqueueWithContext of a Capture: defaults overwrite properties, except an opt-out.
WithDefaults(properties) ==
  LET optOut == Profile \in DOMAIN properties /\ properties[Profile] = FALSE
  IN  IF optOut THEN Over(Only(Profile, FALSE), Over(defaults, properties)) ELSE Over(defaults, properties)

\* The distinct id evaluateFlagsWithContext asks for; without one it returns ErrNoDistinctID.
EvaluatedFor(ctx, distinct) == IF distinct # NoId THEN distinct ELSE ctx.distinct

CaptureEvent(ctx, distinct, explicit) ==
  LET resolved == ResolveCaptureContext(ctx, distinct, explicit)
  IN  [kind |-> IF resolved.refused THEN "refused" ELSE "capture",
       ctx |-> ctx, explicit |-> distinct, given |-> explicit,
       distinct |-> resolved.distinct,
       properties |-> WithDefaults(resolved.properties),
       \* whom SendFeatureFlags, if it is set, asks the flags of
       asked |-> IF ~resolved.generated THEN resolved.distinct ELSE NoId]

ExceptionEvent(ctx, status) ==
  LET resolved == ResolveCaptureContext(ctx, NoId, NoProperties)
  IN  [ctx |-> ctx, distinct |-> resolved.distinct, properties |-> resolved.properties, status |-> status]

NothingSent == [kind |-> "none"]

--------------------------------------------------------------------------
(* The stack of handlers.                                                  *)

ContextInit ==
  /\ headers \in Headers
  /\ defaults \in {NoProperties, Only(Profile, TRUE)}
  /\ frames = <<>> /\ active = {} /\ bridged = 0 /\ sentStatus = 0
  /\ unwinding = "nothing" /\ reports = <<>> /\ atPanic = <<>>
  /\ enabled = TRUE /\ lastEvent = NothingSent

\* The context of the code that runs.
Ctx == IF frames = <<>> THEN NoContext ELSE Last(frames).ctx

Running == unwinding = "nothing"
FreshFrame == Running /\ Len(frames) < MaxFrames

Scope(ctx) == [ctx |-> ctx, capture |-> FALSE, status |-> 200, wrote |-> FALSE,
               clean |-> sentStatus = 0, bridge |-> 0]

\* NewRequestContextMiddleware calls the next handler: of this package, or with the
\* bridge of posthogotel, whose handler it then is.
Middleware(ctx, capture, bridge) ==
  /\ FreshFrame
  /\ frames' = Append(frames, [Scope([ctx EXCEPT !.bridge = IF bridge = 0 THEN @ ELSE bridge])
                                EXCEPT !.capture = capture, !.bridge = bridge])
  /\ IF bridge = 0 THEN UNCHANGED <<active, bridged>>
     ELSE bridged' = bridge /\ active' = active \cup {bridge}
  /\ lastEvent' = NothingSent
  /\ UNCHANGED <<headers, defaults, sentStatus, panicVars, enabled>>

\* A handler goes on with the context of WithRequestContext or WithFreshRequestContext.
Attach(ctx) ==
  /\ FreshFrame
  /\ frames' = Append(frames, Scope(ctx))
  /\ lastEvent' = NothingSent
  /\ UNCHANGED <<headers, defaults, active, bridged, sentStatus, panicVars, enabled>>

\* The innermost call ends; posthogotel's handler stores active in a deferred call.
Pop == frames' = Front(frames) /\ active' = active \ {Last(frames).bridge} /\ UNCHANGED bridged

FrameReturns ==
  /\ Running /\ frames # <<>> /\ Pop
  /\ lastEvent' = NothingSent
  /\ UNCHANGED <<headers, defaults, sentStatus, panicVars, enabled>>

\* responseStatusWriter: WriteHeader, or a Write, which stands for 200, passes every
\* wrapper on its way out; each keeps the first.
WriteHeader(code) ==
  /\ Running /\ frames # <<>>
  /\ frames' = [i \in DOMAIN frames |->
                  IF frames[i].wrote THEN frames[i] ELSE [frames[i] EXCEPT !.status = code, !.wrote = TRUE]]
  /\ sentStatus' = IF sentStatus = 0 THEN code ELSE sentStatus
  /\ lastEvent' = NothingSent
  /\ UNCHANGED <<headers, defaults, active, bridged, panicVars, enabled>>

\* The wrapper offers what the writer it wraps offers, Flush, ReadFrom and the others
\* forwarded to it; one of them may send the 200 that the wrapper does not see.
Forwarded ==
  /\ Running /\ frames # <<>> /\ sentStatus = 0
  /\ sentStatus' = 200
  /\ lastEvent' = NothingSent
  /\ UNCHANGED <<headers, defaults, stackVars, panicVars, enabled>>

\* The code that runs panics, or calls runtime.Goexit.
Unwinds(how) ==
  /\ Running /\ frames # <<>>
  /\ unwinding' = how /\ atPanic' = frames
  /\ lastEvent' = NothingSent
  /\ UNCHANGED <<headers, defaults, stackVars, sentStatus, enabled, reports>>

\* The status capturePanic reports.
PanicStatus(frame) == IF frame.status < 400 THEN 500 ELSE frame.status

\* Mutant: a client that panics replaces the panic of the handler.
UnwindUnprotected ==
  /\ unwinding # "nothing" /\ frames # <<>> /\ Pop
  /\ IF Last(frames).capture /\ unwinding # "exit"
     THEN \E taken \in {enabled, FALSE} :
            /\ reports' = Append(reports, [taken |-> taken, event |->
                 ExceptionEvent(Last(frames).ctx, PanicStatus(Last(frames)))])
            /\ unwinding' = IF taken THEN unwinding ELSE "other"
     ELSE UNCHANGED <<reports, unwinding>>
  /\ UNCHANGED <<headers, defaults, sentStatus, atPanic, enabled, lastEvent>>

\* Mutant: the handler of posthogotel stores active after its next handler, not deferred.
UnwindStaysActive ==
  /\ unwinding # "nothing" /\ frames # <<>>
  /\ frames' = Front(frames) /\ UNCHANGED <<active, bridged>>
  /\ IF Last(frames).capture /\ unwinding # "exit"
     THEN \E taken \in {enabled, FALSE} :
            reports' = Append(reports, [taken |-> taken, event |->
                 ExceptionEvent(Last(frames).ctx, PanicStatus(Last(frames)))])
     ELSE UNCHANGED reports
  /\ UNCHANGED <<headers, defaults, sentStatus, unwinding, atPanic, enabled, lastEvent>>

\* The innermost call is unwound: the middleware recovers, captures the panic with the
\* context it made, to a client that takes it, refuses it or panics itself, and panics
\* again with the value it found.
Unwind ==
  /\ unwinding # "nothing" /\ frames # <<>> /\ Pop
  /\ IF Last(frames).capture /\ unwinding # "exit"
     THEN \E taken \in {enabled, FALSE} :
            reports' = Append(reports, [taken |-> taken, event |->
                 ExceptionEvent(Last(frames).ctx, PanicStatus(Last(frames)))])
     ELSE UNCHANGED reports
  /\ UNCHANGED <<headers, defaults, sentStatus, unwinding, atPanic, enabled, lastEvent>>

\* A handler on the way recovers.
Recovers ==
  /\ unwinding \notin {"nothing", "exit"} /\ frames # <<>>
  /\ unwinding' = "nothing" /\ reports' = <<>> /\ atPanic' = <<>>
  /\ UNCHANGED <<headers, defaults, stackVars, sentStatus, enabled, lastEvent>>

\* The code that runs captures an event with its context.
EnqueueWithContext(distinct, given) ==
  /\ Running
  /\ lastEvent' = IF enabled THEN CaptureEvent(Ctx, distinct, given) ELSE NothingSent
  /\ UNCHANGED <<headers, defaults, stackVars, sentStatus, panicVars, enabled>>

\* Close of the client.
CloseClient ==
  /\ enabled /\ enabled' = FALSE /\ lastEvent' = NothingSent
  /\ UNCHANGED <<headers, defaults, stackVars, sentStatus, panicVars>>

\* What handlers and their panics do to the stack.
StackNext ==
  FrameReturns \/ Unwinds("panic") \/ Unwind \/ Recovers

\* A request in the middlewares of this package.
RequestNext ==
  \/ StackNext \/ Unwinds("exit") \/ Forwarded
  \/ \E given \in Layers, fresh \in BOOLEAN : Attach(WithRequestContext(Ctx, given, fresh))
  \/ \E tracing, capture \in BOOLEAN :
       Middleware(WithRequestContext(Ctx, ExtractRequestContext(tracing), TRUE), capture, 0)
  \/ \E code \in Codes : WriteHeader(code)
  \/ \E distinct \in Users \cup {NoId}, given \in Given : EnqueueWithContext(distinct, given)

RequestSpec == ContextInit /\ [][RequestNext]_contextVars

--------------------------------------------------------------------------
(* Properties.                                                             *)

\* What was attached since the last layer that inherits nothing.
Visible(layers) ==
  LET fresh == {i \in DOMAIN layers : layers[i].fresh}
  IN  {i \in DOMAIN layers : \A j \in fresh : j <= i}

\* The visible layers that give a user, a session, a property.
GivingUser(layers) == {i \in Visible(layers) : Sanitize(layers[i].given.distinct) # NoId}
GivingSession(layers) == {i \in Visible(layers) : Sanitize(layers[i].given.session) # NoId}
Giving(layers, k) == {i \in Visible(layers) : k \in DOMAIN layers[i].given.properties}

\* Of the layers that give a value, the last gives it.
LastGiven(layers, giving) == layers[CHOOSE i \in giving : \A j \in giving : j <= i].given
UserOf(layers) ==
  IF GivingUser(layers) = {} THEN NoId ELSE LastGiven(layers, GivingUser(layers)).distinct
SessionOf(layers) ==
  IF GivingSession(layers) = {} THEN NoId ELSE LastGiven(layers, GivingSession(layers)).session

\* Events, flag evaluations and SendFeatureFlags name the same user: the one of the
\* call, else the last one attached ("Existing PostHog request context values are
\* inherited", WithRequestContext); where nobody was named the event is personless and
\* no flags are asked for; without any request context the event is refused.
OneUserPerContext ==
  lastEvent.kind # "none" =>
    LET ctx == lastEvent.ctx
        user == IF lastEvent.explicit # NoId THEN lastEvent.explicit ELSE UserOf(ctx.layers)
    IN  /\ EvaluatedFor(ctx, lastEvent.explicit) = user
        /\ lastEvent.kind = "refused" <=> user = NoId /\ ctx.layers = <<>>
        /\ lastEvent.distinct = IF user = NoId THEN Generated ELSE user
        /\ lastEvent.asked \in {user, NoId}
        /\ SessionId \notin DOMAIN lastEvent.given /\ Giving(ctx.layers, SessionId) = {}
             /\ SessionOf(ctx.layers) # NoId => lastEvent.properties[SessionId] = SessionOf(ctx.layers)

\* "An explicit opt-out, including one set for a personless capture, must survive
\* defaults that would otherwise enable person profiles" (EnqueueWithContext): one of
\* the call, of a layer, or of the event that nobody is named for.
OptOutSurvives ==
  lastEvent.kind = "capture" =>
    LET layers == lastEvent.ctx.layers
        said == Giving(layers, Profile)
        optsOut == IF Profile \in DOMAIN lastEvent.given THEN lastEvent.given[Profile] = FALSE
                   ELSE IF said # {} THEN LastGiven(layers, said).properties[Profile] = FALSE
                   ELSE lastEvent.explicit = NoId /\ UserOf(layers) = NoId
    IN  optsOut => lastEvent.properties[Profile] = FALSE

\* A panic reaches every middleware below it with the value it began with; each that
\* captures panics reported it once, innermost first, for the user of its own request
\* context, with the error status that was sent while its handler ran, or another
\* error status; Goexit is not reported.
PanicsReportedOnce ==
  LET passed == {i \in Len(frames) + 1..Len(atPanic) : atPanic[i].capture}
  IN  /\ unwinding = "exit" => reports = <<>>
      /\ unwinding \notin {"nothing", "exit"} =>
           /\ unwinding = "panic"
           /\ Len(reports) = Cardinality(passed)
           /\ \A i \in passed :
                LET frame == atPanic[i]
                    event == reports[Cardinality({j \in passed : j >= i})].event
                    user == UserOf(frame.ctx.layers)
                IN  /\ event.distinct = IF user = NoId THEN Generated ELSE user
                    /\ event.status >= 400
                    /\ frame.clean /\ sentStatus >= 400 => event.status = sentStatus
=============================================================================
