----------------------------- MODULE MCAdapters -----------------------------
(***************************************************************************)
(* What stands between an application and the client, one part at a time:   *)
(* the MCP instrumentation (the tool catalog of the middleware for go-sdk   *)
(* servers, its calls, the calls of mcp-go servers, the events of a call),  *)
(* the request context of HTTP handlers and its OpenTelemetry spans.  The   *)
(* others rest.                                                             *)
(***************************************************************************)
EXTENDS McpCatalog, McpCalls, McpGoCalls, McpEvents, OtelSpans

CONSTANTS
  Parts,      \* of "catalog", "sdk", "go", "events", "requests", "spans"
  u1, u2, w1, w2,
  GoSessions, \* the sessions that call in the part "go"
  SpanFrames  \* MaxFrames of the part "spans"

VARIABLE part

MCPages == <<{"x"}, {}>>

MCHeaders == {[distinct |-> u1, session |-> w1], [distinct |-> Blank, session |-> NoId]}
MCLayers == {[distinct |-> u2, session |-> NoId, properties |-> Profile :> FALSE],
             [distinct |-> Blank, session |-> w2, properties |-> NoProperties]}
MCInherited == {[distinct |-> u2, session |-> w2,
                 properties |-> (DistinctIdAttribute :> u1) @@ (SessionId :> Blank)]}
MCOwn == {SessionId :> w1, "user.id" :> u1}
MCGiven == {NoProperties, (SessionId :> w2) @@ (Profile :> TRUE)}

\* The calls that are captured: small and large parts, in the order of the weights.
Weights == [response : {0, 2}, parameters : {1}, custom : {0, 2}, set : {1}, required : {1, 5}, exception : {1, 5}]
MCToolCalls == [distinct : McpUsers \cup {NoName}, session : McpSessionIds \cup {NoName},
                conversation : Conversations \cup {Malformed, NoName},
                optOut : {"unset", "out", "in"}, failed : {"error"}, weights : Weights]
MCContexts == [distinct : {NoName, u2}, session : {w2}, optOut : {"unset", "out"}]

\* What calls of either adapter have besides the sessions.
sdkVars == <<handles, held, request, event>>
goOnlyVars == <<hooksKept, open, inFlight, goCall, captured, outdated>>
mcpVars == <<catalogVars, callVars, goOnlyVars>>
httpVars == <<contextVars, spanVars>>

AdaptersInit ==
  /\ CatalogInit /\ CallsInit /\ GoInit /\ EventsInit /\ ContextInit /\ SpansInit
  /\ part \in Parts
  /\ part # "catalog" => registry = [n \in Names |-> "adds"]
  /\ part # "go" => hooksKept
  /\ part # "events" => autocapture
  /\ part # "requests" => headers.session = w1 /\ defaults = NoProperties

AdaptersNext ==
  /\ \/ part = "catalog" /\ CatalogNext /\ UNCHANGED <<callVars, goOnlyVars, eventVars, httpVars>>
     \/ part = "sdk" /\ CallsNext /\ UNCHANGED <<catalogVars, goOnlyVars, eventVars, httpVars>>
     \/ /\ part = "go" /\ GoNext
        /\ \A c \in GoCalls : goCall'[c].at = "arrived" => goCall'[c].session \in GoSessions
        /\ UNCHANGED <<catalogVars, sdkVars, eventVars, httpVars>>
     \/ part = "events" /\ EventsNext /\ UNCHANGED <<mcpVars, httpVars>>
     \/ part = "requests" /\ RequestNext /\ UNCHANGED <<mcpVars, eventVars, spanVars>>
     \/ part = "spans" /\ SpansNext /\ Len(frames') <= SpanFrames /\ UNCHANGED <<mcpVars, eventVars>>
  /\ UNCHANGED part

AdaptersSpec == AdaptersInit /\ [][AdaptersNext]_<<mcpVars, eventVars, httpVars, part>>
=============================================================================
