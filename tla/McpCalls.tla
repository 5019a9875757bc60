------------------------------ MODULE McpCalls ------------------------------
(***************************************************************************)
(* tools/call through the middleware for go-sdk servers: the conversation   *)
(* handle an agent is given with a result and echoes with later calls, and  *)
(* the one event that reports a call.  What the catalog knows of the tool   *)
(* is McpCatalog's part.                                                    *)
(***************************************************************************)
EXTENDS McpSessions

CONSTANTS
  Calls,       \* tools/call requests that run at a time
  MaxHandles   \* bound of the handles minted

VARIABLES
  handles,  \* how many were minted
  held,     \* history: session -> the handles its agent was given
  request,  \* of each call: [at, session, tool, echo, handle, minted]
  event     \* of the call that just returned: [kind, session, tool, echo, handle]

callVars == <<sessionVars, handles, held, request, event>>

\* Also an echo that is not shaped like a handle.
None == 0
\* A handle that an agent makes up in that shape.
Invented == MaxHandles + 1

\* What the catalog says of the called tool: the argument is added, also to an output
\* schema; or the tool has one of that name; nothing; or nothing, and the name is that
\* of the tool the middleware adds to report what is missing.
Tools == {"plain", "structured", "own", "unlisted", "virtual"}
Injects(tool) == tool \in {"plain", "structured", "virtual"}

Free == [at |-> "idle", session |-> CHOOSE s \in Sessions : TRUE, tool |-> "own",
         echo |-> None, handle |-> None, minted |-> FALSE]
NoEvent == [kind |-> "none", session |-> Free.session, tool |-> "own", echo |-> None, handle |-> None]

CallsInit ==
  /\ SessionsInit
  /\ handles = 0 /\ held = [s \in Sessions |-> {}]
  /\ request = [c \in Calls |-> Free] /\ event = NoEvent

CarriesSession(s) == s \in Connections \cup Transports

\* prepare, with resolveConversation: an echoed handle stays, and only a request
\* that carries no session gets a new one.
Prepare(c) ==
  /\ request[c].at = "idle"
  /\ \E s \in Sessions, tool \in Tools, echo \in {None, Invented} \cup UNION Range(held) :
       LET mints == Injects(tool) /\ echo = None /\ ~CarriesSession(s)
       IN  /\ mints => handles < MaxHandles
           /\ handles' = IF mints THEN handles + 1 ELSE handles
           /\ request' = [request EXCEPT ![c] =
                [at |-> "called", session |-> s, tool |-> tool, echo |-> echo, minted |-> mints,
                 handle |-> IF mints THEN handles + 1 ELSE IF Injects(tool) THEN echo ELSE None]]
  /\ event' = NoEvent
  /\ UNCHANGED <<sessionVars, held>>

\* How the handler ends: a result, a round that asks for input, an error, neither,
\* go-sdk's error that it knows no such tool, or a result of another type.
Outcomes == {"result", "input", "error", "nil", "unknown", "odd"}

\* The middleware answers for the tool it added, unless the server has one of its name.
Missing(call, outcome) == call.tool = "virtual" /\ outcome = "unknown"

\* deliverConversation: the result carries a new handle, and one its schema declares.
Carries(call, outcome) ==
  /\ outcome = "result" \/ Missing(call, outcome)
  /\ call.handle # None
  /\ call.minted \/ call.tool = "structured"

\* Mutant: a new handle is part of the call whether or not it is delivered.
ReportedHandleAlways(call, outcome) ==
  IF outcome = "unknown" /\ call.handle = None THEN call.echo ELSE call.handle

\* A new handle that is not delivered is forgotten; the call of a tool nobody has
\* still names the conversation it echoes.
ReportedHandle(call, outcome) ==
  LET kept == IF call.minted /\ ~Carries(call, outcome) THEN None ELSE call.handle
  IN  IF outcome = "unknown" /\ kept = None THEN call.echo ELSE kept

\* observe; a result of another type is not reported.
Kind(call, outcome) ==
  CASE Missing(call, outcome) -> "missing_capability"
    [] outcome = "unknown" /\ ~Missing(call, outcome) -> "unknown_tool"
    [] outcome = "input" -> "input_required"
    [] outcome \in {"result", "error", "nil"} -> "tool_call"
    [] outcome = "odd" -> "none"

\* The call returns, and is observed: with a session of its own if it has no handle.
Finish(c) ==
  LET call == request[c]
  IN  /\ call.at = "called"
      /\ \E o \in Outcomes :
           LET handle == ReportedHandle(call, o)
           IN  /\ held' = IF Carries(call, o) THEN [held EXCEPT ![call.session] = @ \cup {call.handle}]
                          ELSE held
               /\ event' = IF o = "odd" THEN event
                           ELSE [kind |-> Kind(call, o), session |-> call.session,
                                 tool |-> call.tool, echo |-> call.echo, handle |-> handle]
               /\ IF o # "odd" /\ handle = None THEN Resolve(call.session) ELSE UNCHANGED sessionVars
      /\ request' = [request EXCEPT ![c] = Free]
      /\ UNCHANGED handles

CallsNext ==
  \E c \in Calls : Prepare(c) \/ Finish(c)

CallsTick == Tick /\ UNCHANGED <<handles, held, request, event>>
CallsSpec == CallsInit /\ [][CallsNext \/ CallsTick]_callVars

--------------------------------------------------------------------------
(* Properties.                                                             *)

\* "no event names a conversation the agent never received" (deliverConversation):
\* the handle on an event is the one its call echoes, or one its agent was given;
\* and the calls of a conversation stay joined: an echoed handle is reported where
\* the middleware adds the argument, or nobody has the tool.
EventsNameKnownConversations ==
  /\ event.handle # None => event.handle = event.echo \/ event.handle \in held[event.session]
  /\ event.echo # None /\ (Injects(event.tool) \/ event.kind = "unknown_tool") =>
       event.handle = event.echo
=============================================================================
