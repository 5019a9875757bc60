----------------------------- MODULE McpGoCalls -----------------------------
(***************************************************************************)
(* tools/call through the instrumentation of mcp-go servers.  The server's  *)
(* call hooks track a call from its arrival to its answer and report it     *)
(* then; if the server's hooks were replaced, the middleware around the     *)
(* tool's handler reports it instead.  mcp-go itself is modelled as far as  *)
(* it decides which of them run: a call may be answered before its handler  *)
(* runs, run as a task, or end in a panic that the transport recovers.      *)
(***************************************************************************)
EXTENDS McpSessions, Sequences, SequencesExt

CONSTANTS
  GoCalls,      \* tools/call requests that run at a time
  MaxInFlight   \* maxCallsInFlight

ASSUME InFlightAssumption == MaxInFlight \in Nat \ {0}

VARIABLES
  hooksKept,  \* the server's hooks are those the instrumentation added to
  open,       \* connections with one client that are not closed
  inFlight,   \* started, oldest first
  goCall,     \* of each call: [at, session, kind]
  captured,   \* of each call: how many events report it
  outdated    \* history: calls that had to make room for others

goVars == <<sessionVars, hooksKept, open, inFlight, goCall, captured, outdated>>

\* A call of a tool the middleware wraps; one that asks mcp-go to run such a tool
\* as a task; any other: of a tool the server does not have, or of another server
\* that shares the hooks.
Kinds == {"tool", "task", "other"}
Wrapped == {"tool", "task"}

NewCall == [at |-> "new", session |-> CHOOSE s \in Sessions : TRUE, kind |-> "other"]

GoInit ==
  /\ SessionsInit
  /\ hooksKept \in BOOLEAN /\ open = Connections /\ inFlight = <<>>
  /\ goCall = [c \in GoCalls |-> NewCall]
  /\ captured = [c \in GoCalls |-> 0] /\ outdated = {}

Advance(c, at) == goCall' = [goCall EXCEPT ![c].at = at]

\* callsInFlight.start
Start(c) ==
  LET full == Len(inFlight) >= MaxInFlight
  IN  /\ inFlight' = Append(IF full THEN Tail(inFlight) ELSE inFlight, c)
      /\ outdated' = IF full THEN (outdated \cup {Head(inFlight)}) \ {c} ELSE outdated \ {c}

\* beforeCall, of a new request: what is left of one that panicked is none.
Arrive(c) ==
  /\ goCall[c].at \in {"new", "answered", "panicked"} /\ c \notin Range(inFlight)
  /\ \E s \in open \cup Transports \cup Stateless, k \in Kinds :
       /\ goCall' = [goCall EXCEPT ![c] = [at |-> "arrived", session |-> s, kind |-> k]]
       /\ IF hooksKept /\ k \in Wrapped
          THEN Resolve(s) /\ Start(c)
          ELSE outdated' = outdated \ {c} /\ UNCHANGED <<sessionVars, inFlight>>
  /\ captured' = [captured EXCEPT ![c] = 0]
  /\ UNCHANGED <<hooksKept, open>>

\* mcp-go answers without the handler: it has no such tool, a filter denies it,
\* the arguments are not valid.
Deny(c) ==
  /\ goCall[c].at = "arrived" /\ Advance(c, "denied")
  /\ UNCHANGED <<sessionVars, hooksKept, open, inFlight, captured, outdated>>

\* Mutant: the middleware captures calls that the hooks capture, too.
CapturesInMiddlewareAlways(c) == goCall[c].kind = "tool"

\* capturesInMiddleware, of a call of this server that does not run as a task.
CapturesInMiddleware(c) == ~hooksKept /\ goCall[c].kind = "tool"

\* middleware, before the handler.  A task is answered at once.
Enter(c) ==
  /\ goCall[c].at = "arrived"
  /\ Advance(c, IF goCall[c].kind = "task" THEN "tasked" ELSE "handling")
  /\ IF CapturesInMiddleware(c) THEN Resolve(goCall[c].session) ELSE UNCHANGED sessionVars
  /\ UNCHANGED <<hooksKept, open, inFlight, captured, outdated>>

\* touch: activity of a session that is remembered.
Touch(s) ==
  /\ IF s \in DOMAIN generated
     THEN /\ generated' = [generated EXCEPT ![s].last = time]
          /\ latest' = [latest EXCEPT ![s].at = time]
     ELSE UNCHANGED <<generated, latest>>
  /\ UNCHANGED <<time, lastSweep, ids, dropped>>

Observe(c) == Touch(goCall[c].session) /\ captured' = [captured EXCEPT ![c] = @ + 1]
Unobserved == UNCHANGED <<sessionVars, captured>>

\* callsInFlight.finish: the element of the list goes.
Finished(c) == RemoveAt(inFlight, CHOOSE i \in DOMAIN inFlight : inFlight[i] = c)

\* middleware, after the handler.
HandlerReturns(c) ==
  /\ goCall[c].at = "handling" /\ Advance(c, "returned")
  /\ IF CapturesInMiddleware(c) THEN Observe(c) ELSE Unobserved
  /\ UNCHANGED <<hooksKept, open, inFlight, outdated>>

\* afterCall, or callFailed: a task is no result of the tool.
Answer(c) ==
  LET tracked == hooksKept /\ c \in Range(inFlight)
  IN  /\ goCall[c].at \in {"denied", "returned", "tasked"}
      /\ goCall' = [goCall EXCEPT ![c] = [NewCall EXCEPT !.at = "answered", !.kind = goCall[c].kind]]
      /\ inFlight' = IF tracked THEN Finished(c) ELSE inFlight
      /\ IF tracked /\ goCall[c].at # "tasked" THEN Observe(c) ELSE Unobserved
      /\ UNCHANGED <<hooksKept, open, outdated>>

\* The handler panics: neither the middleware nor a hook runs after it.
HandlerPanics(c) ==
  /\ goCall[c].at = "handling" /\ goCall' = [goCall EXCEPT ![c] = [NewCall EXCEPT !.at = "panicked"]]
  /\ UNCHANGED <<sessionVars, hooksKept, open, inFlight, captured, outdated>>

\* unregistered, a hook: forget.
Unregister(s) ==
  /\ s \in open /\ open' = open \ {s}
  /\ generated' = IF hooksKept THEN Restrict(generated, DOMAIN generated \ {s}) ELSE generated
  /\ UNCHANGED <<time, lastSweep, ids, latest, dropped, hooksKept, inFlight, goCall, captured,
                 outdated>>

GoNext ==
  \/ Tick /\ UNCHANGED <<hooksKept, open, inFlight, goCall, captured, outdated>>
  \/ \E c \in GoCalls : Arrive(c) \/ Deny(c) \/ Enter(c) \/ HandlerReturns(c) \/ Answer(c) \/ HandlerPanics(c)
  \/ \E s \in Connections : Unregister(s)

GoSpec == GoInit /\ [][GoNext]_goVars

--------------------------------------------------------------------------
(* Properties.                                                             *)

\* A call of a tool of this server is reported once, when it was answered, and one
\* of another server, of a tool nobody has or that runs as a task is not: by the
\* hooks, unless too many calls started after it; by the middleware if they were
\* replaced and the handler ran.  Nor is a closed connection remembered for the
\* calls that outlive it.
CapturedOnce ==
  /\ \A c \in GoCalls :
       LET call == goCall[c]
       IN  /\ captured[c] <= IF call.at \in {"returned", "answered"} /\ call.kind \in Wrapped THEN 1 ELSE 0
           /\ hooksKept /\ call.kind = "tool" /\ call.at = "answered" /\ c \notin outdated => captured[c] = 1
           /\ ~hooksKept /\ call.kind = "tool" /\ call.at = "returned" => captured[c] = 1
  /\ hooksKept => DOMAIN generated \subseteq open

\* "so a call that runs past the timeout does not rotate the session it started in"
\* (touch): the session of a call is still remembered when the call is reported,
\* unless it was closed or had to make room, and the next call finds its id.
LongCallsKeepTheSession ==
  [][\A c \in GoCalls : captured'[c] > captured[c] =>
       goCall[c].session \in DOMAIN generated' \cup dropped \cup (Sessions \ open)]_goVars
=============================================================================
