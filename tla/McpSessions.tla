---------------------------- MODULE McpSessions ----------------------------
(***************************************************************************)
(* The $session_id of a tool call, as both MCP adapters choose it.  A        *)
(* connection with one client and no id of its own gets a generated id,     *)
(* which is remembered while it is used; a transport session has an id to   *)
(* derive one from; a request outside any session gets an id of its own.    *)
(***************************************************************************)
EXTENDS Naturals, FiniteSets, Functions

CONSTANTS
  Connections,  \* one client each: stdio, in-process
  Transports,   \* with an Mcp-Session-Id
  Stateless,    \* requests of a stateless server
  MaxSessions,  \* maxGeneratedSessions
  Timeout,      \* sessionInactivityTimeout
  LastTime,     \* bound of the clock
  MaxIds        \* bound of the ids generated

ASSUME SessionsAssumption ==
  /\ MaxSessions \in Nat \ {0} /\ Timeout \in Nat
  /\ Connections \cap (Transports \cup Stateless) = {}

VARIABLES
  time,
  generated,  \* connection -> [id, last]
  lastSweep,
  ids,        \* how many ids were generated
  latest,     \* history: connection -> [id, at] of its activity
  dropped     \* history: connections whose id had to make room since

sessionVars == <<time, generated, lastSweep, ids, latest, dropped>>

Sessions == Connections \cup Transports \cup Stateless
Unused == [id |-> 0, at |-> 0]

SessionsInit ==
  /\ time = Timeout + 1 /\ generated = [s \in {} |-> Unused] /\ lastSweep = 0 /\ ids = 0
  /\ latest = [s \in Connections |-> Unused] /\ dropped = {}

Tick ==
  /\ time < LastTime /\ time' = time + 1
  /\ UNCHANGED <<generated, lastSweep, ids, latest, dropped>>

\* sweep: at most once per timeout.
Sweeps == time > lastSweep + Timeout
Idle(known) == {s \in DOMAIN known : time > known[s].last + Timeout}
Swept == IF Sweeps THEN Restrict(generated, DOMAIN generated \ Idle(generated)) ELSE generated

\* evictOldest, for a connection that is new: of several oldest, any.
Evictable(known, s) ==
  IF s \in DOMAIN known \/ Cardinality(DOMAIN known) < MaxSessions THEN {{}}
  ELSE {{o} : o \in {o \in DOMAIN known : \A t \in DOMAIN known : known[o].last <= known[t].last}}

\* Mutant: only a new id counts as activity.
EntryOfCreation(known, s) ==
  IF s \notin DOMAIN known \/ time > known[s].last + Timeout
  THEN [id |-> ids + 1, last |-> time] ELSE known[s]

\* What resolve remembers of a connection.
Entry(known, s) ==
  [id |-> IF s \notin DOMAIN known \/ time > known[s].last + Timeout THEN ids + 1 ELSE known[s].id,
   last |-> time]

\* resolve, for a connection with one client; the id is Entry's.  For a transport,
\* or a request outside any session, nothing is remembered.
ResolveConnection(s) ==
  \E out \in Evictable(Swept, s) :
    LET entry == Entry(Swept, s)
        kept == Restrict(Swept, DOMAIN Swept \ out)
    IN  /\ entry.id <= MaxIds
        /\ generated' = [t \in DOMAIN kept \cup {s} |-> IF t = s THEN entry ELSE kept[t]]
        /\ lastSweep' = IF Sweeps THEN time ELSE lastSweep
        /\ ids' = IF entry.id > ids THEN ids + 1 ELSE ids
        /\ latest' = [latest EXCEPT ![s] = [id |-> entry.id, at |-> time]]
        /\ dropped' = (dropped \cup out) \ {s}
        /\ UNCHANGED time

Resolve(s) == IF s \in Connections THEN ResolveConnection(s) ELSE UNCHANGED sessionVars

--------------------------------------------------------------------------
(* Properties.                                                             *)

\* A connection keeps its id as long as it is used, for what became of the other
\* connections: it changes only after a pause beyond the timeout, or when the id
\* had to make room; no two connections share one, and the memory is bounded.
SessionsAreSteady ==
  [][/\ Cardinality(DOMAIN generated') <= MaxSessions
     /\ \A s \in Connections :
          /\ latest[s].id # 0 /\ latest'[s].id # latest[s].id =>
               s \in dropped \/ time > latest[s].at + Timeout
          /\ \A t \in Connections \ {s} : latest'[s].id # 0 => latest'[s].id # latest'[t].id]_sessionVars
=============================================================================
