----------------------------- MODULE McpCatalog -----------------------------
(***************************************************************************)
(* What the middleware for go-sdk servers knows of the tools it wraps.  The *)
(* analytics argument it advertises on a tool that has none of that name is *)
(* removed again from the calls of that tool, and from no other.  It learns *)
(* of tools from the listings that pass through it: those of clients, and   *)
(* the walks through all pages that a call for a tool it does not know, or  *)
(* knew too long ago, starts by itself.  Meanwhile the server adds, removes *)
(* and replaces tools, and tells the connected clients.                     *)
(***************************************************************************)
EXTENDS Naturals, Sequences, FiniteSets

CONSTANTS
  Pages,          \* the names of tools on each page of a listing
  Callers,        \* tools/call requests
  Listers,        \* tools/list requests of clients
  Nobody,
  MaxPages,       \* maxListingPages
  TTL,            \* catalogTTL
  MaxTime,        \* bound of the clock
  MaxChanges,     \* bound of the changes of tools
  MaxGenerations  \* bound of the times clients are told of them

Names == UNION {Pages[p] : p \in DOMAIN Pages}

\* A listing has a page, even without a tool on it.
ASSUME PagesAssumption == Pages \in Seq(SUBSET Names) /\ Pages # <<>>
ASSUME NobodyAssumption == Nobody \notin Callers
ASSUME BoundsAssumption == MaxPages \in Nat \ {0} /\ TTL \in Nat \ {0} /\ MaxTime \in Nat /\ TTL <= MaxTime

\* A tool without the argument gets it advertised; another declares its own.
Registrations == {"absent", "adds", "own"}

VARIABLES
  registry,    \* the server: name -> registration
  changedAt, announced,  \* when a tool changed, and whether clients were told since
  changes,     \* counts them
  clock,
  generations, \* the current one is the last
  caller,      \* of each call: [at, tool, gen, page, seen, wait, again, info]
  disturbed,   \* history: calls whose tool was not settled, whose walk failed or was outrun
  lister       \* of each listing: [at, page, gen, seen]

catalogVars == <<registry, changedAt, announced, changes, clock, generations, caller,
                 disturbed, lister>>
serverVars == <<registry, changedAt, announced, changes>>

Never == MaxTime + TTL
Unlearned == [info |-> "absent", at |-> 0]
NewGeneration == [tools |-> [n \in Names |-> Unlearned], walking |-> Nobody, walkedAt |-> Never]
Current == Len(generations)
Fresh(t) == t # Never /\ clock < t + TTL

Resting == [at |-> "idle", tool |-> CHOOSE n \in Names : TRUE, gen |-> 1, page |-> 1,
            seen |-> <<>>, wait |-> Nobody, again |-> FALSE, info |-> "absent"]

\* The tools the server starts with are as they were the TTL ago.
CatalogInit ==
  /\ registry \in [Names -> {"absent", "adds"}]
  /\ changedAt = [n \in Names |-> 0] /\ announced = [n \in Names |-> FALSE] /\ changes = 0
  /\ clock = TTL /\ generations = <<NewGeneration>>
  /\ caller = [c \in Callers |-> Resting] /\ disturbed = {}
  /\ lister = [l \in Listers |-> [at |-> "idle", page |-> 1, gen |-> 1, seen |-> <<>>]]

--------------------------------------------------------------------------
(* The server and its clients.                                             *)

Change ==
  /\ changes < MaxChanges /\ changes' = changes + 1
  /\ \E n \in Names, r \in Registrations :
       /\ r # registry[n]
       /\ registry' = [registry EXCEPT ![n] = r]
       /\ changedAt' = [changedAt EXCEPT ![n] = clock]
       /\ announced' = [announced EXCEPT ![n] = FALSE]
       /\ disturbed' = disturbed \cup {c \in Callers : caller[c].at # "idle" /\ caller[c].tool = n}
  /\ UNCHANGED <<clock, generations, caller, lister>>

\* send: notifications/tools/list_changed invalidates what was learned.
Announce ==
  /\ \E n \in Names : ~announced[n] /\ changes > 0
  /\ Current < MaxGenerations
  /\ announced' = [n \in Names |-> TRUE]
  /\ generations' = Append(generations, NewGeneration)
  /\ UNCHANGED <<registry, changedAt, changes, clock, caller, disturbed, lister>>

\* Time is measured in parts of the TTL; no listing takes as long as one.
Pass ==
  /\ clock < MaxTime /\ clock' = clock + 1
  /\ \A c \in Callers : caller[c].at \notin {"walk", "served", "ended"}
  /\ \A l \in Listers : lister[l].at = "idle"
  /\ UNCHANGED <<serverVars, generations, caller, disturbed, lister>>

\* What a page of a listing shows.
Shown(p) == [n \in {n \in Pages[p] : registry[n] # "absent"} |-> registry[n]]

\* Mutant: whatever was listed is remembered as of now.
LearnedRegardless(g, seen) ==
  [generations EXCEPT ![Current].tools =
     [n \in Names |-> IF n \in DOMAIN seen THEN [info |-> seen[n], at |-> clock] ELSE @[n]]]

\* advertise: the tools listed are remembered, unless they were invalidated since.
Learned(g, seen) ==
  IF g # Current THEN generations
  ELSE [generations EXCEPT ![g].tools =
          [n \in Names |-> IF n \in DOMAIN seen THEN [info |-> seen[n], at |-> clock] ELSE @[n]]]

\* A client's listing of one page: the generation is taken before it, and its
\* result is advertised after it.  (A page without tools teaches nothing.)
List(l) ==
  /\ lister[l].at = "idle"
  /\ \E p \in {p \in DOMAIN Pages : Pages[p] # {}} :
       lister' = [lister EXCEPT ![l] = [at |-> "asked", page |-> p, gen |-> Current, seen |-> <<>>]]
  /\ UNCHANGED <<serverVars, clock, generations, caller, disturbed>>

ListServed(l) ==
  /\ lister[l].at = "asked"
  /\ lister' = [lister EXCEPT ![l].at = "served", ![l].seen = Shown(lister[l].page)]
  /\ UNCHANGED <<serverVars, clock, generations, caller, disturbed>>

ListAdvertised(l) ==
  /\ lister[l].at = "served"
  /\ generations' = Learned(lister[l].gen, lister[l].seen)
  /\ lister' = [lister EXCEPT ![l] = [@ EXCEPT !.at = "idle", !.page = 1, !.gen = 1, !.seen = <<>>]]
  /\ UNCHANGED <<serverVars, clock, caller, disturbed>>

--------------------------------------------------------------------------
(* A call.                                                                 *)

\* A tool is as it was the TTL ago, or when clients were last told of the tools.
Settled(n) == changedAt[n] + TTL <= clock \/ announced[n]

Move(c, step) == caller' = [caller EXCEPT ![c] = step]

\* lookupIn for a request with a session, under the lock: the tool is known or
\* remembered as missing, or to be walked for, or one waits for the walk that runs.
LookupIn(c, call) ==
  LET g == generations[Current]
      entry == g.tools[call.tool]
      known == (entry # Unlearned /\ Fresh(entry.at)) \/ Fresh(g.walkedAt)
  IN  \/ /\ known
         /\ Move(c, [call EXCEPT !.at = "known", !.gen = Current, !.info = entry.info])
         /\ UNCHANGED generations
      \/ /\ ~known /\ g.walking = Nobody
         /\ Move(c, [call EXCEPT !.at = "walk", !.gen = Current])
         /\ generations' = [generations EXCEPT ![Current].walking = c]
      \/ /\ ~known /\ g.walking # Nobody
         /\ Move(c, [call EXCEPT !.at = "wait", !.gen = Current, !.wait = g.walking])
         /\ UNCHANGED generations

Lookup(c) ==
  /\ caller[c].at = "idle"
  /\ \E n \in Names :
       /\ LookupIn(c, [Resting EXCEPT !.tool = n])
       /\ disturbed' = IF Settled(n) THEN disturbed ELSE disturbed \cup {c}
  /\ UNCHANGED <<serverVars, clock, lister>>

\* A request without a session takes what is known, however old.
LookupWithoutSession(c) ==
  /\ caller[c].at = "idle"
  /\ \E n \in Names :
       Move(c, [Resting EXCEPT !.at = "known", !.tool = n, !.gen = Current,
                               !.info = generations[Current].tools[n].info])
  /\ disturbed' = disturbed \cup {c}
  /\ UNCHANGED <<serverVars, clock, generations, lister>>

WalkServed(c) ==
  /\ caller[c].at = "walk"
  /\ Move(c, [caller[c] EXCEPT !.at = "served", !.seen = Shown(caller[c].page)])
  /\ UNCHANGED <<serverVars, clock, generations, disturbed, lister>>

\* A page is learned; the walk goes on, or ends at the last page or at the cap.
\* The cap is an error, after which lookup does not look again.
WalkAdvertised(c) ==
  LET call == caller[c]
      learned == Learned(call.gen, call.seen)
      capped == call.page = MaxPages /\ call.page < Len(Pages)
      last == call.page = Len(Pages) \/ capped
  IN  /\ call.at = "served"
      /\ IF last
         THEN /\ generations' = [learned EXCEPT ![call.gen].walking = Nobody, ![call.gen].walkedAt = clock]
              /\ Move(c, [call EXCEPT !.at = "ended", !.seen = <<>>, !.again = @ \/ capped])
         ELSE /\ generations' = learned
              /\ Move(c, [call EXCEPT !.at = "walk", !.page = @ + 1, !.seen = <<>>])
      /\ UNCHANGED <<serverVars, clock, disturbed, lister>>

\* The calls that depend on the walk of c.
Sharing(c) == {c} \cup {d \in Callers : caller[d].at = "wait" /\ caller[d].wait = c}

\* An error, a panic or the end of the context: the next lookup walks again.  Only
\* the end of the context is no error.
WalkFails(c) ==
  /\ caller[c].at = "walk"
  /\ generations' = [generations EXCEPT ![caller[c].gen].walking = Nobody]
  /\ \E failed \in BOOLEAN : Move(c, [caller[c] EXCEPT !.at = "ended", !.again = @ \/ failed])
  /\ disturbed' = disturbed \cup Sharing(c)
  /\ UNCHANGED <<serverVars, clock, lister>>

\* Mutant: only a walk that went well wakes those that wait for it.
WalkClosedIfFinished(c) ==
  /\ caller[c].at = "ended"
  /\ caller' = [d \in Callers |->
       IF d = c THEN [caller[d] EXCEPT !.at = "read", !.page = 1]
       ELSE IF d \in Sharing(c) /\ Fresh(generations[caller[c].gen].walkedAt)
            THEN [caller[d] EXCEPT !.at = "read", !.wait = Nobody] ELSE caller[d]]
  /\ UNCHANGED <<serverVars, clock, generations, disturbed, lister>>

\* close(walking), after the lock was released.
WalkClosed(c) ==
  /\ caller[c].at = "ended"
  /\ caller' = [d \in Callers |->
       IF d = c THEN [caller[d] EXCEPT !.at = "read", !.page = 1]
       ELSE IF d \in Sharing(c) THEN [caller[d] EXCEPT !.at = "read", !.wait = Nobody] ELSE caller[d]]
  /\ UNCHANGED <<serverVars, clock, generations, disturbed, lister>>

\* The context of a call that waits is done.
WaitEnds(c) ==
  /\ caller[c].at = "wait"
  /\ Move(c, [caller[c] EXCEPT !.at = "read", !.wait = Nobody])
  /\ disturbed' = disturbed \cup {c}
  /\ UNCHANGED <<serverVars, clock, generations, lister>>

\* lookup: once more if the tools changed since the call was looked up, unless
\* its walk failed.
Return(c, call) ==
  IF call.gen # Current /\ ~call.again
  THEN LookupIn(c, [Resting EXCEPT !.tool = call.tool, !.again = TRUE])
  ELSE Move(c, [call EXCEPT !.at = "prepared"]) /\ UNCHANGED generations

\* lookupIn, under the lock again.
Read(c) ==
  /\ caller[c].at = "read"
  /\ Return(c, [caller[c] EXCEPT !.info = generations[caller[c].gen].tools[caller[c].tool].info])
  /\ disturbed' = IF caller[c].gen # Current /\ caller[c].again THEN disturbed \cup {c} ELSE disturbed
  /\ UNCHANGED <<serverVars, clock, lister>>

Compare(c) ==
  /\ caller[c].at = "known"
  /\ Return(c, caller[c])
  /\ UNCHANGED <<serverVars, clock, disturbed, lister>>

\* The call is dispatched, stripped of the argument if that was advertised.
Dispatch(c) ==
  /\ caller[c].at = "prepared"
  /\ Move(c, Resting) /\ disturbed' = disturbed \ {c}
  /\ UNCHANGED <<serverVars, clock, generations, lister>>

CatalogNext ==
  \/ Change \/ Announce \/ Pass
  \/ \E l \in Listers : List(l) \/ ListServed(l) \/ ListAdvertised(l)
  \/ \E c \in Callers :
       \/ Lookup(c) \/ LookupWithoutSession(c) \/ WalkServed(c) \/ WalkAdvertised(c) \/ WalkFails(c)
       \/ WalkClosed(c) \/ WaitEnds(c) \/ Read(c) \/ Compare(c) \/ Dispatch(c)

CatalogSpec == CatalogInit /\ [][CatalogNext]_catalogVars

--------------------------------------------------------------------------
(* Properties.                                                             *)

\* A call of a tool that is settled loses the argument if that was advertised, and
\* keeps one the tool declares itself: whoever lists the tools meanwhile, for
\* whatever generation, and whichever walk the call waits for.  Calls are left
\* out that have no session to list with, whose tool changes under them, whose
\* walk fails, those of a tool behind the page cap, and those that were outrun:
\* the tools changed again while the call looked for the second time, or changed
\* during a walk that met the page cap.
StableToolsAreKnown ==
  \A c \in Callers :
    LET call == caller[c]
    IN  /\ call.at = "prepared" /\ c \notin disturbed
        /\ \E p \in 1..MaxPages : p \in DOMAIN Pages /\ call.tool \in Pages[p]
        /\ registry[call.tool] # "absent"
        => call.info = registry[call.tool]

\* A call waits only for a walk that runs, of the generation it looked at; and a
\* generation that says a walk runs is not wrong about it, or nobody would walk
\* it again.
WaitsForARunningWalk ==
  /\ \A c \in Callers : caller[c].at = "wait" =>
       LET leader == caller[caller[c].wait]
       IN  leader.at \in {"walk", "served", "ended"} /\ leader.gen = caller[c].gen
  /\ \A g \in DOMAIN generations : generations[g].walking # Nobody =>
       LET leader == caller[generations[g].walking]
       IN  leader.at \in {"walk", "served"} /\ leader.gen = g
=============================================================================
