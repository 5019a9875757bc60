------------------------------ MODULE McpProofs ------------------------------
(***************************************************************************)
(* Safety of the MCP adapters, for any pages and tools, any number of calls *)
(* and connections and any limits: the tool catalog of the middleware for   *)
(* go-sdk servers, the session ids and conversations of its calls, what the  *)
(* hooks of mcp-go servers report, and the messages of a call.              *)
(***************************************************************************)
EXTENDS McpCatalog, McpCalls, McpGoCalls, McpEvents, FiniteSetTheorems, SequenceTheorems, WellFoundedInduction, TLAPS

USE PagesAssumption, NobodyAssumption, BoundsAssumption

--------------------------------------------------------------------------
(* The catalog: types.                                                     *)

Steps == {"idle", "known", "walk", "served", "ended", "wait", "read", "prepared"}
\* What a page showed.
Shows == UNION {[S -> Registrations \ {"absent"}] : S \in SUBSET Names}

CallRecord ==
  [at : Steps, tool : Names \cup {Resting.tool}, gen : Nat, page : 1..Len(Pages), seen : Shows \cup {<<>>},
   wait : Callers \cup {Nobody}, again : BOOLEAN, info : Registrations]
ListRecord ==
  [at : {"idle", "asked", "served"}, page : 1..Len(Pages), gen : Nat, seen : Shows \cup {<<>>}]
Generation ==
  [tools : [Names -> [info : Registrations, at : Nat]], walking : Callers \cup {Nobody}, walkedAt : Nat]

CatalogTypeOK ==
  /\ registry \in [Names -> Registrations]
  /\ changedAt \in [Names -> Nat] /\ announced \in [Names -> BOOLEAN] /\ changes \in Nat
  /\ clock \in TTL..MaxTime
  /\ generations \in Seq(Generation) /\ generations # <<>>
  /\ caller \in [Callers -> CallRecord] /\ disturbed \subseteq Callers
  /\ lister \in [Listers -> ListRecord]

LEMMA CallFields ==
  ASSUME CatalogTypeOK, NEW c \in Callers
  PROVE  /\ caller[c] \in CallRecord
         /\ caller[c].at \in Steps /\ caller[c].tool \in Names \cup {Resting.tool} /\ caller[c].gen \in Nat
         /\ caller[c].page \in 1..Len(Pages) /\ caller[c].seen \in Shows \cup {<<>>}
         /\ caller[c].wait \in Callers \cup {Nobody} /\ caller[c].again \in BOOLEAN
         /\ caller[c].info \in Registrations
BY DEF CatalogTypeOK, CallRecord

LEMMA RestingIsCall == Resting \in CallRecord
<1>1. 1 \in 1..Len(Pages) /\ 1 \in Nat
  OBVIOUS
<1>. QED BY <1>1 DEF Resting, CallRecord, Steps, Registrations

LEMMA GenerationFields ==
  ASSUME CatalogTypeOK, NEW g \in 1..Current
  PROVE  /\ generations[g] \in Generation
         /\ generations[g].tools \in [Names -> [info : Registrations, at : Nat]]
         /\ generations[g].walking \in Callers \cup {Nobody}
         /\ generations[g].walkedAt \in Nat
<1>1. generations[g] \in Generation
  BY DEF CatalogTypeOK, Current
<1>. QED BY <1>1 DEF Generation

LEMMA CurrentIsThere ==
  ASSUME CatalogTypeOK
  PROVE  Current \in 1..Current /\ DOMAIN generations = 1..Current /\ Current \in Nat
BY DEF CatalogTypeOK, Current

LEMMA NewGenerationIsOne == NewGeneration \in Generation
BY DEF NewGeneration, Generation, Unlearned, Never, Registrations

LEMMA ShownIsShow ==
  ASSUME CatalogTypeOK, NEW p \in 1..Len(Pages)
  PROVE  /\ Shown(p) \in Shows /\ Pages[p] \subseteq Names
         /\ DOMAIN Shown(p) = {n \in Pages[p] : registry[n] # "absent"}
         /\ \A n \in DOMAIN Shown(p) : Shown(p)[n] = registry[n]
<1>1. Pages[p] \subseteq Names
  OBVIOUS
<1>. DEFINE S == {n \in Pages[p] : registry[n] # "absent"}
<1>2. S \in SUBSET Names /\ \A n \in S : registry[n] \in Registrations \ {"absent"}
  BY <1>1 DEF CatalogTypeOK
<1>3. Shown(p) = [n \in S |-> registry[n]]
  BY DEF Shown
<1>4. Shown(p) \in [S -> Registrations \ {"absent"}]
  BY <1>2, <1>3
<1>5. Shown(p) \in Shows
  BY <1>2, <1>4 DEF Shows
<1>. QED BY <1>1, <1>3, <1>5

\* What learning a page changes.
LEMMA Learning ==
  ASSUME CatalogTypeOK, NEW g \in 1..Current, NEW seen \in Shows \cup {<<>>}
  PROVE  /\ Learned(g, seen) \in Seq(Generation) /\ Len(Learned(g, seen)) = Current
         /\ \A h \in 1..Current :
              /\ Learned(g, seen)[h].walking = generations[h].walking
              /\ Learned(g, seen)[h].walkedAt = generations[h].walkedAt
         /\ \A n \in Names : Learned(g, seen)[Current].tools[n] =
              IF g = Current /\ n \in DOMAIN seen THEN [info |-> seen[n], at |-> clock]
              ELSE generations[Current].tools[n]
<1>. USE CurrentIsThere
<1>1. CASE g # Current
  BY <1>1 DEF Learned, CatalogTypeOK, Current
<1>2. CASE g = Current
  <2>. DEFINE tools == [n \in Names |-> IF n \in DOMAIN seen THEN [info |-> seen[n], at |-> clock]
                                        ELSE generations[g].tools[n]]
              known == [generations[g] EXCEPT !.tools = tools]
  <2>1. Learned(g, seen) = [generations EXCEPT ![g] = known]
    BY <1>2 DEF Learned
  <2>2. \A n \in DOMAIN seen : seen[n] \in Registrations
    BY DEF Shows
  <2>3. clock \in Nat
    BY DEF CatalogTypeOK
  <2>4. tools \in [Names -> [info : Registrations, at : Nat]]
    BY <2>2, <2>3, GenerationFields
  <2>5. /\ known \in Generation /\ known.tools = tools /\ known.walking = generations[g].walking
        /\ known.walkedAt = generations[g].walkedAt
    BY <2>4, GenerationFields DEF Generation
  <2>. HIDE DEF known
  <2>6. generations \in Seq(Generation) /\ Len(generations) = Current
    BY DEF CatalogTypeOK, Current
  <2>7. Learned(g, seen) \in Seq(Generation) /\ Len(Learned(g, seen)) = Current
    BY <2>1, <2>5, <2>6
  <2>8. \A h \in 1..Current : Learned(g, seen)[h] = IF h = g THEN known ELSE generations[h]
    BY <2>1, <2>6
  <2>. QED BY <1>2, <2>5, <2>7, <2>8
<1>. QED BY <1>1, <1>2

\* A call of which some fields change is a call.
LEMMA CallStays ==
  ASSUME NEW call \in CallRecord
  PROVE  /\ \A at \in Steps : [call EXCEPT !.at = at] \in CallRecord
         /\ \A at \in Steps, g \in Nat : [call EXCEPT !.at = at, !.gen = g] \in CallRecord
         /\ \A at \in Steps, g \in Nat, info \in Registrations :
              [call EXCEPT !.at = at, !.gen = g, !.info = info] \in CallRecord
         /\ \A at \in Steps, g \in Nat, w \in Callers \cup {Nobody} :
              [call EXCEPT !.at = at, !.gen = g, !.wait = w] \in CallRecord
         /\ \A at \in Steps, w \in Callers \cup {Nobody} : [call EXCEPT !.at = at, !.wait = w] \in CallRecord
         /\ \A at \in Steps, p \in 1..Len(Pages) : [call EXCEPT !.at = at, !.page = p] \in CallRecord
         /\ \A info \in Registrations : [call EXCEPT !.info = info] \in CallRecord
         /\ \A n \in Names : [call EXCEPT !.tool = n] \in CallRecord
         /\ \A n \in Names, again \in BOOLEAN : [call EXCEPT !.tool = n, !.again = again] \in CallRecord
         /\ \A at \in Steps, again \in BOOLEAN : [call EXCEPT !.at = at, !.again = again] \in CallRecord
         /\ \A at \in Steps, seen \in Shows \cup {<<>>} : [call EXCEPT !.at = at, !.seen = seen] \in CallRecord
         /\ \A at \in Steps, seen \in Shows \cup {<<>>}, again \in BOOLEAN :
              [call EXCEPT !.at = at, !.seen = seen, !.again = again] \in CallRecord
         /\ \A at \in Steps, seen \in Shows \cup {<<>>}, p \in 1..Len(Pages) :
              [call EXCEPT !.at = at, !.page = p, !.seen = seen] \in CallRecord
BY DEF CallRecord

\* What the current generation knows of a tool.
EntryOf(n) == generations[Current].tools[n]

\* A call looks at a generation there is, for a tool there may be, and a walk stays
\* within its pages.
PlacesInv ==
  /\ \A c \in Callers :
       /\ caller[c].gen \in 1..Current /\ caller[c].page <= MaxPages
       /\ caller[c].at # "idle" => caller[c].tool \in Names
  /\ \A l \in Listers : lister[l].gen \in 1..Current

CatalogShape == CatalogTypeOK /\ PlacesInv

LEMMA ShapeInit == CatalogInit => CatalogShape
<1>. SUFFICES ASSUME CatalogInit PROVE CatalogShape
  OBVIOUS
<1>1. generations = <<NewGeneration>> /\ generations \in Seq(Generation) /\ Len(generations) = 1
  BY NewGenerationIsOne DEF CatalogInit
<1>2. caller \in [Callers -> CallRecord]
  BY RestingIsCall DEF CatalogInit
<1>3. 1 \in 1..Len(Pages)
  OBVIOUS
<1>4. lister \in [Listers -> ListRecord]
  BY <1>3 DEF CatalogInit, ListRecord
<1>5. CatalogTypeOK
  BY <1>1, <1>2, <1>4 DEF CatalogInit, CatalogTypeOK, Registrations
<1>6. PlacesInv
  BY <1>1 DEF CatalogInit, PlacesInv, Current, Resting
<1>. QED BY <1>5, <1>6 DEF CatalogShape

\* What a step may do to generations: they stay, are added to, and keep their shape.
Grows(more) == more \in Seq(Generation) /\ Len(more) >= Current

LEMMA CallerMoves ==
  ASSUME CatalogShape, NEW c \in Callers, NEW call \in CallRecord, Move(c, call),
         call.gen \in 1..Current, call.page <= MaxPages, call.at # "idle" => call.tool \in Names,
         UNCHANGED <<serverVars, clock, lister>>, disturbed' \subseteq Callers, Grows(generations')
  PROVE  CatalogShape'
<1>. USE DEF CatalogShape
<1>1. caller' = [caller EXCEPT ![c] = call] /\ caller' \in [Callers -> CallRecord]
  BY DEF Move, CatalogTypeOK
<1>2. CatalogTypeOK'
  BY <1>1 DEF CatalogTypeOK, serverVars, Grows, Current
<1>3. Current' \in Nat /\ Current \in Nat /\ Current' >= Current
  BY DEF CatalogTypeOK, Grows, Current
<1>4. \A d \in Callers : caller'[d] = IF d = c THEN call ELSE caller[d]
  BY <1>1 DEF CatalogTypeOK
<1>5. PlacesInv'
  BY <1>3, <1>4 DEF PlacesInv
<1>. QED BY <1>2, <1>5

\* One generation gets another leader.
Led(g, w) == [generations EXCEPT ![g].walking = w]

LEMMA Leads ==
  ASSUME CatalogTypeOK, NEW g \in 1..Current, NEW w \in Callers \cup {Nobody}
  PROVE  /\ Grows(Led(g, w)) /\ Len(Led(g, w)) = Current
         /\ \A h \in 1..Current :
              /\ Led(g, w)[h].walking = IF h = g THEN w ELSE generations[h].walking
              /\ Led(g, w)[h].tools = generations[h].tools
              /\ Led(g, w)[h].walkedAt = generations[h].walkedAt
<1>. DEFINE gen == [generations[g] EXCEPT !.walking = w]
<1>1. gen \in Generation /\ gen.walking = w /\ gen.tools = generations[g].tools /\ gen.walkedAt = generations[g].walkedAt
  BY GenerationFields DEF Generation
<1>2. Led(g, w) = [generations EXCEPT ![g] = gen]
  BY DEF Led
<1>. HIDE DEF gen
<1>3. generations \in Seq(Generation) /\ Len(generations) = Current
  BY DEF CatalogTypeOK, Current
<1>4. Led(g, w) \in Seq(Generation) /\ Len(Led(g, w)) = Current
  BY <1>1, <1>2, <1>3
<1>5. \A h \in 1..Current : Led(g, w)[h] = IF h = g THEN gen ELSE generations[h]
  BY <1>2, <1>3
<1>. QED BY <1>1, <1>4, <1>5, CurrentIsThere DEF Grows

LEMMA Unmoved == CatalogTypeOK => Grows(generations)
BY CurrentIsThere DEF CatalogTypeOK, Grows, Current

\* The three outcomes of lookupIn: the call of the tool is known, walks or waits.
LookedUp(c, tool, moved) ==
  /\ Move(c, moved) /\ moved.gen = Current /\ moved.page = 1 /\ moved.tool = tool
  /\ Grows(generations') /\ Len(generations') = Current
  /\ \A h \in 1..Current :
       generations'[h].tools = generations[h].tools /\ generations'[h].walkedAt = generations[h].walkedAt
  /\ \/ /\ moved.at = "known" /\ moved.info = EntryOf(tool).info
        /\ \/ EntryOf(tool) # Unlearned /\ Fresh(EntryOf(tool).at)
           \/ Fresh(generations[Current].walkedAt)
        /\ generations' = generations
     \/ /\ moved.at = "walk" /\ generations[Current].walking = Nobody
        /\ \A h \in 1..Current :
             generations'[h].walking = IF h = Current THEN c ELSE generations[h].walking
     \/ /\ moved.at = "wait" /\ moved.wait = generations[Current].walking
        /\ moved.wait # Nobody /\ generations' = generations

LEMMA LookingUp ==
  ASSUME CatalogShape, NEW c \in Callers, NEW call \in CallRecord, LookupIn(c, call),
         call.tool \in Names, call.page = 1
  PROVE  \E moved \in CallRecord : LookedUp(c, call.tool, moved)
<1>. USE DEF CatalogShape
<1>. DEFINE g == generations[Current]
            entry == g.tools[call.tool]
            known == (entry # Unlearned /\ Fresh(entry.at)) \/ Fresh(g.walkedAt)
<1>1. Current \in 1..Current /\ Current \in Nat /\ Len(generations) = Current
  BY CurrentIsThere DEF Current
<1>2. g.walking \in Callers \cup {Nobody} /\ entry \in [info : Registrations, at : Nat]
  BY <1>1, GenerationFields
<1>3. entry = EntryOf(call.tool)
  BY DEF EntryOf
<1>4. Grows(generations)
  BY Unmoved
<1>. DEFINE k == [call EXCEPT !.at = "known", !.gen = Current, !.info = entry.info]
            w == [call EXCEPT !.at = "walk", !.gen = Current]
            a == [call EXCEPT !.at = "wait", !.gen = Current, !.wait = g.walking]
<1>5. k \in CallRecord /\ w \in CallRecord /\ a \in CallRecord
  BY <1>1, <1>2, CallStays DEF Steps
<1>6. /\ k.at = "known" /\ k.gen = Current /\ k.info = entry.info /\ k.page = call.page /\ k.tool = call.tool
      /\ w.at = "walk" /\ w.gen = Current /\ w.page = call.page /\ w.tool = call.tool
      /\ a.at = "wait" /\ a.gen = Current /\ a.wait = g.walking /\ a.page = call.page /\ a.tool = call.tool
  BY DEF CallRecord
<1>. DEFINE Knows == known /\ Move(c, k) /\ UNCHANGED generations
            Walks == ~known /\ g.walking = Nobody /\ Move(c, w)
                     /\ generations' = [generations EXCEPT ![Current].walking = c]
            Waits == ~known /\ g.walking # Nobody /\ Move(c, a) /\ UNCHANGED generations
<1>7. Knows \/ Walks \/ Waits
  BY DEF LookupIn
<1>. HIDE DEF k, w, a
<1>8. CASE Knows
  <2>1. LookedUp(c, call.tool, k)
    BY <1>1, <1>3, <1>4, <1>6, <1>8 DEF LookedUp
  <2>. QED BY <1>5, <2>1
<1>9. CASE Walks
  <2>1. generations' = Led(Current, c)
    BY <1>9 DEF Led
  <2>2. c \in Callers \cup {Nobody}
    OBVIOUS
  <2>3. /\ Grows(generations') /\ Len(generations') = Current
        /\ \A h \in 1..Current :
             /\ generations'[h].walking = IF h = Current THEN c ELSE generations[h].walking
             /\ generations'[h].tools = generations[h].tools
             /\ generations'[h].walkedAt = generations[h].walkedAt
    BY <1>1, <2>1, <2>2, Leads
  <2>4. Move(c, w) /\ generations[Current].walking = Nobody
    BY <1>9
  <2>5. LookedUp(c, call.tool, w)
    BY <1>6, <2>3, <2>4 DEF LookedUp
  <2>. QED BY <1>5, <2>5
<1>10. CASE Waits
  <2>1. LookedUp(c, call.tool, a)
    BY <1>1, <1>4, <1>6, <1>10 DEF LookedUp
  <2>. QED BY <1>5, <2>1
<1>. QED BY <1>7, <1>8, <1>9, <1>10

\* A call that asks for a tool anew.
LEMMA Asking ==
  \A n \in Names, again \in BOOLEAN :
    LET call == [Resting EXCEPT !.tool = n, !.again = again]
    IN  /\ call \in CallRecord /\ call.tool = n /\ call.page = 1
<1>. TAKE n \in Names, again \in BOOLEAN
<1>1. [Resting EXCEPT !.tool = n, !.again = again] \in CallRecord
  BY RestingIsCall, CallStays
<1>2. Resting.page = 1
  BY DEF Resting
<1>. QED BY <1>1, <1>2, RestingIsCall DEF CallRecord

LEMMA AskingFirst ==
  \A n \in Names : LET call == [Resting EXCEPT !.tool = n]
                   IN  call \in CallRecord /\ call.tool = n /\ call.page = 1 /\ call.again = FALSE
<1>1. Resting.page = 1 /\ Resting.again = FALSE
  BY DEF Resting
<1>2. \A n \in Names : [Resting EXCEPT !.tool = n] \in CallRecord
  BY RestingIsCall, CallStays
<1>. QED BY <1>1, <1>2, RestingIsCall DEF CallRecord

\* The outcomes of lookup, when a call has what it looked for: it is prepared, or looked
\* up again.
LookupReturned(c, call, moved) ==
  \/ /\ call.gen = Current \/ call.again
     /\ moved = [call EXCEPT !.at = "prepared"] /\ Move(c, moved) /\ UNCHANGED generations
  \/ call.gen # Current /\ ~call.again /\ LookedUp(c, call.tool, moved)

LEMMA Returning ==
  ASSUME CatalogShape, NEW c \in Callers, NEW call \in CallRecord, call.tool \in Names, Return(c, call)
  PROVE  \E moved \in CallRecord : LookupReturned(c, call, moved)
<1>1. CASE call.gen # Current /\ ~call.again
  <2>. DEFINE asked == [Resting EXCEPT !.tool = call.tool, !.again = TRUE]
  <2>1. asked \in CallRecord /\ asked.tool = call.tool /\ asked.page = 1
    BY Asking
  <2>2. LookupIn(c, asked)
    BY <1>1 DEF Return
  <2>. HIDE DEF asked
  <2>. QED BY <1>1, <2>1, <2>2, LookingUp DEF LookupReturned
<1>2. CASE ~(call.gen # Current /\ ~call.again)
  <2>1. [call EXCEPT !.at = "prepared"] \in CallRecord
    BY CallStays DEF Steps
  <2>2. call.again \in BOOLEAN
    BY DEF CallRecord
  <2>. QED BY <1>2, <2>1, <2>2 DEF Return, LookupReturned
<1>. QED BY <1>1, <1>2

\* A walk that is complete.
Done(g, seen) == [Learned(g, seen) EXCEPT ![g].walking = Nobody, ![g].walkedAt = clock]

LEMMA WalkIsDone ==
  ASSUME CatalogTypeOK, NEW g \in 1..Current, NEW seen \in Shows \cup {<<>>}
  PROVE  /\ Grows(Done(g, seen)) /\ Len(Done(g, seen)) = Current
         /\ \A h \in 1..Current :
              /\ Done(g, seen)[h].walking = IF h = g THEN Nobody ELSE generations[h].walking
              /\ Done(g, seen)[h].walkedAt = IF h = g THEN clock ELSE generations[h].walkedAt
              /\ Done(g, seen)[h].tools = Learned(g, seen)[h].tools
<1>. DEFINE learned == Learned(g, seen)
            gen == [learned[g] EXCEPT !.walking = Nobody, !.walkedAt = clock]
<1>1. learned \in Seq(Generation) /\ Len(learned) = Current
  BY Learning
<1>2. \A h \in 1..Current : learned[h].walking = generations[h].walking /\ learned[h].walkedAt = generations[h].walkedAt
  BY Learning
<1>3. Current \in Nat /\ clock \in Nat
  BY CurrentIsThere DEF CatalogTypeOK
<1>4. learned[g] \in Generation
  BY <1>1, <1>3
<1>5. gen \in Generation /\ gen.walking = Nobody /\ gen.walkedAt = clock /\ gen.tools = learned[g].tools
  BY <1>3, <1>4 DEF Generation
<1>6. Done(g, seen) = [learned EXCEPT ![g] = gen]
  BY DEF Done
<1>. HIDE DEF gen, learned
<1>7. Done(g, seen) \in Seq(Generation) /\ Len(Done(g, seen)) = Current
  BY <1>1, <1>5, <1>6
<1>8. \A h \in 1..Current : Done(g, seen)[h] = IF h = g THEN gen ELSE learned[h]
  BY <1>1, <1>6
<1>9. Grows(Done(g, seen))
  BY <1>3, <1>7 DEF Grows
<1>10. \A h \in 1..Current :
         /\ Done(g, seen)[h].walking = IF h = g THEN Nobody ELSE generations[h].walking
         /\ Done(g, seen)[h].walkedAt = IF h = g THEN clock ELSE generations[h].walkedAt
         /\ Done(g, seen)[h].tools = learned[h].tools
  BY <1>2, <1>5, <1>8
<1>. QED BY <1>7, <1>9, <1>10 DEF learned

\* The server and its clients keep the shape.
LEMMA ServerKeepsShape ==
  ASSUME CatalogShape, Change \/ Announce \/ Pass
  PROVE  CatalogShape'
<1>. USE DEF CatalogShape
<1>1. CASE Change
  <2>. PICK n \in Names, r \in Registrations :
         /\ registry' = [registry EXCEPT ![n] = r] /\ changedAt' = [changedAt EXCEPT ![n] = clock]
         /\ announced' = [announced EXCEPT ![n] = FALSE]
         /\ disturbed' = disturbed \cup {c \in Callers : caller[c].at # "idle" /\ caller[c].tool = n}
    BY <1>1 DEF Change
  <2>1. clock \in Nat
    BY DEF CatalogTypeOK
  <2>2. CatalogTypeOK'
    BY <1>1, <2>1 DEF Change, CatalogTypeOK
  <2>3. PlacesInv'
    BY <1>1 DEF Change, PlacesInv, Current
  <2>. QED BY <2>2, <2>3
<1>2. CASE Announce
  <2>1. generations' = Append(generations, NewGeneration) /\ generations \in Seq(Generation)
    BY <1>2 DEF Announce, CatalogTypeOK
  <2>2. /\ generations' \in Seq(Generation) /\ generations' # <<>> /\ Current' = Current + 1
        /\ Current \in Nat
    BY <2>1, NewGenerationIsOne DEF Current
  <2>3. CatalogTypeOK'
    BY <1>2, <2>2 DEF Announce, CatalogTypeOK
  <2>4. \A g \in 1..Current : g \in 1..Current'
    BY <2>2
  <2>5. PlacesInv'
    BY <1>2, <2>4 DEF Announce, PlacesInv
  <2>. QED BY <2>3, <2>5
<1>3. CASE Pass
  <2>1. CatalogTypeOK'
    BY <1>3 DEF Pass, serverVars, CatalogTypeOK
  <2>2. PlacesInv'
    BY <1>3 DEF Pass, PlacesInv, Current
  <2>. QED BY <2>1, <2>2
<1>. QED BY <1>1, <1>2, <1>3

\* So do the listings of clients.
LEMMA ListersKeepShape ==
  ASSUME CatalogShape, NEW l \in Listers, List(l) \/ ListServed(l) \/ ListAdvertised(l)
  PROVE  CatalogShape'
<1>. USE DEF CatalogShape
<1>0. /\ lister[l] \in ListRecord /\ lister[l].gen \in 1..Current /\ lister[l].page \in 1..Len(Pages)
      /\ lister[l].seen \in Shows \cup {<<>>}
  BY DEF CatalogTypeOK, PlacesInv, ListRecord
<1>1. CASE List(l)
  <2>. PICK p \in DOMAIN Pages :
         lister' = [lister EXCEPT ![l] = [at |-> "asked", page |-> p, gen |-> Current, seen |-> <<>>]]
    BY <1>1 DEF List
  <2>1. [at |-> "asked", page |-> p, gen |-> Current, seen |-> <<>>] \in ListRecord
    BY CurrentIsThere DEF ListRecord
  <2>2. CatalogTypeOK'
    BY <1>1, <2>1 DEF List, serverVars, CatalogTypeOK
  <2>3. PlacesInv'
    BY <1>1, CurrentIsThere DEF List, PlacesInv, Current, CatalogTypeOK
  <2>. QED BY <2>2, <2>3
<1>2. CASE ListServed(l)
  <2>1. lister' = [lister EXCEPT ![l] = [lister[l] EXCEPT !.at = "served", !.seen = Shown(lister[l].page)]]
    BY <1>2 DEF ListServed, CatalogTypeOK
  <2>2. [lister[l] EXCEPT !.at = "served", !.seen = Shown(lister[l].page)] \in ListRecord
    BY <1>0, ShownIsShow DEF ListRecord
  <2>3. CatalogTypeOK'
    BY <1>2, <2>1, <2>2 DEF ListServed, serverVars, CatalogTypeOK
  <2>4. PlacesInv'
    BY <1>2, <1>0, <2>1 DEF ListServed, PlacesInv, Current, CatalogTypeOK, ListRecord
  <2>. QED BY <2>3, <2>4
<1>3. CASE ListAdvertised(l)
  <2>1. generations' \in Seq(Generation) /\ Len(generations') = Current
    BY <1>3, <1>0, Learning DEF ListAdvertised
  <2>2. generations' # <<>> /\ Current' = Current
    BY <2>1, CurrentIsThere DEF Current
  <2>3. lister' = [lister EXCEPT ![l] = [lister[l] EXCEPT !.at = "idle", !.page = 1, !.gen = 1, !.seen = <<>>]]
    BY <1>3 DEF ListAdvertised, CatalogTypeOK
  <2>4. [lister[l] EXCEPT !.at = "idle", !.page = 1, !.gen = 1, !.seen = <<>>] \in ListRecord
    <3>1. 1 \in 1..Len(Pages) /\ 1 \in Nat /\ <<>> \in Shows \cup {<<>>}
      OBVIOUS
    <3>. QED BY <1>0, <3>1 DEF ListRecord
  <2>5. CatalogTypeOK'
    BY <1>3, <2>1, <2>2, <2>3, <2>4 DEF ListAdvertised, serverVars, CatalogTypeOK
  <2>6. 1 \in 1..Current
    BY CurrentIsThere
  <2>7. PlacesInv'
    BY <1>3, <1>0, <2>2, <2>3, <2>6 DEF ListAdvertised, PlacesInv, CatalogTypeOK, ListRecord
  <2>. QED BY <2>5, <2>7
<1>. QED BY <1>1, <1>2, <1>3

\* A call of a tool, and its listing, keep the shape.
LEMMA LookingUpKeepsShape ==
  ASSUME CatalogShape, NEW c \in Callers, NEW moved \in CallRecord, NEW tool \in Names, LookedUp(c, tool, moved),
         UNCHANGED <<serverVars, clock, lister>>, disturbed' \subseteq Callers
  PROVE  CatalogShape'
<1>1. moved.gen \in 1..Current /\ moved.page <= MaxPages /\ moved.tool \in Names /\ Move(c, moved) /\ Grows(generations')
  BY CurrentIsThere DEF LookedUp, CatalogShape
<1>. QED BY <1>1, CallerMoves

LEMMA CallersKeepShape ==
  ASSUME CatalogShape, NEW c \in Callers,
         \/ Lookup(c) \/ LookupWithoutSession(c) \/ WalkServed(c) \/ WalkAdvertised(c) \/ WalkFails(c)
         \/ WalkClosed(c) \/ WaitEnds(c) \/ Read(c) \/ Compare(c) \/ Dispatch(c)
  PROVE  CatalogShape'
<1>0. /\ caller[c] \in CallRecord /\ caller[c].gen \in 1..Current /\ caller[c].page <= MaxPages
      /\ caller[c].page \in 1..Len(Pages) /\ caller[c].seen \in Shows \cup {<<>>}
      /\ caller[c].wait \in Callers \cup {Nobody} /\ caller[c].again \in BOOLEAN
      /\ caller[c].at # "idle" => caller[c].tool \in Names
      /\ disturbed \subseteq Callers /\ CatalogTypeOK
  BY CallFields DEF CatalogShape, PlacesInv, CatalogTypeOK
<1>u. Grows(generations)
  BY <1>0, Unmoved
<1>1. CASE Lookup(c)
  <2>. PICK n \in Names : LookupIn(c, [Resting EXCEPT !.tool = n])
    BY <1>1 DEF Lookup
  <2>. DEFINE asked == [Resting EXCEPT !.tool = n]
  <2>1. asked \in CallRecord /\ asked.tool = n /\ asked.page = 1
    BY AskingFirst
  <2>2. LookupIn(c, asked)
    OBVIOUS
  <2>. HIDE DEF asked
  <2>. PICK moved \in CallRecord : LookedUp(c, n, moved)
    BY <2>1, <2>2, LookingUp
  <2>3. disturbed' \subseteq Callers /\ UNCHANGED <<serverVars, clock, lister>>
    BY <1>0, <1>1 DEF Lookup
  <2>. QED BY <2>3, LookingUpKeepsShape
<1>2. CASE LookupWithoutSession(c)
  <2>. PICK n \in Names :
         Move(c, [Resting EXCEPT !.at = "known", !.tool = n, !.gen = Current, !.info = generations[Current].tools[n].info])
    BY <1>2 DEF LookupWithoutSession
  <2>. DEFINE call == [Resting EXCEPT !.at = "known", !.tool = n, !.gen = Current, !.info = generations[Current].tools[n].info]
  <2>1. generations[Current].tools[n].info \in Registrations /\ Current \in 1..Current /\ Current \in Nat
    BY <1>0, CurrentIsThere, GenerationFields
  <2>2. call \in CallRecord /\ call.gen = Current /\ call.page = Resting.page /\ call.tool = n
    BY <2>1, RestingIsCall DEF CallRecord, Steps
  <2>3. Move(c, call)
    OBVIOUS
  <2>. HIDE DEF call
  <2>4. Resting.page = 1
    BY DEF Resting
  <2>5. UNCHANGED <<serverVars, clock, lister>> /\ generations' = generations /\ disturbed' \subseteq Callers
    BY <1>0, <1>2 DEF LookupWithoutSession
  <2>. QED BY <1>u, <2>1, <2>2, <2>3, <2>4, <2>5, CallerMoves
<1>3. CASE WalkServed(c)
  <2>. DEFINE call == [caller[c] EXCEPT !.at = "served", !.seen = Shown(caller[c].page)]
  <2>1. call \in CallRecord /\ call.gen = caller[c].gen /\ call.page = caller[c].page /\ call.tool = caller[c].tool
    BY <1>0, ShownIsShow DEF CallRecord, Steps
  <2>2. Move(c, call) /\ caller[c].at # "idle"
    BY <1>3 DEF WalkServed
  <2>. HIDE DEF call
  <2>3. UNCHANGED <<serverVars, clock, lister, generations, disturbed>>
    BY <1>3 DEF WalkServed
  <2>. QED BY <1>0, <1>u, <2>1, <2>2, <2>3, CallerMoves
<1>4. CASE WalkAdvertised(c)
  <2>. DEFINE capped == caller[c].page = MaxPages /\ caller[c].page < Len(Pages)
              last == caller[c].page = Len(Pages) \/ capped
              ended == [caller[c] EXCEPT !.at = "ended", !.seen = <<>>, !.again = @ \/ capped]
              on == [caller[c] EXCEPT !.at = "walk", !.page = @ + 1, !.seen = <<>>]
  <2>0. caller[c].at = "served" /\ UNCHANGED <<serverVars, clock, lister, disturbed>>
    BY <1>4 DEF WalkAdvertised
  <2>1. CASE last
    <3>1. generations' = Done(caller[c].gen, caller[c].seen) /\ Move(c, ended)
      BY <1>4, <2>1 DEF WalkAdvertised, Done
    <3>2. ended \in CallRecord /\ ended.gen = caller[c].gen /\ ended.page = caller[c].page /\ ended.tool = caller[c].tool
      BY <1>0 DEF CallRecord, Steps
    <3>. HIDE DEF ended
    <3>. QED BY <1>0, <2>0, <3>1, <3>2, WalkIsDone, CallerMoves
  <2>2. CASE ~last
    <3>1. generations' = Learned(caller[c].gen, caller[c].seen) /\ Move(c, on)
      BY <1>4, <2>2 DEF WalkAdvertised
    <3>2. caller[c].page + 1 \in 1..Len(Pages) /\ caller[c].page + 1 <= MaxPages
      BY <1>0, <2>2
    <3>3. on \in CallRecord /\ on.gen = caller[c].gen /\ on.page = caller[c].page + 1 /\ on.tool = caller[c].tool
      BY <1>0, <3>2 DEF CallRecord, Steps
    <3>. HIDE DEF on
    <3>4. Grows(generations')
      BY <1>0, <3>1, Learning, CurrentIsThere DEF Grows
    <3>. QED BY <1>0, <2>0, <3>1, <3>2, <3>3, <3>4, CallerMoves
  <2>. QED BY <2>1, <2>2
<1>5. CASE WalkFails(c)
  <2>. PICK failed \in BOOLEAN : Move(c, [caller[c] EXCEPT !.at = "ended", !.again = @ \/ failed])
    BY <1>5 DEF WalkFails
  <2>. DEFINE call == [caller[c] EXCEPT !.at = "ended", !.again = @ \/ failed]
  <2>1. call \in CallRecord /\ call.gen = caller[c].gen /\ call.page = caller[c].page /\ call.tool = caller[c].tool
    BY <1>0 DEF CallRecord, Steps
  <2>2. Move(c, call)
    OBVIOUS
  <2>. HIDE DEF call
  <2>3. /\ UNCHANGED <<serverVars, clock, lister>> /\ disturbed' \subseteq Callers /\ caller[c].at # "idle"
        /\ generations' = Led(caller[c].gen, Nobody)
    BY <1>0, <1>5 DEF WalkFails, Led, Sharing
  <2>4. Grows(generations')
    BY <1>0, <2>3, Leads
  <2>. QED BY <1>0, <2>1, <2>2, <2>3, <2>4, CallerMoves
<1>6. CASE WalkClosed(c)
  <2>1. \A d \in Callers : caller'[d] \in CallRecord /\ caller'[d].gen = caller[d].gen /\ caller'[d].tool = caller[d].tool
                           /\ caller'[d].page \in {1, caller[d].page} /\ (caller'[d] = caller[d] \/ caller[d].at # "idle")
    <3>. TAKE d \in Callers
    <3>1. caller[d] \in CallRecord
      BY <1>0, CallFields
    <3>2. 1 \in 1..Len(Pages)
      OBVIOUS
    <3>3. caller'[d] = IF d = c THEN [caller[d] EXCEPT !.at = "read", !.page = 1]
                       ELSE IF d \in Sharing(c) THEN [caller[d] EXCEPT !.at = "read", !.wait = Nobody] ELSE caller[d]
      BY <1>6 DEF WalkClosed
    <3>4. d \in Sharing(c) => caller[d].at # "idle"
      BY <1>6 DEF Sharing, WalkClosed
    <3>5. c \in Sharing(c)
      BY DEF Sharing
    <3>. QED BY <3>1, <3>2, <3>3, <3>4, <3>5 DEF CallRecord, Steps
  <2>2. caller' \in [Callers -> CallRecord]
    BY <1>6, <2>1 DEF WalkClosed
  <2>3. CatalogTypeOK'
    BY <1>0, <1>6, <2>2 DEF WalkClosed, CatalogTypeOK, serverVars
  <2>4. PlacesInv'
    <3>1. Current' = Current /\ lister' = lister
      BY <1>6 DEF WalkClosed, Current
    <3>. QED BY <2>1, <3>1 DEF PlacesInv, CatalogShape
  <2>. QED BY <2>3, <2>4 DEF CatalogShape
<1>7. CASE WaitEnds(c)
  <2>. DEFINE call == [caller[c] EXCEPT !.at = "read", !.wait = Nobody]
  <2>1. call \in CallRecord /\ call.gen = caller[c].gen /\ call.page = caller[c].page /\ call.tool = caller[c].tool
    BY <1>0 DEF CallRecord, Steps
  <2>2. Move(c, call) /\ caller[c].at # "idle"
    BY <1>7 DEF WaitEnds
  <2>. HIDE DEF call
  <2>3. UNCHANGED <<serverVars, clock, lister, generations>> /\ disturbed' \subseteq Callers
    BY <1>0, <1>7 DEF WaitEnds
  <2>. QED BY <1>0, <1>u, <2>1, <2>2, <2>3, CallerMoves
<1>8. ASSUME NEW call \in CallRecord, call.gen = caller[c].gen, call.page = caller[c].page, call.tool = caller[c].tool,
             caller[c].at # "idle", Return(c, call), UNCHANGED <<serverVars, clock, lister>>, disturbed' \subseteq Callers
      PROVE  CatalogShape'
  <2>. PICK moved \in CallRecord : LookupReturned(c, call, moved)
    BY <1>0, <1>8, Returning
  <2>1. CASE moved = [call EXCEPT !.at = "prepared"] /\ Move(c, moved) /\ UNCHANGED generations
    <3>1. moved.gen = caller[c].gen /\ moved.page = caller[c].page /\ moved.tool = caller[c].tool
      BY <1>8, <2>1 DEF CallRecord
    <3>. QED BY <1>0, <1>u, <1>8, <2>1, <3>1, CallerMoves
  <2>2. CASE LookedUp(c, call.tool, moved)
    BY <1>0, <1>8, <2>2, LookingUpKeepsShape
  <2>. QED BY <2>1, <2>2 DEF LookupReturned
<1>9. CASE Read(c)
  <2>. DEFINE call == [caller[c] EXCEPT !.info = generations[caller[c].gen].tools[caller[c].tool].info]
  <2>1. caller[c].at # "idle" /\ caller[c].tool \in Names /\ disturbed' \subseteq Callers
    BY <1>0, <1>9 DEF Read
  <2>2. generations[caller[c].gen].tools[caller[c].tool].info \in Registrations
    BY <1>0, <2>1, GenerationFields
  <2>3. call \in CallRecord /\ call.gen = caller[c].gen /\ call.page = caller[c].page /\ call.tool = caller[c].tool
    BY <1>0, <2>2 DEF CallRecord
  <2>4. Return(c, call) /\ UNCHANGED <<serverVars, clock, lister>>
    BY <1>9 DEF Read
  <2>. HIDE DEF call
  <2>. QED BY <1>8, <2>1, <2>3, <2>4
<1>10. CASE Compare(c)
  <2>1. caller[c].at # "idle" /\ disturbed' \subseteq Callers /\ Return(c, caller[c]) /\ UNCHANGED <<serverVars, clock, lister>>
    BY <1>0, <1>10 DEF Compare
  <2>. QED BY <1>0, <1>8, <2>1
<1>11. CASE Dispatch(c)
  <2>1. Resting.gen = 1 /\ Resting.page = 1 /\ Resting.at = "idle"
    BY DEF Resting
  <2>2. Move(c, Resting) /\ UNCHANGED <<serverVars, clock, lister, generations>> /\ disturbed' \subseteq Callers
    BY <1>0, <1>11 DEF Dispatch
  <2>3. 1 \in 1..Current
    BY <1>0, CurrentIsThere
  <2>. QED BY <1>u, <2>1, <2>2, <2>3, RestingIsCall, CallerMoves
<1>. QED BY <1>1, <1>2, <1>3, <1>4, <1>5, <1>6, <1>7, <1>9, <1>10, <1>11

LEMMA ShapeNext == CatalogShape /\ [CatalogNext]_catalogVars => CatalogShape'
<1>1. CatalogShape /\ UNCHANGED catalogVars => CatalogShape'
  BY DEF CatalogShape, CatalogTypeOK, PlacesInv, Current, catalogVars
<1>2. CatalogShape /\ CatalogNext => CatalogShape'
  BY ServerKeepsShape, ListersKeepShape, CallersKeepShape DEF CatalogNext
<1>. QED BY <1>1, <1>2

--------------------------------------------------------------------------
(* The catalog: walks.                                                     *)

\* Who waits, waits for somebody.
LeadersInv ==
  /\ WaitsForARunningWalk
  /\ \A c \in Callers : caller[c].at = "wait" => caller[c].wait \in Callers

Walking == {"walk", "served", "ended"}

\* A leader walks on; who begins to wait, waits for a leader; and the generations
\* name a call as leader only that walks for them.
LEMMA LeadersMove ==
  ASSUME CatalogShape, LeadersInv, NEW c \in Callers, NEW moved \in CallRecord, Move(c, moved),
         generations' \in Seq(Generation), Len(generations') = Current,
         caller[c].at \in Walking => moved.at \in Walking /\ moved.gen = caller[c].gen,
         moved.at = "wait" => /\ moved.wait \in Callers /\ caller[moved.wait].at \in Walking
                              /\ caller[moved.wait].gen = moved.gen,
         \A h \in 1..Current : generations'[h].walking # Nobody =>
           \/ generations'[h].walking = c /\ moved.at \in {"walk", "served"} /\ moved.gen = h
           \/ generations'[h].walking = generations[h].walking /\ generations[h].walking # c
  PROVE  LeadersInv'
<1>1. \A d \in Callers : caller'[d] = IF d = c THEN moved ELSE caller[d]
  BY DEF Move, CatalogShape, CatalogTypeOK
<1>2. DOMAIN generations' = 1..Current /\ DOMAIN generations = 1..Current
  BY CurrentIsThere DEF CatalogShape
<1>3. ASSUME NEW d \in Callers, caller'[d].at = "wait"
      PROVE  /\ caller'[d].wait \in Callers
             /\ caller'[caller'[d].wait].at \in Walking /\ caller'[caller'[d].wait].gen = caller'[d].gen
  <2>1. CASE d = c
    <3>1. caller'[d] = moved
      BY <1>1, <2>1
    <3>2. moved.wait \in Callers /\ caller[moved.wait].at \in Walking /\ caller[moved.wait].gen = moved.gen
      BY <1>3, <3>1
    <3>3. moved.wait # c
      BY <1>3, <3>1, <3>2 DEF Walking
    <3>. QED BY <1>1, <3>1, <3>2, <3>3
  <2>2. CASE d # c
    <3>1. /\ caller'[d] = caller[d] /\ caller[d].wait \in Callers
          /\ caller[caller[d].wait].at \in Walking /\ caller[caller[d].wait].gen = caller[d].gen
      BY <1>1, <1>3, <2>2 DEF LeadersInv, WaitsForARunningWalk, Walking
    <3>. QED BY <1>1, <3>1
  <2>. QED BY <2>1, <2>2
<1>4. ASSUME NEW h \in 1..Current, generations'[h].walking # Nobody
      PROVE  /\ caller'[generations'[h].walking].at \in {"walk", "served"}
             /\ caller'[generations'[h].walking].gen = h
  <2>1. CASE generations'[h].walking = c /\ moved.at \in {"walk", "served"} /\ moved.gen = h
    BY <1>1, <2>1
  <2>2. CASE generations'[h].walking = generations[h].walking /\ generations[h].walking # c
    <3>1. generations[h].walking \in Callers
      BY <1>4, <2>2, GenerationFields DEF CatalogShape
    <3>2. caller[generations[h].walking].at \in {"walk", "served"} /\ caller[generations[h].walking].gen = h
      BY <1>2, <1>4, <2>2 DEF LeadersInv, WaitsForARunningWalk
    <3>. QED BY <1>1, <2>2, <3>1, <3>2
  <2>. QED BY <1>4, <2>1, <2>2
<1>. QED BY <1>2, <1>3, <1>4 DEF LeadersInv, WaitsForARunningWalk, Walking

\* A call that is looked up, and was not walking.
LEMMA LeadersLookUp ==
  ASSUME CatalogShape, LeadersInv, NEW c \in Callers, NEW moved \in CallRecord, NEW tool \in Names,
         LookedUp(c, tool, moved), caller[c].at \notin Walking
  PROVE  LeadersInv'
<1>1. /\ Move(c, moved) /\ moved.gen = Current /\ Len(generations') = Current /\ generations' \in Seq(Generation)
      /\ DOMAIN generations = 1..Current /\ Current \in 1..Current
  BY CurrentIsThere DEF LookedUp, Grows, CatalogShape
<1>2. \A h \in 1..Current : generations[h].walking # Nobody =>
        /\ generations[h].walking \in Callers /\ generations[h].walking # c
        /\ caller[generations[h].walking].at \in Walking /\ caller[generations[h].walking].gen = h
  BY <1>1, GenerationFields DEF LeadersInv, WaitsForARunningWalk, Walking, CatalogShape
<1>3. moved.at = "wait" => /\ moved.wait \in Callers /\ caller[moved.wait].at \in Walking
                           /\ caller[moved.wait].gen = moved.gen
  BY <1>1, <1>2 DEF LookedUp
<1>4. \A h \in 1..Current : generations'[h].walking # Nobody =>
        \/ generations'[h].walking = c /\ moved.at \in {"walk", "served"} /\ moved.gen = h
        \/ generations'[h].walking = generations[h].walking /\ generations[h].walking # c
  BY <1>1, <1>2 DEF LookedUp
<1>. QED BY <1>1, <1>3, <1>4, LeadersMove

\* The leaders of the generations walk.
LEMMA LeadersWalk ==
  ASSUME CatalogShape, LeadersInv
  PROVE  /\ DOMAIN generations = 1..Current /\ generations \in Seq(Generation)
         /\ \A h \in 1..Current : generations[h].walking # Nobody =>
              /\ generations[h].walking \in Callers
              /\ caller[generations[h].walking].at \in {"walk", "served"}
              /\ caller[generations[h].walking].gen = h
<1>1. DOMAIN generations = 1..Current /\ generations \in Seq(Generation)
  BY CurrentIsThere DEF CatalogShape, CatalogTypeOK
<1>. QED BY <1>1, GenerationFields DEF LeadersInv, WaitsForARunningWalk, CatalogShape

\* A call that was not walking moves on, and does not wait.
LEMMA LeadersRest ==
  ASSUME CatalogShape, LeadersInv, NEW c \in Callers, NEW moved \in CallRecord, Move(c, moved),
         UNCHANGED generations, caller[c].at \notin Walking, moved.at # "wait"
  PROVE  LeadersInv'
<1>1. \A h \in 1..Current : generations'[h].walking # Nobody =>
         generations'[h].walking = generations[h].walking /\ generations[h].walking # c
  BY LeadersWalk DEF Walking
<1>2. generations' \in Seq(Generation) /\ Len(generations') = Current
  BY LeadersWalk DEF Current
<1>. QED BY <1>1, <1>2, LeadersMove

LEMMA LeadersStay ==
  ASSUME CatalogShape, LeadersInv, UNCHANGED caller, generations' \in Seq(Generation), Len(generations') >= Current,
         \A h \in 1..Current : generations'[h].walking = generations[h].walking,
         \A h \in 1..Len(generations') : h > Current => generations'[h].walking = Nobody
  PROVE  LeadersInv'
<1>1. DOMAIN generations' = 1..Len(generations') /\ Current \in Nat /\ Len(generations') \in Nat
  BY CurrentIsThere DEF CatalogShape
<1>2. ASSUME NEW h \in 1..Len(generations'), generations'[h].walking # Nobody
      PROVE  caller'[generations'[h].walking].at \in {"walk", "served"} /\ caller'[generations'[h].walking].gen = h
  <2>1. h \in 1..Current /\ generations'[h].walking = generations[h].walking
    BY <1>1, <1>2
  <2>. QED BY <1>2, <2>1, LeadersWalk
<1>. QED BY <1>1, <1>2 DEF LeadersInv, WaitsForARunningWalk

LEMMA LeadersOfServer ==
  ASSUME CatalogShape, LeadersInv,
         \/ Change \/ Announce \/ Pass
         \/ \E l \in Listers : List(l) \/ ListServed(l) \/ ListAdvertised(l)
  PROVE  LeadersInv'
<1>0. generations \in Seq(Generation) /\ Current \in Nat /\ Current = Len(generations)
  BY CurrentIsThere, LeadersWalk DEF CatalogShape, Current
<1>1. CASE Announce
  <2>1. generations' = Append(generations, NewGeneration) /\ UNCHANGED caller
    BY <1>1 DEF Announce
  <2>2. /\ generations' \in Seq(Generation) /\ Len(generations') = Current + 1
        /\ \A h \in 1..Current : generations'[h] = generations[h]
        /\ generations'[Current + 1] = NewGeneration
    BY <1>0, <2>1, NewGenerationIsOne
  <2>3. \A h \in 1..Len(generations') : h > Current => h = Current + 1
    BY <1>0, <2>2
  <2>4. NewGeneration.walking = Nobody
    BY DEF NewGeneration
  <2>5. \A h \in 1..Len(generations') : h > Current => generations'[h].walking = Nobody
    BY <2>2, <2>3, <2>4
  <2>. QED BY <1>0, <2>1, <2>2, <2>5, LeadersStay
<1>2. ASSUME NEW l \in Listers, ListAdvertised(l)
      PROVE  LeadersInv'
  <2>1. generations' = Learned(lister[l].gen, lister[l].seen) /\ UNCHANGED caller
    BY <1>2 DEF ListAdvertised
  <2>2. lister[l].gen \in 1..Current /\ lister[l].seen \in Shows \cup {<<>>} /\ CatalogTypeOK
    BY DEF CatalogShape, CatalogTypeOK, PlacesInv, ListRecord
  <2>3. /\ generations' \in Seq(Generation) /\ Len(generations') = Current
        /\ \A h \in 1..Current : generations'[h].walking = generations[h].walking
    BY <2>1, <2>2, Learning
  <2>. QED BY <1>0, <2>1, <2>3, LeadersStay
<1>3. CASE UNCHANGED <<generations, caller>>
  BY <1>3 DEF LeadersInv, WaitsForARunningWalk
<1>4. Change \/ Pass => UNCHANGED <<generations, caller>>
  BY DEF Change, Pass
<1>5. \A l \in Listers : List(l) \/ ListServed(l) => UNCHANGED <<generations, caller>>
  BY DEF List, ListServed
<1>. QED BY <1>1, <1>2, <1>3, <1>4, <1>5

LEMMA LeadersOfCalls ==
  ASSUME CatalogShape, LeadersInv, NEW c \in Callers,
         \/ Lookup(c) \/ LookupWithoutSession(c) \/ WalkServed(c) \/ WalkAdvertised(c) \/ WalkFails(c)
         \/ WalkClosed(c) \/ WaitEnds(c) \/ Read(c) \/ Compare(c) \/ Dispatch(c)
  PROVE  LeadersInv'
<1>0. /\ caller[c] \in CallRecord /\ caller[c].gen \in 1..Current
      /\ caller[c].page \in 1..Len(Pages) /\ caller[c].seen \in Shows \cup {<<>>}
      /\ caller[c].again \in BOOLEAN /\ CatalogTypeOK
      /\ caller[c].at # "idle" => caller[c].tool \in Names
  BY CallFields DEF CatalogShape, PlacesInv
<1>w. generations \in Seq(Generation) /\ Len(generations) = Current
  BY LeadersWalk DEF Current
<1>1. CASE Lookup(c)
  <2>. PICK n \in Names : LookupIn(c, [Resting EXCEPT !.tool = n])
    BY <1>1 DEF Lookup
  <2>. DEFINE asked == [Resting EXCEPT !.tool = n]
  <2>1. asked \in CallRecord /\ asked.tool = n /\ asked.page = 1
    BY AskingFirst
  <2>2. LookupIn(c, asked) /\ caller[c].at \notin Walking
    BY <1>1 DEF Lookup, Walking
  <2>. HIDE DEF asked
  <2>. PICK moved \in CallRecord : LookedUp(c, n, moved)
    BY <2>1, <2>2, LookingUp
  <2>. QED BY <2>2, LeadersLookUp
<1>2. CASE LookupWithoutSession(c)
  <2>. PICK n \in Names :
         Move(c, [Resting EXCEPT !.at = "known", !.tool = n, !.gen = Current, !.info = generations[Current].tools[n].info])
    BY <1>2 DEF LookupWithoutSession
  <2>. DEFINE call == [Resting EXCEPT !.at = "known", !.tool = n, !.gen = Current, !.info = generations[Current].tools[n].info]
  <2>1. generations[Current].tools[n].info \in Registrations /\ Current \in 1..Current /\ Current \in Nat
    BY <1>0, CurrentIsThere, GenerationFields
  <2>2. call \in CallRecord /\ call.at = "known"
    BY <2>1, RestingIsCall DEF CallRecord, Steps
  <2>3. Move(c, call)
    OBVIOUS
  <2>. HIDE DEF call
  <2>4. UNCHANGED generations /\ caller[c].at \notin Walking
    BY <1>2 DEF LookupWithoutSession, Walking
  <2>. QED BY <2>2, <2>3, <2>4, LeadersRest
<1>3. CASE WalkServed(c)
  <2>. DEFINE call == [caller[c] EXCEPT !.at = "served", !.seen = Shown(caller[c].page)]
  <2>1. call \in CallRecord /\ call.gen = caller[c].gen /\ call.at = "served"
    BY <1>0, ShownIsShow DEF CallRecord, Steps
  <2>2. Move(c, call) /\ UNCHANGED generations
    BY <1>3 DEF WalkServed
  <2>. HIDE DEF call
  <2>3. \A h \in 1..Current : generations'[h].walking # Nobody =>
          \/ generations'[h].walking = c /\ call.at \in {"walk", "served"} /\ call.gen = h
          \/ generations'[h].walking = generations[h].walking /\ generations[h].walking # c
    BY <2>1, <2>2, LeadersWalk
  <2>. QED BY <1>w, <2>1, <2>2, <2>3, LeadersMove DEF Walking
<1>4. CASE WalkAdvertised(c)
  <2>. DEFINE g == caller[c].gen
              capped == caller[c].page = MaxPages /\ caller[c].page < Len(Pages)
              last == caller[c].page = Len(Pages) \/ capped
              ended == [caller[c] EXCEPT !.at = "ended", !.seen = <<>>, !.again = @ \/ capped]
              on == [caller[c] EXCEPT !.at = "walk", !.page = @ + 1, !.seen = <<>>]
  <2>0. caller[c].at = "served"
    BY <1>4 DEF WalkAdvertised
  <2>1. CASE last
    <3>1. generations' = Done(caller[c].gen, caller[c].seen) /\ Move(c, ended)
      BY <1>4, <2>1 DEF WalkAdvertised, Done
    <3>2. ended \in CallRecord /\ ended.gen = caller[c].gen /\ ended.at = "ended"
      BY <1>0 DEF CallRecord, Steps
    <3>. HIDE DEF ended
    <3>3. /\ generations' \in Seq(Generation) /\ Len(generations') = Current
          /\ \A h \in 1..Current : generations'[h].walking = IF h = g THEN Nobody ELSE generations[h].walking
      BY <1>0, <3>1, WalkIsDone DEF Grows
    <3>4. \A h \in 1..Current : generations'[h].walking # Nobody =>
            generations'[h].walking = generations[h].walking /\ generations[h].walking # c
      BY <3>3, LeadersWalk
    <3>. QED BY <3>1, <3>2, <3>3, <3>4, LeadersMove DEF Walking
  <2>2. CASE ~last
    <3>1. generations' = Learned(caller[c].gen, caller[c].seen) /\ Move(c, on)
      BY <1>4, <2>2 DEF WalkAdvertised
    <3>2. caller[c].page + 1 \in 1..Len(Pages)
      BY <1>0, <2>2
    <3>3. on \in CallRecord /\ on.gen = caller[c].gen /\ on.at = "walk"
      BY <1>0, <3>2 DEF CallRecord, Steps
    <3>. HIDE DEF on
    <3>4. /\ generations' \in Seq(Generation) /\ Len(generations') = Current
          /\ \A h \in 1..Current : generations'[h].walking = generations[h].walking
      BY <1>0, <3>1, Learning
    <3>5. \A h \in 1..Current : generations'[h].walking # Nobody =>
            \/ generations'[h].walking = c /\ on.at \in {"walk", "served"} /\ on.gen = h
            \/ generations'[h].walking = generations[h].walking /\ generations[h].walking # c
      BY <3>3, <3>4, LeadersWalk
    <3>. QED BY <3>1, <3>3, <3>4, <3>5, LeadersMove DEF Walking
  <2>. QED BY <2>1, <2>2
<1>5. CASE WalkFails(c)
  <2>. PICK failed \in BOOLEAN : Move(c, [caller[c] EXCEPT !.at = "ended", !.again = @ \/ failed])
    BY <1>5 DEF WalkFails
  <2>. DEFINE call == [caller[c] EXCEPT !.at = "ended", !.again = @ \/ failed]
  <2>1. call \in CallRecord /\ call.gen = caller[c].gen /\ call.at = "ended"
    BY <1>0 DEF CallRecord, Steps
  <2>2. Move(c, call)
    OBVIOUS
  <2>. HIDE DEF call
  <2>3. generations' = Led(caller[c].gen, Nobody)
    BY <1>5 DEF WalkFails, Led
  <2>4. /\ generations' \in Seq(Generation) /\ Len(generations') = Current
        /\ \A h \in 1..Current : generations'[h].walking = IF h = caller[c].gen THEN Nobody ELSE generations[h].walking
    BY <1>0, <2>3, Leads DEF Grows
  <2>5. \A h \in 1..Current : generations'[h].walking # Nobody =>
          generations'[h].walking = generations[h].walking /\ generations[h].walking # c
    BY <2>4, LeadersWalk
  <2>. QED BY <2>1, <2>2, <2>4, <2>5, LeadersMove DEF Walking
<1>6. CASE WalkClosed(c)
  <2>1. \A d \in Callers :
          /\ d \in Sharing(c) => caller'[d].at = "read"
          /\ d \notin Sharing(c) => caller'[d] = caller[d]
    <3>. TAKE d \in Callers
    <3>1. caller[d] \in CallRecord
      BY CallFields DEF CatalogShape
    <3>2. caller'[d] = IF d = c THEN [caller[d] EXCEPT !.at = "read", !.page = 1]
                       ELSE IF d \in Sharing(c) THEN [caller[d] EXCEPT !.at = "read", !.wait = Nobody] ELSE caller[d]
      BY <1>6 DEF WalkClosed
    <3>3. c \in Sharing(c)
      BY DEF Sharing
    <3>. QED BY <3>1, <3>2, <3>3 DEF CallRecord
  <2>2. caller[c].at = "ended" /\ UNCHANGED generations
    BY <1>6 DEF WalkClosed
  <2>3. \A d \in Callers : d \in Sharing(c) <=> d = c \/ (caller[d].at = "wait" /\ caller[d].wait = c)
    BY DEF Sharing
  <2>4. ASSUME NEW d \in Callers, caller'[d].at = "wait"
        PROVE  /\ caller'[d].wait \in Callers /\ caller'[caller'[d].wait].at \in Walking
               /\ caller'[caller'[d].wait].gen = caller'[d].gen
    <3>1. caller'[d] = caller[d] /\ caller[d].wait # c
      BY <2>1, <2>3, <2>4
    <3>2. caller[d].wait \in Callers /\ caller[caller[d].wait].at \in Walking /\ caller[caller[d].wait].gen = caller[d].gen
      BY <2>4, <3>1 DEF LeadersInv, WaitsForARunningWalk, Walking
    <3>3. caller'[caller[d].wait] = caller[caller[d].wait]
      BY <2>1, <2>3, <3>1, <3>2 DEF Walking
    <3>. QED BY <3>1, <3>2, <3>3
  <2>5. ASSUME NEW h \in DOMAIN generations', generations'[h].walking # Nobody
        PROVE  caller'[generations'[h].walking].at \in {"walk", "served"} /\ caller'[generations'[h].walking].gen = h
    <3>1. /\ generations[h].walking \in Callers /\ caller[generations[h].walking].at \in {"walk", "served"}
          /\ caller[generations[h].walking].gen = h
      BY <2>2, <2>5, LeadersWalk
    <3>2. caller'[generations[h].walking] = caller[generations[h].walking]
      BY <2>1, <2>2, <2>3, <3>1
    <3>. QED BY <2>2, <3>1, <3>2
  <2>. QED BY <2>4, <2>5 DEF LeadersInv, WaitsForARunningWalk, Walking
<1>7. CASE WaitEnds(c)
  <2>. DEFINE call == [caller[c] EXCEPT !.at = "read", !.wait = Nobody]
  <2>1. call \in CallRecord /\ call.at = "read"
    BY <1>0 DEF CallRecord, Steps
  <2>2. Move(c, call) /\ caller[c].at \notin Walking /\ UNCHANGED generations
    BY <1>7 DEF WaitEnds, Walking
  <2>. HIDE DEF call
  <2>. QED BY <2>1, <2>2, LeadersRest
<1>8. ASSUME NEW call \in CallRecord, call.tool \in Names, caller[c].at \notin Walking, Return(c, call)
      PROVE  LeadersInv'
  <2>. PICK moved \in CallRecord : LookupReturned(c, call, moved)
    BY <1>8, Returning
  <2>1. CASE moved = [call EXCEPT !.at = "prepared"] /\ Move(c, moved) /\ UNCHANGED generations
    <3>1. moved.at = "prepared"
      BY <2>1 DEF CallRecord
    <3>. QED BY <1>8, <2>1, <3>1, LeadersRest
  <2>2. CASE LookedUp(c, call.tool, moved)
    BY <1>8, <2>2, LeadersLookUp
  <2>. QED BY <2>1, <2>2 DEF LookupReturned
<1>9. CASE Read(c)
  <2>. DEFINE call == [caller[c] EXCEPT !.info = generations[caller[c].gen].tools[caller[c].tool].info]
  <2>1. caller[c].tool \in Names /\ caller[c].at \notin Walking
    BY <1>0, <1>9 DEF Read, Walking
  <2>2. generations[caller[c].gen].tools[caller[c].tool].info \in Registrations
    BY <1>0, <2>1, GenerationFields
  <2>3. call \in CallRecord /\ call.tool = caller[c].tool
    BY <1>0, <2>2 DEF CallRecord
  <2>4. Return(c, call)
    BY <1>9 DEF Read
  <2>. HIDE DEF call
  <2>. QED BY <1>8, <2>1, <2>3, <2>4
<1>10. CASE Compare(c)
  <2>1. caller[c].tool \in Names /\ caller[c].at \notin Walking /\ Return(c, caller[c])
    BY <1>0, <1>10 DEF Compare, Walking
  <2>. QED BY <1>0, <1>8, <2>1
<1>11. CASE Dispatch(c)
  <2>1. Resting.at = "idle"
    BY DEF Resting
  <2>2. Move(c, Resting) /\ UNCHANGED generations /\ caller[c].at \notin Walking
    BY <1>11 DEF Dispatch, Walking
  <2>. QED BY <2>1, <2>2, RestingIsCall, LeadersRest
<1>. QED BY <1>1, <1>2, <1>3, <1>4, <1>5, <1>6, <1>7, <1>9, <1>10, <1>11

LEMMA LeadersInit == CatalogInit => LeadersInv
<1>. SUFFICES ASSUME CatalogInit PROVE LeadersInv
  OBVIOUS
<1>1. \A c \in Callers : caller[c].at = "idle"
  BY DEF CatalogInit, Resting
<1>2. generations = <<NewGeneration>> /\ NewGeneration.walking = Nobody
  BY DEF CatalogInit, NewGeneration
<1>3. \A g \in DOMAIN generations : generations[g].walking = Nobody
  BY <1>2
<1>. QED BY <1>1, <1>3 DEF LeadersInv, WaitsForARunningWalk

LEMMA LeadersNext == CatalogShape /\ LeadersInv /\ [CatalogNext]_catalogVars => LeadersInv'
<1>1. LeadersInv /\ UNCHANGED catalogVars => LeadersInv'
  BY DEF LeadersInv, WaitsForARunningWalk, catalogVars
<1>2. CatalogShape /\ LeadersInv /\ CatalogNext => LeadersInv'
  BY LeadersOfServer, LeadersOfCalls DEF CatalogNext
<1>. QED BY <1>1, <1>2

\* Nobody waits for a walk that does not run, and no generation is kept from being
\* walked by one that is over: whoever fails, gives up or is outrun by a change.
THEOREM NobodyWaitsInVain == CatalogSpec => []WaitsForARunningWalk
<1>1. CatalogInit => CatalogShape /\ LeadersInv
  BY ShapeInit, LeadersInit
<1>2. CatalogShape /\ LeadersInv /\ [CatalogNext]_catalogVars => CatalogShape' /\ LeadersInv'
  BY ShapeNext, LeadersNext
<1>3. LeadersInv => WaitsForARunningWalk
  BY DEF LeadersInv
<1>. QED BY <1>1, <1>2, <1>3, PTL DEF CatalogSpec

--------------------------------------------------------------------------
(* The catalog: knowledge.                                                 *)

\* n changed at t or later, and clients were not told.
ChangedSince(n, t) == ~announced[n] /\ changedAt[n] >= t

Listed(n) == \E p \in 1..MaxPages : p \in DOMAIN Pages /\ n \in Pages[p]

\* The current generation knows of a tool what is so, or was when it was learned.
EntriesAreTrue ==
  \A n \in Names : EntryOf(n) # Unlearned =>
    /\ EntryOf(n).at <= clock
    /\ EntryOf(n).info = registry[n] \/ ChangedSince(n, EntryOf(n).at)

\* A complete walk of it has left out no tool.
WalksAreComplete ==
  LET walkedAt == generations[Current].walkedAt
  IN  walkedAt # Never =>
        /\ walkedAt <= clock
        /\ \A n \in Names : Listed(n) /\ registry[n] # "absent" =>
             EntryOf(n).info = registry[n] \/ ChangedSince(n, walkedAt)

\* What a page showed is so, or changed just now.
SeenIsTrue(seen) ==
  \A n \in DOMAIN seen \cap Names : seen[n] = registry[n] \/ ChangedSince(n, clock)

ListingIsTrue(l) == lister[l].at = "served" /\ lister[l].gen = Current => SeenIsTrue(lister[l].seen)

\* A walk has left out no tool of the pages before the one it is at, and that one
\* showed what is there.
WalkIsTrue(c) ==
  /\ caller[c].at \in {"walk", "served"} /\ caller[c].gen = Current =>
       \A p \in 1..(caller[c].page - 1) : \A n \in Pages[p] : registry[n] # "absent" =>
         EntryOf(n).info = registry[n] \/ ChangedSince(n, clock)
  /\ caller[c].at = "served" /\ caller[c].gen = Current =>
       /\ SeenIsTrue(caller[c].seen)
       /\ \A n \in Pages[caller[c].page] : n \notin DOMAIN caller[c].seen /\ registry[n] # "absent" =>
            ChangedSince(n, clock)

\* info is what a call of tool n should be treated by.
Right(n, info) == Listed(n) /\ registry[n] # "absent" => info = registry[n]

\* A call whose walk is over, be it its own or the one it waits for.
Informed(c) ==
  \/ caller[c].at \in {"ended", "read"}
  \/ caller[c].at = "wait" /\ caller[caller[c].wait].at = "ended"

\* The tool of an undisturbed call has not changed for the TTL, or clients were told;
\* and the call knows it, or what it will read of the current generation is right.
CallKnows(c) ==
  c \notin disturbed =>
    /\ caller[c].at # "idle" => Settled(caller[c].tool)
    /\ caller[c].at \in {"known", "prepared"} => Right(caller[c].tool, caller[c].info)
    /\ Informed(c) /\ caller[c].gen = Current => Right(caller[c].tool, EntryOf(caller[c].tool).info)

KnowledgeInv ==
  /\ EntriesAreTrue /\ WalksAreComplete
  /\ \A l \in Listers : ListingIsTrue(l)
  /\ \A c \in Callers : WalkIsTrue(c) /\ CallKnows(c)
\* What of the catalog is a number.
LEMMA Times ==
  ASSUME CatalogTypeOK
  PROVE  /\ clock \in Nat /\ clock < Never /\ Never \in Nat
         /\ generations[Current].walkedAt \in Nat
         /\ \A n \in Names : /\ changedAt[n] \in Nat /\ announced[n] \in BOOLEAN /\ registry[n] \in Registrations
                             /\ EntryOf(n).at \in Nat /\ EntryOf(n).info \in Registrations
<1>1. clock \in Nat /\ clock < Never /\ Never \in Nat
  BY DEF CatalogTypeOK, Never
<1>2. Current \in 1..Current
  BY CurrentIsThere
<1>3. \A n \in Names : EntryOf(n) \in [info : Registrations, at : Nat]
  BY <1>2, GenerationFields DEF EntryOf
<1>. QED BY <1>1, <1>2, <1>3, GenerationFields DEF CatalogTypeOK

\* What is settled has not changed since a time within the TTL.
LEMMA SettledIsSteady ==
  ASSUME CatalogTypeOK, NEW n \in Names, Settled(n), NEW t \in Nat, clock < t + TTL
  PROVE  ~ChangedSince(n, t)
BY Times DEF Settled, ChangedSince

\* What a generation knows that still holds, is right for a settled tool.
LEMMA KnownIsRight ==
  ASSUME CatalogTypeOK, EntriesAreTrue, WalksAreComplete, NEW n \in Names, Settled(n),
         \/ EntryOf(n) # Unlearned /\ Fresh(EntryOf(n).at)
         \/ Fresh(generations[Current].walkedAt)
  PROVE  Right(n, EntryOf(n).info)
<1>1. CASE EntryOf(n) # Unlearned /\ Fresh(EntryOf(n).at)
  <2>1. ~ChangedSince(n, EntryOf(n).at)
    BY <1>1, Times, SettledIsSteady DEF Fresh
  <2>. QED BY <1>1, <2>1 DEF EntriesAreTrue, Right
<1>2. CASE Fresh(generations[Current].walkedAt)
  <2>1. ~ChangedSince(n, generations[Current].walkedAt)
    BY <1>2, Times, SettledIsSteady DEF Fresh
  <2>. QED BY <1>2, <2>1 DEF WalksAreComplete, Right, Fresh
<1>. QED BY <1>1, <1>2

\* A step by which the current generation can only have learned what is so.
KnowsMore ==
  /\ UNCHANGED <<serverVars, clock>> /\ Current' = Current
  /\ \A n \in Names :
       \/ EntryOf(n)' = EntryOf(n)
       \/ /\ (EntryOf(n)').at = clock
          /\ (EntryOf(n)').info = registry[n] \/ ChangedSince(n, clock)

LEMMA KnowsStill ==
  ASSUME CatalogTypeOK, NEW n \in Names, KnowsMore, NEW t \in Nat, t <= clock,
         EntryOf(n).info = registry[n] \/ ChangedSince(n, t)
  PROVE  (EntryOf(n)').info = registry[n] \/ ChangedSince(n, t)
<1>1. ChangedSince(n, clock) => ChangedSince(n, t)
  BY Times DEF ChangedSince
<1>. QED BY <1>1 DEF KnowsMore

LEMMA RightStill ==
  ASSUME CatalogTypeOK, NEW n \in Names, KnowsMore, Settled(n), Right(n, EntryOf(n).info)
  PROVE  Right(n, EntryOf(n).info)'
<1>1. UNCHANGED registry /\ clock < clock + TTL
  BY Times DEF KnowsMore, serverVars
<1>2. ~ChangedSince(n, clock)
  BY <1>1, Times, SettledIsSteady
<1>. QED BY <1>1, <1>2 DEF KnowsMore, Right, Listed

LEMMA GenerationStaysTrue ==
  ASSUME CatalogTypeOK, EntriesAreTrue, WalksAreComplete, KnowsMore,
         (generations[Current].walkedAt)' = generations[Current].walkedAt
  PROVE  EntriesAreTrue' /\ WalksAreComplete'
<1>1. UNCHANGED <<registry, clock>> /\ Never' = Never
  BY DEF KnowsMore, serverVars, Never
<1>2. ASSUME NEW n \in Names, EntryOf(n)' # Unlearned
      PROVE  /\ (EntryOf(n)').at <= clock
             /\ (EntryOf(n)').info = registry[n] \/ ChangedSince(n, EntryOf(n).at)'
  <2>1. CASE EntryOf(n)' = EntryOf(n)
    BY <1>1, <1>2, <2>1 DEF EntriesAreTrue, KnowsMore, ChangedSince, serverVars
  <2>2. CASE (EntryOf(n)').at = clock /\ ((EntryOf(n)').info = registry[n] \/ ChangedSince(n, clock))
    BY <1>1, <2>2, Times DEF KnowsMore, ChangedSince, serverVars
  <2>. QED BY <2>1, <2>2 DEF KnowsMore
<1>3. EntriesAreTrue'
  BY <1>1, <1>2 DEF EntriesAreTrue, Unlearned
<1>4. WalksAreComplete'
  <2>. DEFINE walkedAt == generations[Current].walkedAt
  <2>1. SUFFICES ASSUME walkedAt # Never
                 PROVE  /\ walkedAt <= clock
                        /\ \A n \in Names : Listed(n) /\ registry[n] # "absent" =>
                             (EntryOf(n)').info = registry[n] \/ ChangedSince(n, walkedAt)
    BY <1>1 DEF WalksAreComplete, Listed, KnowsMore, serverVars, ChangedSince
  <2>2. walkedAt <= clock /\ walkedAt \in Nat
    BY <2>1, Times DEF WalksAreComplete
  <2>3. ASSUME NEW n \in Names, Listed(n), registry[n] # "absent"
        PROVE  (EntryOf(n)').info = registry[n] \/ ChangedSince(n, walkedAt)
    <3>1. EntryOf(n).info = registry[n] \/ ChangedSince(n, walkedAt)
      BY <2>1, <2>3 DEF WalksAreComplete
    <3>. HIDE DEF walkedAt
    <3>. QED BY <2>2, <3>1, KnowsStill
  <2>. QED BY <2>2, <2>3
<1>. QED BY <1>3, <1>4

\* A call that does not move keeps what it knows, and its walk.
LEMMA CallStaysInformed ==
  ASSUME CatalogShape, KnowsMore, NEW d \in Callers, caller'[d] = caller[d], d \in disturbed => d \in disturbed',
         WalkIsTrue(d), CallKnows(d),
         Informed(d)' => Informed(d) \/ d \in disturbed'
  PROVE  WalkIsTrue(d)' /\ CallKnows(d)'
<1>0. /\ CatalogTypeOK /\ UNCHANGED <<registry, clock, changedAt, announced>> /\ Current' = Current
      /\ caller[d].at # "idle" => caller[d].tool \in Names
      /\ caller[d].page \in Nat
  BY CallFields DEF KnowsMore, serverVars, CatalogShape, PlacesInv
<1>1. WalkIsTrue(d)'
  <2>1. ASSUME caller[d].at \in {"walk", "served"}, caller[d].gen = Current, NEW p \in 1..(caller[d].page - 1),
               NEW n \in Pages[p], registry[n] # "absent"
        PROVE  (EntryOf(n)').info = registry[n] \/ ChangedSince(n, clock)
    <3>1. caller[d].page <= Len(Pages)
      BY <1>0, CallFields
    <3>2. p \in DOMAIN Pages
      BY <1>0, <3>1
    <3>3. n \in Names
      BY <3>2 DEF Names
    <3>4. EntryOf(n).info = registry[n] \/ ChangedSince(n, clock)
      BY <2>1 DEF WalkIsTrue
    <3>. QED BY <1>0, <3>3, <3>4, Times DEF KnowsMore
  <2>. QED BY <1>0, <2>1 DEF WalkIsTrue, SeenIsTrue, ChangedSince
<1>2. CallKnows(d)'
  <2>1. SUFFICES ASSUME d \notin disturbed'
                 PROVE  /\ caller[d].at # "idle" => Settled(caller[d].tool)
                        /\ caller[d].at \in {"known", "prepared"} => Right(caller[d].tool, caller[d].info)
                        /\ Informed(d)' /\ caller[d].gen = Current => Right(caller[d].tool, EntryOf(caller[d].tool).info)'
    BY <1>0 DEF CallKnows, Settled, Right, Listed
  <2>2. d \notin disturbed
    BY <2>1
  <2>3. ASSUME Informed(d)', caller[d].gen = Current
        PROVE  Right(caller[d].tool, EntryOf(caller[d].tool).info)'
    <3>1. Informed(d) /\ caller[d].at # "idle"
      BY <2>1, <2>3 DEF Informed
    <3>2. caller[d].tool \in Names /\ Settled(caller[d].tool) /\ Right(caller[d].tool, EntryOf(caller[d].tool).info)
      BY <1>0, <2>2, <2>3, <3>1 DEF CallKnows
    <3>. DEFINE n == caller[d].tool
    <3>3. Right(n, EntryOf(n).info)' <=> (Listed(n) /\ registry[n] # "absent" => (EntryOf(n)').info = registry[n])
      BY <1>0 DEF Right, Listed
    <3>. QED BY <1>0, <3>2, RightStill
  <2>. QED BY <2>2, <2>3 DEF CallKnows
<1>. QED BY <1>1, <1>2

\* Listings keep what they know.
LEMMA ListingsStay ==
  ASSUME KnowledgeInv, KnowsMore, UNCHANGED lister
  PROVE  \A l \in Listers : ListingIsTrue(l)'
BY DEF KnowledgeInv, KnowsMore, serverVars, ListingIsTrue, SeenIsTrue, ChangedSince

\* One call moves; who waits for it may learn that its walk is over.
LEMMA KnowledgeMoves ==
  ASSUME CatalogShape, KnowledgeInv, KnowsMore, UNCHANGED lister, EntriesAreTrue', WalksAreComplete',
         NEW c \in Callers, NEW moved \in CallRecord, Move(c, moved), disturbed \ {c} \subseteq disturbed',
         WalkIsTrue(c)', CallKnows(c)',
         \A d \in Callers : d # c /\ caller[d].at = "wait" /\ caller[d].wait = c /\ moved.at = "ended"
                           => CallKnows(d)'
  PROVE  KnowledgeInv'
<1>1. \A d \in Callers : caller'[d] = IF d = c THEN moved ELSE caller[d]
  BY DEF Move, CatalogShape, CatalogTypeOK
<1>2. ASSUME NEW d \in Callers, d # c
      PROVE  WalkIsTrue(d)' /\ CallKnows(d)'
  <2>1. caller'[d] = caller[d] /\ (d \in disturbed => d \in disturbed') /\ WalkIsTrue(d) /\ CallKnows(d)
    BY <1>1, <1>2 DEF KnowledgeInv
  <2>2. CASE caller[d].at = "wait" /\ caller[d].wait = c /\ moved.at = "ended"
    <3>1. CallKnows(d)'
      BY <1>2, <2>2
    <3>2. WalkIsTrue(d)'
      BY <2>1, <2>2 DEF WalkIsTrue
    <3>. QED BY <3>1, <3>2
  <2>3. CASE ~(caller[d].at = "wait" /\ caller[d].wait = c /\ moved.at = "ended")
    <3>1. caller[d].wait \in Callers \cup {Nobody} /\ Nobody \notin Callers
      BY CallFields DEF CatalogShape
    <3>2. CASE caller[d].at = "wait" /\ caller[d].wait = Nobody
      <4>1. caller'[Nobody] = caller[Nobody]
        BY <3>1 DEF Move, CatalogShape, CatalogTypeOK
      <4>2. Informed(d)' => Informed(d)
        BY <2>1, <3>2, <4>1 DEF Informed
      <4>. QED BY <2>1, <4>2, CallStaysInformed
    <3>3. CASE ~(caller[d].at = "wait" /\ caller[d].wait = Nobody)
      <4>1. Informed(d)' => Informed(d)
        BY <1>1, <2>1, <2>3, <3>1, <3>3 DEF Informed
      <4>. QED BY <2>1, <4>1, CallStaysInformed
    <3>. QED BY <3>2, <3>3
  <2>. QED BY <2>2, <2>3
<1>3. \A d \in Callers : WalkIsTrue(d)' /\ CallKnows(d)'
  BY <1>2
<1>. QED BY <1>3, ListingsStay DEF KnowledgeInv

\* A step that teaches the current generation nothing.
LEMMA NothingLearned ==
  ASSUME CatalogShape, KnowledgeInv, UNCHANGED <<serverVars, clock>>, Len(generations') = Current,
         \A h \in 1..Current : generations'[h].tools = generations[h].tools
                               /\ generations'[h].walkedAt = generations[h].walkedAt
  PROVE  /\ KnowsMore /\ EntriesAreTrue' /\ WalksAreComplete' /\ Current' = Current
         /\ \A n \in Names : EntryOf(n)' = EntryOf(n)
<1>0. CatalogTypeOK /\ Current \in 1..Current
  BY CurrentIsThere DEF CatalogShape
<1>1. Current' = Current
  BY DEF Current
<1>2. \A n \in Names : EntryOf(n)' = EntryOf(n)
  BY <1>0, <1>1 DEF EntryOf
<1>3. KnowsMore
  BY <1>1, <1>2 DEF KnowsMore
<1>4. (generations[Current].walkedAt)' = generations[Current].walkedAt
  BY <1>0, <1>1
<1>. QED BY <1>0, <1>1, <1>2, <1>3, <1>4, GenerationStaysTrue DEF KnowledgeInv

LEMMA KnowledgeLookUp ==
  ASSUME CatalogShape, LeadersInv, KnowledgeInv, NEW c \in Callers, NEW moved \in CallRecord, NEW tool \in Names,
         LookedUp(c, tool, moved), UNCHANGED <<serverVars, clock, lister>>,
         disturbed \subseteq disturbed', c \notin disturbed' => Settled(tool)
  PROVE  KnowledgeInv'
<1>1. /\ Move(c, moved) /\ moved.gen = Current /\ moved.page = 1 /\ moved.tool = tool
      /\ Len(generations') = Current
      /\ \A h \in 1..Current : generations'[h].tools = generations[h].tools
                              /\ generations'[h].walkedAt = generations[h].walkedAt
      /\ moved.at \in {"known", "walk", "wait"}
  BY DEF LookedUp
<1>2. /\ KnowsMore /\ EntriesAreTrue' /\ WalksAreComplete' /\ Current' = Current
      /\ \A n \in Names : EntryOf(n)' = EntryOf(n)
  BY <1>1, NothingLearned
<1>3. \A d \in Callers : caller'[d] = IF d = c THEN moved ELSE caller[d]
  BY <1>1 DEF Move, CatalogShape, CatalogTypeOK
<1>4. WalkIsTrue(c)'
  BY <1>1, <1>3 DEF WalkIsTrue
<1>5. CallKnows(c)'
  <2>1. ~Informed(c)'
    <3>1. ASSUME moved.at = "wait"
          PROVE  caller'[moved.wait].at # "ended"
      <4>1. moved.wait = generations[Current].walking /\ moved.wait # Nobody
        BY <3>1 DEF LookedUp
      <4>2. moved.wait \in Callers /\ caller[moved.wait].at \in {"walk", "served"}
        BY <4>1, LeadersWalk, CurrentIsThere DEF CatalogShape
      <4>. QED BY <1>3, <3>1, <4>2
    <3>. QED BY <1>1, <1>3, <3>1 DEF Informed
  <2>2. ASSUME c \notin disturbed', moved.at = "known"
        PROVE  Right(tool, moved.info)
    <3>1. /\ moved.info = EntryOf(tool).info
          /\ \/ EntryOf(tool) # Unlearned /\ Fresh(EntryOf(tool).at)
             \/ Fresh(generations[Current].walkedAt)
      BY <2>2 DEF LookedUp
    <3>. QED BY <2>2, <3>1, KnownIsRight DEF CatalogShape, KnowledgeInv
  <2>3. Right(tool, moved.info)' = Right(tool, moved.info) /\ Settled(tool)' = Settled(tool)
    BY <1>3 DEF Right, Listed, Settled, serverVars
  <2>4. caller'[c] = moved
    BY <1>3
  <2>. QED BY <1>1, <2>1, <2>2, <2>3, <2>4 DEF CallKnows, Right, Listed, Settled, serverVars
<1>. QED BY <1>1, <1>2, <1>4, <1>5, KnowledgeMoves

\* A page that showed what is so teaches what is so.
LEMMA SeenIsLearned ==
  ASSUME CatalogShape, NEW g \in 1..Current, NEW seen \in Shows \cup {<<>>}, g = Current => SeenIsTrue(seen),
         UNCHANGED <<serverVars, clock>>, Len(generations') = Current,
         generations'[Current].tools = Learned(g, seen)[Current].tools
  PROVE  /\ KnowsMore
         /\ g = Current => \A n \in DOMAIN seen \cap Names : (EntryOf(n)').info = seen[n]
         /\ \A n \in Names : n \notin DOMAIN seen => EntryOf(n)' = EntryOf(n)
<1>0. CatalogTypeOK
  BY DEF CatalogShape
<1>1. Current' = Current
  BY DEF Current
<1>2. \A n \in Names : EntryOf(n)' = IF g = Current /\ n \in DOMAIN seen THEN [info |-> seen[n], at |-> clock]
                                     ELSE EntryOf(n)
  BY <1>0, <1>1, Learning DEF EntryOf
<1>. QED BY <1>1, <1>2 DEF KnowsMore, SeenIsTrue

LEMMA KnowledgeInit == CatalogInit => KnowledgeInv
<1>. SUFFICES ASSUME CatalogInit PROVE KnowledgeInv
  OBVIOUS
<1>1. Current = 1 /\ generations[Current] = NewGeneration
  BY DEF CatalogInit, Current
<1>2. \A n \in Names : EntryOf(n) = Unlearned
  BY <1>1 DEF EntryOf, NewGeneration
<1>3. generations[Current].walkedAt = Never
  BY <1>1 DEF NewGeneration
<1>4. \A c \in Callers : caller[c].at = "idle"
  BY DEF CatalogInit, Resting
<1>5. \A l \in Listers : lister[l].at = "idle"
  BY DEF CatalogInit
<1>6. \A c \in Callers : WalkIsTrue(c) /\ CallKnows(c)
  BY <1>4 DEF WalkIsTrue, CallKnows, Informed
<1>. QED BY <1>2, <1>3, <1>5, <1>6 DEF KnowledgeInv, EntriesAreTrue, WalksAreComplete, ListingIsTrue

\* A tool changes: what is known of it is out of date from now on, and its calls are disturbed.
LEMMA KnowledgeOfChange ==
  ASSUME CatalogShape, KnowledgeInv, Change
  PROVE  KnowledgeInv'
<1>0. CatalogTypeOK
  BY DEF CatalogShape
<1>. PICK n \in Names, r \in Registrations :
       /\ registry' = [registry EXCEPT ![n] = r] /\ changedAt' = [changedAt EXCEPT ![n] = clock]
       /\ announced' = [announced EXCEPT ![n] = FALSE]
       /\ disturbed' = disturbed \cup {c \in Callers : caller[c].at # "idle" /\ caller[c].tool = n}
  BY DEF Change
<1>1. UNCHANGED <<clock, generations, caller, lister>> /\ Current' = Current /\ Never' = Never
  BY DEF Change, Current, Never
<1>3. \A m \in Names : m # n => /\ registry'[m] = registry[m] /\ changedAt'[m] = changedAt[m]
                              /\ announced'[m] = announced[m]
  BY <1>0 DEF CatalogTypeOK
<1>4. \A m \in Names : m # n => Settled(m)' = Settled(m)
  BY <1>1, <1>3 DEF Settled
<1>6. \A m \in Names : EntryOf(m)' = EntryOf(m)
  BY <1>1 DEF EntryOf
<1>7. EntriesAreTrue'
  <2>1. ASSUME NEW m \in Names, EntryOf(m) # Unlearned
        PROVE  EntryOf(m).at <= clock /\ (EntryOf(m).info = registry'[m] \/ ChangedSince(m, EntryOf(m).at)')
    <3>1. /\ EntryOf(m).at <= clock /\ EntryOf(m).at \in Nat
          /\ EntryOf(m).info = registry[m] \/ ChangedSince(m, EntryOf(m).at)
      BY <1>0, <2>1, Times DEF KnowledgeInv, EntriesAreTrue
    <3>2. ChangedSince(m, EntryOf(m).at)' <=> ~announced'[m] /\ changedAt'[m] >= EntryOf(m).at
      BY <1>6 DEF ChangedSince
    <3>3. CASE m = n
      BY <1>0, <3>1, <3>2, <3>3, Times DEF CatalogTypeOK
    <3>4. CASE m # n
      BY <1>3, <3>1, <3>2, <3>4 DEF ChangedSince
    <3>. QED BY <3>1, <3>3, <3>4
  <2>. QED BY <1>1, <1>6, <2>1 DEF EntriesAreTrue, Unlearned
<1>8. WalksAreComplete'
  <2>. DEFINE walkedAt == generations[Current].walkedAt
  <2>1. SUFFICES ASSUME walkedAt # Never
                 PROVE  /\ walkedAt <= clock
                        /\ \A m \in Names : Listed(m) /\ registry'[m] # "absent" =>
                             EntryOf(m).info = registry'[m] \/ (~announced'[m] /\ changedAt'[m] >= walkedAt)
    BY <1>1, <1>6 DEF WalksAreComplete, Listed, ChangedSince
  <2>2. walkedAt <= clock /\ walkedAt \in Nat
    BY <1>0, <2>1, Times DEF KnowledgeInv, WalksAreComplete
  <2>3. ASSUME NEW m \in Names, Listed(m), registry'[m] # "absent"
        PROVE  EntryOf(m).info = registry'[m] \/ (~announced'[m] /\ changedAt'[m] >= walkedAt)
    <3>1. CASE m = n
      BY <1>0, <2>2, <3>1, Times DEF CatalogTypeOK
    <3>2. CASE m # n
      <4>1. EntryOf(m).info = registry[m] \/ ChangedSince(m, walkedAt)
        BY <1>3, <2>1, <2>3, <3>2 DEF KnowledgeInv, WalksAreComplete
      <4>. QED BY <1>3, <3>2, <4>1 DEF ChangedSince
    <3>. QED BY <3>1, <3>2
  <2>. QED BY <2>2, <2>3
<1>9. ASSUME NEW m \in Names, NEW info, info = registry[m] \/ ChangedSince(m, clock)
      PROVE  info = registry'[m] \/ ChangedSince(m, clock)'
  <2>1. ChangedSince(m, clock)' <=> ~announced'[m] /\ changedAt'[m] >= clock
    BY <1>1 DEF ChangedSince
  <2>2. CASE m = n
    BY <1>0, <2>1, <2>2, Times DEF CatalogTypeOK
  <2>3. CASE m # n
    BY <1>3, <1>9, <2>1, <2>3 DEF ChangedSince
  <2>. QED BY <2>2, <2>3
<1>10. \A m \in Names : registry'[m] # "absent" => registry[m] # "absent" \/ ChangedSince(m, clock)'
  <2>1. ChangedSince(n, clock)'
    BY <1>0, <1>1, Times DEF ChangedSince, CatalogTypeOK
  <2>. QED BY <1>3, <2>1
<1>12. \A l \in Listers : ListingIsTrue(l)'
  <2>1. ASSUME NEW l \in Listers, lister[l].at = "served", lister[l].gen = Current
        PROVE  SeenIsTrue(lister[l].seen)'
    BY <1>1, <1>9, <2>1 DEF KnowledgeInv, ListingIsTrue, SeenIsTrue
  <2>. QED BY <1>1, <2>1 DEF ListingIsTrue
<1>13. ASSUME NEW c \in Callers
       PROVE  WalkIsTrue(c)'
  <2>0. WalkIsTrue(c) /\ caller[c].page \in 1..Len(Pages) /\ \A p \in 1..Len(Pages) : Pages[p] \subseteq Names
    BY <1>0, CallFields DEF KnowledgeInv
  <2>1. ASSUME caller[c].at \in {"walk", "served"}, caller[c].gen = Current, NEW p \in 1..(caller[c].page - 1),
               NEW m \in Pages[p], registry'[m] # "absent"
        PROVE  EntryOf(m).info = registry'[m] \/ ChangedSince(m, clock)'
    <3>1. m \in Names
      BY <2>0
    <3>2. registry[m] # "absent" => EntryOf(m).info = registry[m] \/ ChangedSince(m, clock)
      BY <2>0, <2>1 DEF WalkIsTrue
    <3>. QED BY <1>9, <1>10, <2>1, <3>1, <3>2
  <2>2. ASSUME caller[c].at = "served", caller[c].gen = Current
        PROVE  /\ SeenIsTrue(caller[c].seen)'
               /\ \A m \in Pages[caller[c].page] : m \notin DOMAIN caller[c].seen /\ registry'[m] # "absent" =>
                    ChangedSince(m, clock)'
    <3>1. SeenIsTrue(caller[c].seen)'
      BY <1>1, <1>9, <2>0, <2>2 DEF WalkIsTrue, SeenIsTrue
    <3>2. ASSUME NEW m \in Pages[caller[c].page], m \notin DOMAIN caller[c].seen, registry'[m] # "absent"
          PROVE  ChangedSince(m, clock)'
      <4>1. m \in Names /\ (registry[m] # "absent" => ChangedSince(m, clock))
        BY <2>0, <2>2, <3>2 DEF WalkIsTrue
      <4>. DEFINE other == IF registry'[m] = "own" THEN "adds" ELSE "own"
      <4>2. other # registry'[m]
        OBVIOUS
      <4>. QED BY <1>9, <1>10, <3>2, <4>1, <4>2
    <3>. QED BY <3>1, <3>2
  <2>. QED BY <1>1, <1>6, <2>0, <2>1, <2>2 DEF WalkIsTrue, ChangedSince
<1>14. ASSUME NEW c \in Callers
       PROVE  CallKnows(c)'
  <2>1. SUFFICES ASSUME c \notin disturbed', caller[c].at # "idle"
                 PROVE  CallKnows(c)'
    BY <1>1 DEF CallKnows, Informed
  <2>2. c \notin disturbed /\ caller[c].tool # n /\ caller[c].tool \in Names /\ CallKnows(c)
    BY <2>1 DEF KnowledgeInv, CatalogShape, PlacesInv
  <2>3. Informed(c)' = Informed(c)
    BY <1>1 DEF Informed
  <2>. QED BY <1>1, <1>3, <1>4, <1>6, <2>2, <2>3 DEF CallKnows, Right, Listed
<1>. QED BY <1>7, <1>8, <1>12, <1>13, <1>14 DEF KnowledgeInv

\* Clients are told of a change: the new generation knows nothing yet.
LEMMA KnowledgeOfAnnounce ==
  ASSUME CatalogShape, KnowledgeInv, Announce
  PROVE  KnowledgeInv'
<1>0. CatalogTypeOK /\ Current \in Nat /\ generations \in Seq(Generation)
  BY CurrentIsThere DEF CatalogShape, CatalogTypeOK
<1>1. /\ announced' = [n \in Names |-> TRUE] /\ generations' = Append(generations, NewGeneration)
      /\ UNCHANGED <<registry, changedAt, clock, caller, disturbed, lister>>
  BY DEF Announce
<1>2. Current' = Current + 1 /\ (generations[Current])' = NewGeneration
  BY <1>0, <1>1, NewGenerationIsOne DEF Current
<1>3. \A n \in Names : EntryOf(n)' = Unlearned
  BY <1>2 DEF EntryOf, NewGeneration
<1>4. EntriesAreTrue' /\ WalksAreComplete'
  BY <1>2, <1>3 DEF EntriesAreTrue, WalksAreComplete, NewGeneration, Never, Unlearned
<1>5. /\ \A c \in Callers : caller[c].gen # Current'
      /\ \A l \in Listers : lister[l].gen # Current'
  BY <1>0, <1>2 DEF CatalogShape, PlacesInv
<1>6. \A n \in Names : Settled(n)'
  BY <1>1 DEF Settled
<1>7. \A l \in Listers : ListingIsTrue(l)'
  BY <1>1, <1>5 DEF ListingIsTrue
<1>8. ASSUME NEW c \in Callers
      PROVE  WalkIsTrue(c)' /\ CallKnows(c)'
  <2>1. WalkIsTrue(c)'
    BY <1>1, <1>5 DEF WalkIsTrue
  <2>2. caller[c].at # "idle" => caller[c].tool \in Names
    BY DEF CatalogShape, PlacesInv
  <2>3. CallKnows(c)'
    BY <1>1, <1>5, <1>6, <2>2 DEF KnowledgeInv, CallKnows, Right, Listed
  <2>. QED BY <2>1, <2>3
<1>. QED BY <1>4, <1>7, <1>8 DEF KnowledgeInv

\* Time passes: no listing is under way.
LEMMA KnowledgeOfPass ==
  ASSUME CatalogShape, KnowledgeInv, Pass
  PROVE  KnowledgeInv'
<1>0. CatalogTypeOK
  BY DEF CatalogShape
<1>1. /\ clock' = clock + 1 /\ UNCHANGED <<registry, changedAt, announced, generations, caller, disturbed, lister>>
      /\ \A c \in Callers : caller[c].at \notin {"walk", "served", "ended"}
      /\ \A l \in Listers : lister[l].at = "idle"
  BY DEF Pass, serverVars
<1>2. Current' = Current /\ Never' = Never /\ \A n \in Names : EntryOf(n)' = EntryOf(n)
  BY <1>1 DEF Current, EntryOf, Never
<1>3. \A n, t : ChangedSince(n, t)' <=> ChangedSince(n, t)
  BY <1>1 DEF ChangedSince
<1>4. EntriesAreTrue'
  <2>1. \A n \in Names : EntryOf(n) # Unlearned =>
          EntryOf(n).at <= clock' /\ (EntryOf(n).info = registry[n] \/ (~announced[n] /\ changedAt[n] >= EntryOf(n).at))
    BY <1>0, <1>1, Times DEF KnowledgeInv, EntriesAreTrue, ChangedSince
  <2>. QED BY <1>1, <1>2, <2>1 DEF EntriesAreTrue, ChangedSince, Unlearned
<1>5. WalksAreComplete'
  <2>1. generations[Current].walkedAt <= clock => generations[Current].walkedAt <= clock'
    BY <1>0, <1>1, Times
  <2>. QED BY <1>1, <1>2, <2>1 DEF KnowledgeInv, WalksAreComplete, ChangedSince, Listed
<1>6. \A l \in Listers : ListingIsTrue(l)'
  BY <1>1 DEF ListingIsTrue
<1>7. ASSUME NEW c \in Callers
      PROVE  WalkIsTrue(c)' /\ CallKnows(c)'
  <2>1. WalkIsTrue(c)'
    BY <1>1 DEF WalkIsTrue
  <2>2. CallKnows(c) /\ (Informed(c)' <=> Informed(c)) /\ (caller[c].at # "idle" => caller[c].tool \in Names)
    BY <1>1 DEF KnowledgeInv, Informed, CatalogShape, PlacesInv
  <2>3. caller[c].at # "idle" /\ Settled(caller[c].tool) => Settled(caller[c].tool)'
    BY <1>0, <1>1, <2>2, Times DEF Settled
  <2>4. CallKnows(c)'
    <3>1. SUFFICES ASSUME c \notin disturbed', caller[c].at # "idle"
                   PROVE  CallKnows(c)'
      BY <1>1 DEF CallKnows, Informed
    <3>. QED BY <1>1, <1>2, <2>2, <2>3, <3>1 DEF CallKnows, Right, Listed
  <2>. QED BY <2>1, <2>4
<1>. QED BY <1>4, <1>5, <1>6, <1>7 DEF KnowledgeInv

\* Clients list.
LEMMA KnowledgeOfListers ==
  ASSUME CatalogShape, KnowledgeInv, NEW l \in Listers, List(l) \/ ListServed(l) \/ ListAdvertised(l)
  PROVE  KnowledgeInv'
<1>0. /\ CatalogTypeOK /\ lister[l].gen \in 1..Current /\ lister[l].page \in 1..Len(Pages)
      /\ lister[l] \in ListRecord /\ lister[l].seen \in Shows \cup {<<>>} /\ DOMAIN lister = Listers
  BY DEF CatalogShape, CatalogTypeOK, PlacesInv, ListRecord
<1>1. UNCHANGED <<serverVars, clock, caller, disturbed>>
  BY DEF List, ListServed, ListAdvertised
<1>2. KnowsMore /\ EntriesAreTrue' /\ WalksAreComplete'
  <2>1. CASE UNCHANGED generations
    <3>1. Len(generations') = Current
      BY <2>1 DEF Current
    <3>. QED BY <1>1, <2>1, <3>1, NothingLearned
  <2>2. CASE ListAdvertised(l)
    <3>1. lister[l].gen = Current => SeenIsTrue(lister[l].seen)
      BY <2>2 DEF ListAdvertised, KnowledgeInv, ListingIsTrue
    <3>2. generations' = Learned(lister[l].gen, lister[l].seen)
      BY <2>2 DEF ListAdvertised
    <3>3. /\ Len(generations') = Current /\ Current \in 1..Current
          /\ \A h \in 1..Current : generations'[h].walkedAt = generations[h].walkedAt
      BY <1>0, <3>2, Learning, CurrentIsThere
    <3>4. KnowsMore
      BY <1>0, <1>1, <3>1, <3>2, <3>3, SeenIsLearned
    <3>5. (generations[Current].walkedAt)' = generations[Current].walkedAt
      BY <3>3, <3>4 DEF KnowsMore
    <3>. QED BY <1>0, <3>4, <3>5, GenerationStaysTrue DEF KnowledgeInv
  <2>. QED BY <2>1, <2>2 DEF List, ListServed
<1>3. \A c \in Callers : WalkIsTrue(c)' /\ CallKnows(c)'
  BY <1>1, <1>2, CallStaysInformed DEF KnowledgeInv, Informed
<1>4. ASSUME NEW k \in Listers
      PROVE  ListingIsTrue(k)'
  <2>0. Current' = Current /\ UNCHANGED <<registry, announced, changedAt, clock>>
    BY <1>2 DEF KnowsMore, serverVars
  <2>1. CASE k # l
    <3>1. lister'[k] = lister[k]
      BY <1>0, <2>1 DEF List, ListServed, ListAdvertised
    <3>. QED BY <2>0, <3>1 DEF KnowledgeInv, ListingIsTrue, SeenIsTrue, ChangedSince
  <2>2. CASE k = l /\ ListServed(l)
    <3>1. lister'[l].seen = Shown(lister[l].page)
      BY <1>0, <2>2 DEF ListServed, ListRecord
    <3>2. \A n \in DOMAIN Shown(lister[l].page) : Shown(lister[l].page)[n] = registry[n]
      BY <1>0, ShownIsShow
    <3>3. SeenIsTrue(lister[l].seen)'
      BY <2>0, <3>1, <3>2 DEF SeenIsTrue
    <3>. QED BY <2>2, <3>3 DEF ListingIsTrue
  <2>3. CASE k = l /\ (List(l) \/ ListAdvertised(l))
    <3>1. List(l) => lister'[l].at = "asked"
      BY <1>0 DEF List
    <3>2. ListAdvertised(l) => lister'[l] = [lister[l] EXCEPT !.at = "idle", !.page = 1, !.gen = 1, !.seen = <<>>]
      BY <1>0 DEF ListAdvertised
    <3>3. [lister[l] EXCEPT !.at = "idle", !.page = 1, !.gen = 1, !.seen = <<>>].at = "idle"
      BY <1>0 DEF ListRecord
    <3>4. lister'[l].at # "served"
      BY <2>3, <3>1, <3>2, <3>3
    <3>. QED BY <2>3, <3>4 DEF ListingIsTrue
  <2>. QED BY <2>1, <2>2, <2>3
<1>. QED BY <1>2, <1>3, <1>4 DEF KnowledgeInv

\* A page of a walk is learned.
LEMMA KnowledgeOfPage ==
  ASSUME CatalogShape, LeadersInv, KnowledgeInv, NEW c \in Callers, WalkAdvertised(c)
  PROVE  KnowledgeInv'
<1>. DEFINE g == caller[c].gen
            page == caller[c].page
            seen == caller[c].seen
            capped == page = MaxPages /\ page < Len(Pages)
            last == page = Len(Pages) \/ capped
            ended == [caller[c] EXCEPT !.at = "ended", !.seen = <<>>, !.again = @ \/ capped]
            on == [caller[c] EXCEPT !.at = "walk", !.page = @ + 1, !.seen = <<>>]
<1>0. /\ CatalogTypeOK /\ caller[c] \in CallRecord /\ g \in 1..Current /\ page \in 1..Len(Pages) /\ page <= MaxPages
      /\ seen \in Shows \cup {<<>>} /\ caller[c].again \in BOOLEAN /\ caller[c].tool \in Names
      /\ caller[c].at = "served" /\ Current \in 1..Current
      /\ UNCHANGED <<serverVars, clock, disturbed, lister>>
  BY CallFields, CurrentIsThere DEF CatalogShape, PlacesInv, WalkAdvertised
<1>1. WalkIsTrue(c) /\ CallKnows(c) /\ (g = Current => SeenIsTrue(seen)) /\ EntriesAreTrue /\ WalksAreComplete
  BY <1>0 DEF KnowledgeInv, WalkIsTrue
<1>2. ASSUME Len(generations') = Current, generations'[Current].tools = Learned(g, seen)[Current].tools, g = Current,
             NEW p \in 1..page, NEW n \in Pages[p], registry[n] # "absent"
      PROVE  (EntryOf(n)').info = registry[n] \/ ChangedSince(n, clock)
  <2>1. n \in Names
    BY <1>0
  <2>2. /\ KnowsMore /\ \A m \in DOMAIN seen \cap Names : (EntryOf(m)').info = seen[m]
    BY <1>0, <1>1, <1>2, SeenIsLearned
  <2>3. CASE p = page
    <3>1. CASE n \in DOMAIN seen
      BY <1>1, <1>2, <2>1, <2>2, <3>1 DEF SeenIsTrue
    <3>2. CASE n \notin DOMAIN seen
      BY <1>0, <1>1, <1>2, <2>3, <3>2 DEF WalkIsTrue
    <3>. QED BY <3>1, <3>2
  <2>4. CASE p # page
    <3>1. p \in 1..(page - 1)
      BY <1>0, <2>4
    <3>2. EntryOf(n).info = registry[n] \/ ChangedSince(n, clock)
      BY <1>0, <1>1, <1>2, <3>1 DEF WalkIsTrue
    <3>. QED BY <1>0, <2>1, <2>2, <3>2, Times DEF KnowsMore
  <2>. QED BY <2>3, <2>4
<1>3. CASE ~last
  <2>1. generations' = Learned(g, seen) /\ Move(c, on)
    BY <1>0, <1>3 DEF WalkAdvertised
  <2>2. page + 1 \in 1..Len(Pages)
    BY <1>0, <1>3
  <2>3. on \in CallRecord /\ on.gen = g /\ on.page = page + 1 /\ on.tool = caller[c].tool /\ on.at = "walk"
    BY <1>0, <2>2 DEF CallRecord, Steps
  <2>. HIDE DEF on
  <2>4. /\ Len(generations') = Current
        /\ \A h \in 1..Current : generations'[h].walkedAt = generations[h].walkedAt
    BY <1>0, <2>1, Learning
  <2>5. KnowsMore
    BY <1>0, <1>1, <2>1, <2>4, SeenIsLearned
  <2>6. (generations[Current].walkedAt)' = generations[Current].walkedAt
    BY <1>0, <2>4, <2>5 DEF KnowsMore
  <2>7. EntriesAreTrue' /\ WalksAreComplete'
    BY <1>0, <1>1, <2>5, <2>6, GenerationStaysTrue
  <2>8. caller'[c] = on /\ Current' = Current /\ registry' = registry /\ clock' = clock
        /\ (\A n : ChangedSince(n, clock)' = ChangedSince(n, clock)) /\ \A n : Settled(n)' = Settled(n)
    BY <1>0, <2>1, <2>5 DEF Move, CatalogTypeOK, KnowsMore, serverVars, ChangedSince, Settled
  <2>9. WalkIsTrue(c)'
    <3>1. (on.page - 1) = page
      BY <1>0, <2>3
    <3>2. generations'[Current].tools = Learned(g, seen)[Current].tools
      BY <2>1
    <3>3. ASSUME g = Current, NEW p \in 1..page, NEW n \in Pages[p], registry[n] # "absent"
          PROVE  (EntryOf(n)').info = registry[n] \/ ChangedSince(n, clock)
      BY <1>2, <2>4, <3>2, <3>3
    <3>. QED BY <2>3, <2>8, <3>1, <3>3 DEF WalkIsTrue
  <2>10. CallKnows(c)'
    BY <1>0, <1>1, <2>3, <2>8 DEF CallKnows, Informed
  <2>. QED BY <1>0, <2>1, <2>3, <2>5, <2>7, <2>9, <2>10, KnowledgeMoves DEF KnowledgeInv
<1>4. CASE last
  <2>1. generations' = Done(g, seen) /\ Move(c, ended)
    BY <1>0, <1>4 DEF WalkAdvertised, Done
  <2>2. ended \in CallRecord /\ ended.gen = g /\ ended.tool = caller[c].tool /\ ended.at = "ended"
    BY <1>0 DEF CallRecord, Steps
  <2>. HIDE DEF ended
  <2>3. /\ Len(generations') = Current
        /\ \A h \in 1..Current :
             /\ generations'[h].walkedAt = IF h = g THEN clock ELSE generations[h].walkedAt
             /\ generations'[h].tools = Learned(g, seen)[h].tools
    <3>. PICK done : done = Done(g, seen)
      OBVIOUS
    <3>1. CatalogTypeOK /\ g \in 1..Current /\ seen \in Shows \cup {<<>>}
      BY <1>0
    <3>. HIDE DEF g, seen
    <3>2. /\ Len(done) = Current
          /\ \A h \in 1..Current :
               /\ done[h].walkedAt = IF h = g THEN clock ELSE generations[h].walkedAt
               /\ done[h].tools = Learned(g, seen)[h].tools
      BY <3>1, WalkIsDone
    <3>3. generations' = done
      BY <2>1
    <3>. QED BY <3>2, <3>3
  <2>4. KnowsMore
    BY <1>0, <1>1, <2>3, SeenIsLearned
  <2>5. caller'[c] = ended /\ Current' = Current /\ registry' = registry /\ clock' = clock
        /\ (\A n : ChangedSince(n, clock)' = ChangedSince(n, clock)) /\ (\A n : Settled(n)' = Settled(n))
        /\ \A d \in Callers : d # c => caller'[d] = caller[d]
    BY <1>0, <2>1, <2>4 DEF Move, CatalogTypeOK, KnowsMore, serverVars, ChangedSince, Settled
  <2>6. ASSUME g = Current, NEW n \in Names, Listed(n), registry[n] # "absent"
        PROVE  (EntryOf(n)').info = registry[n] \/ ChangedSince(n, clock)
    <3>. PICK p \in 1..MaxPages : p \in DOMAIN Pages /\ n \in Pages[p]
      BY <2>6 DEF Listed
    <3>1. p \in 1..page
      BY <1>0, <1>4
    <3>. QED BY <1>0, <1>2, <2>3, <2>6, <3>1
  <2>7. EntriesAreTrue' /\ WalksAreComplete'
    <3>1. CASE g # Current
      <4>1. (generations[Current].walkedAt)' = generations[Current].walkedAt
        BY <1>0, <2>3, <2>5, <3>1
      <4>. QED BY <1>0, <1>1, <2>4, <4>1, GenerationStaysTrue
    <3>2. CASE g = Current
      <4>1. (generations[Current].walkedAt)' = clock
        BY <1>0, <2>3, <2>5, <3>2
      <4>2. WalksAreComplete'
        <5>1. \A n \in Names : Listed(n)' = Listed(n)
          BY DEF Listed
        <5>2. \A n \in Names : ChangedSince(n, generations[Current].walkedAt)' = ChangedSince(n, clock)
          BY <2>5, <4>1 DEF ChangedSince
        <5>. QED BY <1>0, <2>5, <2>6, <3>2, <4>1, <5>1, <5>2, Times DEF WalksAreComplete
      <4>3. EntriesAreTrue'
        <5>1. ASSUME NEW n \in Names, EntryOf(n)' # Unlearned
              PROVE  /\ (EntryOf(n)').at <= clock
                     /\ (EntryOf(n)').info = registry[n] \/ (~announced[n] /\ changedAt[n] >= (EntryOf(n)').at)
          <6>1. CASE EntryOf(n)' = EntryOf(n)
            BY <1>1, <5>1, <6>1 DEF EntriesAreTrue, ChangedSince
          <6>2. CASE (EntryOf(n)').at = clock /\ ((EntryOf(n)').info = registry[n] \/ ChangedSince(n, clock))
            BY <1>0, <6>2, Times DEF ChangedSince
          <6>. QED BY <2>4, <6>1, <6>2 DEF KnowsMore
        <5>. QED BY <1>0, <2>5, <5>1 DEF EntriesAreTrue, ChangedSince, Unlearned, serverVars
      <4>. QED BY <4>2, <4>3
    <3>. QED BY <3>1, <3>2
  <2>8. WalkIsTrue(c)'
    BY <2>2, <2>5 DEF WalkIsTrue
  <2>9. ASSUME NEW d \in Callers, d = c \/ (caller[d].at = "wait" /\ caller[d].wait = c)
        PROVE  CallKnows(d)'
    <3>1. /\ caller'[d].gen = g /\ caller'[d].tool = caller[d].tool /\ caller[d].tool \in Names
          /\ caller'[d].at \in {"ended", "wait"} /\ caller[d].at # "idle"
      <4>1. CASE d = c
        BY <1>0, <2>2, <2>5, <4>1
      <4>2. CASE d # c
        BY <2>5, <2>9, <4>2 DEF LeadersInv, WaitsForARunningWalk, CatalogShape, PlacesInv
      <4>. QED BY <4>1, <4>2
    <3>2. SUFFICES ASSUME d \notin disturbed
                   PROVE  /\ Settled(caller[d].tool)
                          /\ g = Current => Right(caller[d].tool, EntryOf(caller[d].tool).info)'
      <4>1. Right(caller[d].tool, EntryOf(caller[d].tool).info)' <=>
              (Listed(caller[d].tool) /\ registry[caller[d].tool] # "absent"
               => (EntryOf(caller[d].tool)').info = registry[caller[d].tool])
        BY <2>5, <3>1 DEF Right, Listed
      <4>. QED BY <1>0, <2>5, <3>1, <4>1 DEF CallKnows
    <3>3. Settled(caller[d].tool)
      BY <3>1, <3>2 DEF KnowledgeInv, CallKnows
    <3>4. ASSUME g = Current
          PROVE  Right(caller[d].tool, EntryOf(caller[d].tool).info)'
      <4>. DEFINE n == caller[d].tool
      <4>1. ~ChangedSince(n, clock)
        <5>1. clock < clock + TTL /\ clock \in Nat
          BY <1>0, Times
        <5>. QED BY <1>0, <3>1, <3>3, <5>1, SettledIsSteady
      <4>2. Listed(n) /\ registry[n] # "absent" => (EntryOf(n)').info = registry[n]
        BY <2>6, <3>1, <3>4, <4>1
      <4>. QED BY <2>5, <3>1, <4>2 DEF Right, Listed
    <3>. QED BY <3>3, <3>4
  <2>. QED BY <1>0, <2>1, <2>2, <2>4, <2>7, <2>8, <2>9, KnowledgeMoves DEF KnowledgeInv
<1>. QED BY <1>3, <1>4

LEMMA KnowledgeOfCalls ==
  ASSUME CatalogShape, LeadersInv, KnowledgeInv, NEW c \in Callers,
         \/ Lookup(c) \/ LookupWithoutSession(c) \/ WalkServed(c) \/ WalkAdvertised(c) \/ WalkFails(c)
         \/ WalkClosed(c) \/ WaitEnds(c) \/ Read(c) \/ Compare(c) \/ Dispatch(c)
  PROVE  KnowledgeInv'
<1>0. /\ CatalogTypeOK /\ caller[c] \in CallRecord /\ caller[c].gen \in 1..Current /\ caller[c].page \in 1..Len(Pages)
      /\ caller[c].again \in BOOLEAN /\ Current \in 1..Current /\ Current \in Nat
      /\ caller[c].at # "idle" => caller[c].tool \in Names
      /\ WalkIsTrue(c) /\ CallKnows(c)
  BY CallFields, CurrentIsThere DEF CatalogShape, PlacesInv, KnowledgeInv
<1>u. UNCHANGED <<serverVars, clock, generations>> =>
        /\ KnowsMore /\ EntriesAreTrue' /\ WalksAreComplete' /\ Current' = Current
        /\ \A n \in Names : EntryOf(n)' = EntryOf(n)
  BY NothingLearned DEF Current
\* A step of one call that changes nothing else.
<1>m. ASSUME NEW moved \in CallRecord, Move(c, moved), UNCHANGED <<serverVars, clock, generations, lister>>,
             disturbed \ {c} \subseteq disturbed', moved.at \notin {"walk", "served", "ended", "wait"},
             c \notin disturbed' => \/ moved.at = "idle"
                                  \/ /\ Settled(moved.tool)
                                     /\ moved.at \in {"known", "prepared"} => Right(moved.tool, moved.info)
                                     /\ moved.at = "read" /\ moved.gen = Current => Right(moved.tool, EntryOf(moved.tool).info)
      PROVE  KnowledgeInv'
  <2>1. caller'[c] = moved
    BY <1>0, <1>m DEF Move, CatalogTypeOK
  <2>2. KnowsMore /\ EntriesAreTrue' /\ WalksAreComplete' /\ Current' = Current
    BY <1>m, <1>u
  <2>3. WalkIsTrue(c)'
    BY <1>m, <2>1 DEF WalkIsTrue
  <2>4. EntryOf(moved.tool)' = EntryOf(moved.tool)
    BY <1>m, <2>2 DEF EntryOf
  <2>5. CallKnows(c)'
    BY <1>m, <2>1, <2>2, <2>4 DEF CallKnows, Informed, Settled, Right, Listed, serverVars, EntryOf
  <2>. QED BY <1>m, <2>2, <2>3, <2>5, KnowledgeMoves
<1>1. CASE Lookup(c)
  <2>. PICK n \in Names : /\ LookupIn(c, [Resting EXCEPT !.tool = n])
                         /\ disturbed' = IF Settled(n) THEN disturbed ELSE disturbed \cup {c}
    BY <1>1 DEF Lookup
  <2>. DEFINE asked == [Resting EXCEPT !.tool = n]
  <2>1. asked \in CallRecord /\ asked.tool = n /\ asked.page = 1
    BY AskingFirst
  <2>2. LookupIn(c, asked)
    OBVIOUS
  <2>. HIDE DEF asked
  <2>. PICK moved \in CallRecord : LookedUp(c, n, moved)
    BY <2>1, <2>2, LookingUp
  <2>3. UNCHANGED <<serverVars, clock, lister>>
    BY <1>1 DEF Lookup
  <2>. QED BY <2>3, KnowledgeLookUp
<1>2. CASE LookupWithoutSession(c)
  <2>. PICK n \in Names :
         Move(c, [Resting EXCEPT !.at = "known", !.tool = n, !.gen = Current, !.info = generations[Current].tools[n].info])
    BY <1>2 DEF LookupWithoutSession
  <2>. DEFINE call == [Resting EXCEPT !.at = "known", !.tool = n, !.gen = Current, !.info = generations[Current].tools[n].info]
  <2>1. generations[Current].tools[n].info \in Registrations
    BY <1>0, GenerationFields
  <2>2. call \in CallRecord /\ call.at = "known"
    BY <1>0, <2>1, RestingIsCall DEF CallRecord, Steps
  <2>3. Move(c, call)
    OBVIOUS
  <2>. HIDE DEF call
  <2>4. UNCHANGED <<serverVars, clock, generations, lister>> /\ disturbed' = disturbed \cup {c}
    BY <1>2 DEF LookupWithoutSession
  <2>. QED BY <1>m, <2>2, <2>3, <2>4
<1>3. CASE WalkServed(c)
  <2>. DEFINE page == caller[c].page
              call == [caller[c] EXCEPT !.at = "served", !.seen = Shown(page)]
  <2>1. /\ call \in CallRecord /\ call.gen = caller[c].gen /\ call.page = page /\ call.tool = caller[c].tool
        /\ call.at = "served" /\ call.seen = Shown(page)
    BY <1>0, ShownIsShow DEF CallRecord, Steps
  <2>2. Move(c, call) /\ UNCHANGED <<serverVars, clock, generations, lister, disturbed>> /\ caller[c].at = "walk"
    BY <1>3 DEF WalkServed
  <2>. HIDE DEF call
  <2>3. caller'[c] = call
    BY <1>0, <2>2 DEF Move, CatalogTypeOK
  <2>4. KnowsMore /\ EntriesAreTrue' /\ WalksAreComplete' /\ Current' = Current /\ UNCHANGED <<registry, announced, changedAt>>
    BY <1>u, <2>2 DEF serverVars
  <2>5. /\ DOMAIN Shown(page) = {n \in Pages[page] : registry[n] # "absent"}
        /\ \A n \in DOMAIN Shown(page) : Shown(page)[n] = registry[n]
    BY <1>0, ShownIsShow
  <2>6. WalkIsTrue(c)'
    <3>1. \A n : EntryOf(n)' = EntryOf(n) /\ ChangedSince(n, clock)' = ChangedSince(n, clock)
      BY <2>2, <2>4 DEF EntryOf, ChangedSince
    <3>2. SeenIsTrue(caller[c].seen)'
      BY <2>1, <2>3, <2>4, <2>5 DEF SeenIsTrue
    <3>3. \A n \in Pages[page] : ~(n \notin DOMAIN call.seen /\ registry[n] # "absent")
      BY <2>1, <2>5
    <3>4. caller[c].gen = Current => \A p \in 1..(page - 1) : \A n \in Pages[p] : registry[n] # "absent" =>
            EntryOf(n).info = registry[n] \/ ChangedSince(n, clock)
      BY <1>0, <2>2 DEF WalkIsTrue
    <3>. QED BY <2>1, <2>3, <2>4, <3>1, <3>2, <3>3, <3>4 DEF WalkIsTrue
  <2>7. CallKnows(c)'
    BY <1>0, <2>1, <2>2, <2>3, <2>4 DEF CallKnows, Informed, Settled
  <2>8. call.at # "ended" /\ disturbed \ {c} \subseteq disturbed'
    BY <2>1, <2>2
  <2>. QED BY <2>1, <2>2, <2>4, <2>6, <2>7, <2>8, KnowledgeMoves
<1>4. CASE WalkAdvertised(c)
  BY <1>4, KnowledgeOfPage
<1>5. CASE WalkFails(c)
  <2>. PICK failed \in BOOLEAN : Move(c, [caller[c] EXCEPT !.at = "ended", !.again = @ \/ failed])
    BY <1>5 DEF WalkFails
  <2>. DEFINE call == [caller[c] EXCEPT !.at = "ended", !.again = @ \/ failed]
  <2>1. call \in CallRecord /\ call.at = "ended"
    BY <1>0 DEF CallRecord, Steps
  <2>2. Move(c, call)
    OBVIOUS
  <2>. HIDE DEF call
  <2>3. /\ generations' = Led(caller[c].gen, Nobody) /\ UNCHANGED <<serverVars, clock, lister>>
        /\ disturbed' = disturbed \cup Sharing(c)
    BY <1>5 DEF WalkFails, Led
  <2>4. KnowsMore /\ EntriesAreTrue' /\ WalksAreComplete'
    <3>1. /\ Len(generations') = Current
          /\ \A h \in 1..Current : generations'[h].tools = generations[h].tools
                                  /\ generations'[h].walkedAt = generations[h].walkedAt
      BY <1>0, <2>3, Leads
    <3>. QED BY <2>3, <3>1, NothingLearned
  <2>5. WalkIsTrue(c)'
    BY <1>0, <2>1, <2>2 DEF WalkIsTrue, Move, CatalogTypeOK
  <2>6. \A d \in Callers : d = c \/ (caller[d].at = "wait" /\ caller[d].wait = c) => CallKnows(d)'
    BY <2>3 DEF Sharing, CallKnows
  <2>7. disturbed \ {c} \subseteq disturbed' /\ CallKnows(c)'
    BY <2>3, <2>6
  <2>. QED BY <2>1, <2>2, <2>3, <2>4, <2>5, <2>6, <2>7, KnowledgeMoves
<1>6. CASE WalkClosed(c)
  <2>0. caller[c].at = "ended" /\ UNCHANGED <<serverVars, clock, generations, disturbed, lister>>
    BY <1>6 DEF WalkClosed
  <2>1. /\ KnowsMore /\ EntriesAreTrue' /\ WalksAreComplete' /\ Current' = Current
        /\ \A n \in Names : EntryOf(n)' = EntryOf(n)
    BY <1>u, <2>0
  <2>2. \A d \in Callers : d \in Sharing(c) <=> d = c \/ (caller[d].at = "wait" /\ caller[d].wait = c)
    BY DEF Sharing
  <2>3. \A d \in Callers :
          /\ d \in Sharing(c) => /\ caller'[d].at = "read" /\ caller'[d].tool = caller[d].tool
                                /\ caller'[d].gen = caller[d].gen
          /\ d \notin Sharing(c) => caller'[d] = caller[d]
    <3>. TAKE d \in Callers
    <3>1. caller[d] \in CallRecord
      BY CallFields DEF CatalogShape
    <3>2. caller'[d] = IF d = c THEN [caller[d] EXCEPT !.at = "read", !.page = 1]
                       ELSE IF d \in Sharing(c) THEN [caller[d] EXCEPT !.at = "read", !.wait = Nobody] ELSE caller[d]
      BY <1>6 DEF WalkClosed
    <3>. QED BY <2>2, <3>1, <3>2 DEF CallRecord
  <2>4. ASSUME NEW d \in Callers
        PROVE  WalkIsTrue(d)' /\ CallKnows(d)'
    <3>0. CallKnows(d) /\ WalkIsTrue(d) /\ (caller[d].at # "idle" => caller[d].tool \in Names)
      BY DEF KnowledgeInv, CatalogShape, PlacesInv
    <3>1. CASE d \in Sharing(c)
      <4>1. WalkIsTrue(d)'
        BY <2>3, <3>1 DEF WalkIsTrue
      <4>2. Informed(d) /\ caller[d].at # "idle"
        BY <2>0, <2>2, <3>1 DEF Informed
      <4>3. \A n \in Names : Right(n, EntryOf(n).info)' = Right(n, EntryOf(n).info) /\ Settled(n)' = Settled(n)
        BY <2>0, <2>1 DEF Right, Listed, Settled, serverVars
      <4>4. caller'[d].tool = caller[d].tool /\ caller'[d].gen = caller[d].gen /\ caller'[d].at = "read"
        BY <2>3, <3>1
      <4>5. d \notin disturbed =>
              /\ Settled(caller[d].tool)
              /\ caller[d].gen = Current => Right(caller[d].tool, EntryOf(caller[d].tool).info)
        BY <3>0, <4>2 DEF CallKnows
      <4>6. CallKnows(d)'
        BY <2>0, <2>1, <3>0, <4>2, <4>3, <4>4, <4>5 DEF CallKnows, Right, Listed, Settled, serverVars
      <4>. QED BY <4>1, <4>6
    <3>2. CASE d \notin Sharing(c)
      <4>1. caller'[d] = caller[d] /\ (d \in disturbed => d \in disturbed')
        BY <2>0, <2>3, <3>2
      <4>2. Informed(d)' => Informed(d)
        <5>1. ASSUME caller[d].at = "wait", caller'[caller[d].wait].at = "ended"
              PROVE  caller[caller[d].wait].at = "ended"
          <6>1. caller[d].wait \in Callers
            BY <5>1 DEF LeadersInv
          <6>. QED BY <2>3, <5>1, <6>1
        <5>. QED BY <4>1, <5>1 DEF Informed
      <4>. QED BY <2>1, <3>0, <4>1, <4>2, CallStaysInformed
    <3>. QED BY <3>1, <3>2
  <2>. QED BY <2>0, <2>1, <2>4, ListingsStay DEF KnowledgeInv
<1>7. CASE WaitEnds(c)
  <2>. DEFINE call == [caller[c] EXCEPT !.at = "read", !.wait = Nobody]
  <2>1. call \in CallRecord /\ call.at = "read"
    BY <1>0 DEF CallRecord, Steps
  <2>2. Move(c, call) /\ UNCHANGED <<serverVars, clock, generations, lister>> /\ disturbed' = disturbed \cup {c}
    BY <1>7 DEF WaitEnds
  <2>. HIDE DEF call
  <2>. QED BY <1>m, <2>1, <2>2
\* The end of lookup for a call that knows what it looked for.
<1>8. ASSUME NEW call \in CallRecord, call.tool = caller[c].tool, call.gen = caller[c].gen, call.again = caller[c].again,
             caller[c].at # "idle", Return(c, call), UNCHANGED <<serverVars, clock, lister>>,
             disturbed \subseteq disturbed',
             c \notin disturbed' /\ (call.gen = Current \/ call.again) => Right(call.tool, call.info)
      PROVE  KnowledgeInv'
  <2>. PICK moved \in CallRecord : LookupReturned(c, call, moved)
    BY <1>0, <1>8, Returning
  <2>0. c \notin disturbed' => Settled(call.tool)
    BY <1>0, <1>8 DEF CallKnows
  <2>1. CASE (call.gen = Current \/ call.again) /\ moved = [call EXCEPT !.at = "prepared"] /\ Move(c, moved) /\ UNCHANGED generations
    <3>1. moved.at = "prepared" /\ moved.tool = call.tool /\ moved.info = call.info
      BY <2>1 DEF CallRecord
    <3>. QED BY <1>8, <1>m, <2>0, <2>1, <3>1
  <2>2. CASE LookedUp(c, call.tool, moved)
    BY <1>0, <1>8, <2>0, <2>2, KnowledgeLookUp
  <2>. QED BY <2>1, <2>2 DEF LookupReturned
<1>9. CASE Read(c)
  <2>. DEFINE call == [caller[c] EXCEPT !.info = generations[caller[c].gen].tools[caller[c].tool].info]
  <2>1. /\ caller[c].at = "read" /\ UNCHANGED <<serverVars, clock, lister>> /\ Return(c, call)
        /\ disturbed' = IF caller[c].gen # Current /\ caller[c].again THEN disturbed \cup {c} ELSE disturbed
    BY <1>9 DEF Read
  <2>2. generations[caller[c].gen].tools[caller[c].tool].info \in Registrations
    BY <1>0, <2>1, GenerationFields
  <2>3. /\ call \in CallRecord /\ call.tool = caller[c].tool /\ call.gen = caller[c].gen /\ call.again = caller[c].again
        /\ call.info = generations[caller[c].gen].tools[caller[c].tool].info
    BY <1>0, <2>2 DEF CallRecord
  <2>. HIDE DEF call
  <2>4. c \notin disturbed' /\ (call.gen = Current \/ call.again) => Right(call.tool, call.info)
    BY <1>0, <2>1, <2>3 DEF CallKnows, Informed, EntryOf
  <2>5. disturbed \subseteq disturbed'
    BY <2>1
  <2>. QED BY <1>8, <2>1, <2>3, <2>4, <2>5
<1>10. CASE Compare(c)
  <2>1. /\ caller[c].at = "known" /\ UNCHANGED <<serverVars, clock, lister, disturbed>> /\ Return(c, caller[c])
    BY <1>10 DEF Compare
  <2>2. c \notin disturbed' => Right(caller[c].tool, caller[c].info)
    BY <1>0, <2>1 DEF CallKnows
  <2>. QED BY <1>0, <1>8, <2>1, <2>2
<1>11. CASE Dispatch(c)
  <2>1. Resting.at = "idle"
    BY DEF Resting
  <2>2. Move(c, Resting) /\ UNCHANGED <<serverVars, clock, generations, lister>> /\ disturbed' = disturbed \ {c}
    BY <1>11 DEF Dispatch
  <2>. QED BY <1>m, <2>1, <2>2, RestingIsCall
<1>. QED BY <1>1, <1>2, <1>3, <1>4, <1>5, <1>6, <1>7, <1>9, <1>10, <1>11

LEMMA KnowledgeNext == CatalogShape /\ LeadersInv /\ KnowledgeInv /\ [CatalogNext]_catalogVars => KnowledgeInv'
<1>1. KnowledgeInv /\ UNCHANGED catalogVars => KnowledgeInv'
  BY DEF KnowledgeInv, EntriesAreTrue, WalksAreComplete, ListingIsTrue, WalkIsTrue, CallKnows, Informed, SeenIsTrue,
         Settled, Right, Listed, ChangedSince, EntryOf, Current, Unlearned, Never, catalogVars
<1>2. CatalogShape /\ LeadersInv /\ KnowledgeInv /\ CatalogNext => KnowledgeInv'
  BY KnowledgeOfChange, KnowledgeOfAnnounce, KnowledgeOfPass, KnowledgeOfListers, KnowledgeOfCalls DEF CatalogNext
<1>. QED BY <1>1, <1>2

\* A call of a settled tool is treated by what the server registered: whoever lists
\* the tools meanwhile, for whatever generation, and whichever walk the call waits for.
THEOREM SettledToolsAreKnown == CatalogSpec => []StableToolsAreKnown
<1>1. CatalogInit => CatalogShape /\ LeadersInv /\ KnowledgeInv
  BY ShapeInit, LeadersInit, KnowledgeInit
<1>2. CatalogShape /\ LeadersInv /\ KnowledgeInv /\ [CatalogNext]_catalogVars
      => CatalogShape' /\ LeadersInv' /\ KnowledgeInv'
  BY ShapeNext, LeadersNext, KnowledgeNext
<1>3. KnowledgeInv => StableToolsAreKnown
  BY DEF KnowledgeInv, CallKnows, Right, Listed, StableToolsAreKnown
<1>. QED BY <1>1, <1>2, <1>3, PTL DEF CatalogSpec

HIDE BoundsAssumption
HIDE NobodyAssumption
HIDE PagesAssumption
USE SessionsAssumption, InFlightAssumption

--------------------------------------------------------------------------
(* Sessions: the memory of generated ids.                                  *)

SessionsTypeOK ==
  /\ time \in Nat /\ lastSweep \in Nat /\ ids \in Nat
  /\ DOMAIN generated \subseteq Connections /\ IsFiniteSet(DOMAIN generated)
  /\ Cardinality(DOMAIN generated) <= MaxSessions
  /\ generated \in [DOMAIN generated -> [id : Nat, last : Nat]]
  /\ latest \in [Connections -> [id : Nat, at : Nat]]
  /\ dropped \subseteq Connections

\* What is remembered of a connection is its latest activity.
MemoryIsLatest ==
  \A s \in DOMAIN generated :
    generated[s].id = latest[s].id /\ generated[s].last = latest[s].at /\ latest[s].id # 0

\* Ids are not given twice.
IdsAreOwn ==
  /\ \A s \in Connections : latest[s].id <= ids /\ latest[s].at <= time
  /\ \A s \in Connections : \A t \in Connections \ {s} : latest[s].id # 0 => latest[s].id # latest[t].id

\* Whose id is forgotten paused beyond the timeout, had to make room, or is closed.
Remembered(closed) ==
  \A s \in Connections \ closed : latest[s].id # 0 /\ s \notin DOMAIN generated =>
    s \in dropped \/ time > latest[s].at + Timeout

MemoryInv == SessionsTypeOK /\ MemoryIsLatest /\ IdsAreOwn

LEMMA MemoryInit == SessionsInit => MemoryInv /\ \A closed : Remembered(closed)
<1>. SUFFICES ASSUME SessionsInit PROVE MemoryInv /\ \A closed : Remembered(closed)
  OBVIOUS
<1>1. DOMAIN generated = {} /\ generated \in [DOMAIN generated -> [id : Nat, last : Nat]]
  BY DEF SessionsInit
<1>2. IsFiniteSet(DOMAIN generated) /\ Cardinality(DOMAIN generated) = 0
  BY <1>1, FS_EmptySet
<1>3. SessionsTypeOK
  BY <1>1, <1>2 DEF SessionsInit, SessionsTypeOK, Unused
<1>4. \A s \in Connections : latest[s].id = 0 /\ latest[s].at = 0
  BY DEF SessionsInit, Unused
<1>5. MemoryIsLatest /\ IdsAreOwn
  BY <1>1, <1>3, <1>4 DEF MemoryIsLatest, IdsAreOwn, SessionsInit
<1>6. \A closed : Remembered(closed)
  BY <1>4 DEF Remembered
<1>. QED BY <1>3, <1>5, <1>6 DEF MemoryInv

\* The types, field by field.
LEMMA MemoryFields ==
  ASSUME SessionsTypeOK
  PROVE  /\ \A s \in DOMAIN generated :
              /\ s \in Connections /\ generated[s] \in [id : Nat, last : Nat]
              /\ generated[s].id \in Nat /\ generated[s].last \in Nat
         /\ \A s \in Connections : latest[s] \in [id : Nat, at : Nat] /\ latest[s].id \in Nat /\ latest[s].at \in Nat
BY DEF SessionsTypeOK

\* A sweep forgets only connections that paused beyond the timeout.
LEMMA Sweeping ==
  ASSUME SessionsTypeOK
  PROVE  /\ DOMAIN Swept \subseteq DOMAIN generated /\ IsFiniteSet(DOMAIN Swept)
         /\ Cardinality(DOMAIN Swept) <= MaxSessions /\ Cardinality(DOMAIN Swept) \in Nat
         /\ \A s \in DOMAIN Swept : Swept[s] = generated[s]
         /\ \A s \in DOMAIN generated \ DOMAIN Swept : time > generated[s].last + Timeout
<1>1. /\ DOMAIN Swept \subseteq DOMAIN generated
      /\ \A s \in DOMAIN Swept : Swept[s] = generated[s]
      /\ \A s \in DOMAIN generated \ DOMAIN Swept : time > generated[s].last + Timeout
  BY DEF Swept, Idle, Restrict
<1>2. /\ IsFiniteSet(DOMAIN Swept) /\ Cardinality(DOMAIN Swept) <= Cardinality(DOMAIN generated)
  BY <1>1, FS_Subset DEF SessionsTypeOK
<1>3. Cardinality(DOMAIN Swept) \in Nat /\ Cardinality(DOMAIN generated) \in Nat
  BY <1>2, FS_CardinalityType DEF SessionsTypeOK
<1>. QED BY <1>1, <1>2, <1>3 DEF SessionsTypeOK

\* There is room for one more.
LEMMA MakingRoom ==
  ASSUME SessionsTypeOK, NEW s \in Connections, NEW out \in Evictable(Swept, s)
  PROVE  /\ out \subseteq DOMAIN Swept /\ s \notin out
         /\ IsFiniteSet((DOMAIN Swept \ out) \cup {s})
         /\ Cardinality((DOMAIN Swept \ out) \cup {s}) <= MaxSessions
<1>. DEFINE D == DOMAIN Swept
<1>0. IsFiniteSet(D) /\ Cardinality(D) <= MaxSessions /\ Cardinality(D) \in Nat
  BY Sweeping
<1>. HIDE DEF D
<1>1. CASE s \in D
  <2>1. out = {}
    BY <1>1 DEF Evictable, D
  <2>2. (D \ out) \cup {s} = D
    BY <1>1, <2>1
  <2>. QED BY <1>0, <2>1, <2>2 DEF D
<1>2. CASE s \notin D /\ Cardinality(D) < MaxSessions
  <2>1. out = {}
    BY <1>2 DEF Evictable, D
  <2>2. IsFiniteSet(D \cup {s}) /\ Cardinality(D \cup {s}) = Cardinality(D) + 1
    BY <1>0, <1>2, FS_AddElement
  <2>3. (D \ out) \cup {s} = D \cup {s}
    BY <2>1
  <2>. QED BY <1>0, <1>2, <2>1, <2>2, <2>3 DEF D
<1>3. CASE s \notin D /\ ~(Cardinality(D) < MaxSessions)
  <2>. PICK o \in D : out = {o}
    BY <1>3 DEF Evictable, D
  <2>1. IsFiniteSet(D \ {o}) /\ Cardinality(D \ {o}) = Cardinality(D) - 1
    BY <1>0, FS_RemoveElement
  <2>2. s \notin D \ {o}
    BY <1>3
  <2>3. IsFiniteSet((D \ {o}) \cup {s}) /\ Cardinality((D \ {o}) \cup {s}) = Cardinality(D) - 1 + 1
    BY <2>1, <2>2, FS_AddElement
  <2>. QED BY <1>0, <1>3, <2>3 DEF D
<1>. QED BY <1>1, <1>2, <1>3

\* What resolve changes.
LEMMA Resolving ==
  ASSUME MemoryInv, NEW s \in Connections, ResolveConnection(s)
  PROVE  \E out \in SUBSET Connections :
           /\ DOMAIN generated' = (DOMAIN Swept \ out) \cup {s} /\ s \notin out
           /\ \A t \in DOMAIN generated' \ {s} : generated'[t] = generated[t] /\ t \in DOMAIN generated
           /\ generated'[s] = [id |-> latest'[s].id, last |-> time] /\ latest'[s].at = time
           /\ \A t \in Connections \ {s} : latest'[t] = latest[t]
           /\ latest' \in [Connections -> [id : Nat, at : Nat]]
           /\ \/ latest'[s].id = ids + 1 /\ ids' = ids + 1
                 /\ (s \in DOMAIN generated => time > latest[s].at + Timeout)
              \/ s \in DOMAIN generated /\ latest'[s].id = latest[s].id /\ ids' = ids
           /\ dropped' = (dropped \cup out) \ {s} /\ time' = time
           /\ lastSweep' \in Nat /\ out \subseteq DOMAIN Swept
           /\ IsFiniteSet(DOMAIN generated') /\ Cardinality(DOMAIN generated') <= MaxSessions
<1>. USE DEF MemoryInv
<1>. PICK out \in Evictable(Swept, s) :
       LET entry == Entry(Swept, s)
           kept == Restrict(Swept, DOMAIN Swept \ out)
       IN  /\ generated' = [t \in DOMAIN kept \cup {s} |-> IF t = s THEN entry ELSE kept[t]]
           /\ lastSweep' = IF Sweeps THEN time ELSE lastSweep
           /\ ids' = IF entry.id > ids THEN ids + 1 ELSE ids
           /\ latest' = [latest EXCEPT ![s] = [id |-> entry.id, at |-> time]]
           /\ dropped' = (dropped \cup out) \ {s}
           /\ UNCHANGED time
  BY DEF ResolveConnection
<1>. DEFINE entry == Entry(Swept, s)
            kept == Restrict(Swept, DOMAIN Swept \ out)
<1>1. DOMAIN kept = DOMAIN Swept \ out /\ \A t \in DOMAIN kept : kept[t] = Swept[t]
  BY DEF Restrict
<1>2. /\ out \subseteq DOMAIN Swept /\ s \notin out /\ IsFiniteSet((DOMAIN Swept \ out) \cup {s})
      /\ Cardinality((DOMAIN Swept \ out) \cup {s}) <= MaxSessions
  BY MakingRoom
<1>3. /\ DOMAIN Swept \subseteq DOMAIN generated /\ (\A t \in DOMAIN Swept : Swept[t] = generated[t])
      /\ \A t \in DOMAIN generated \ DOMAIN Swept : time > generated[t].last + Timeout
  BY Sweeping
<1>4. /\ time \in Nat /\ lastSweep \in Nat /\ ids \in Nat /\ DOMAIN generated \subseteq Connections
      /\ latest \in [Connections -> [id : Nat, at : Nat]]
  BY DEF SessionsTypeOK
<1>5. entry.last = time /\ entry = [id |-> entry.id, last |-> time]
  BY DEF Entry
<1>6. \/ entry.id = ids + 1 /\ (s \in DOMAIN generated => time > latest[s].at + Timeout)
      \/ s \in DOMAIN generated /\ entry.id = latest[s].id
  <2>1. CASE s \notin DOMAIN Swept \/ time > Swept[s].last + Timeout
    <3>1. entry.id = ids + 1
      BY <2>1 DEF Entry
    <3>2. s \in DOMAIN generated => time > generated[s].last + Timeout
      BY <1>3, <2>1
    <3>. QED BY <3>1, <3>2 DEF MemoryIsLatest
  <2>2. CASE ~(s \notin DOMAIN Swept \/ time > Swept[s].last + Timeout)
    <3>1. entry.id = Swept[s].id
      BY <2>2 DEF Entry
    <3>. QED BY <1>3, <2>2, <3>1 DEF MemoryIsLatest
  <2>. QED BY <2>1, <2>2
<1>. HIDE DEF entry, kept
<1>7. /\ generated' = [t \in DOMAIN kept \cup {s} |-> IF t = s THEN entry ELSE kept[t]]
      /\ lastSweep' = IF Sweeps THEN time ELSE lastSweep
      /\ ids' = IF entry.id > ids THEN ids + 1 ELSE ids
      /\ latest' = [latest EXCEPT ![s] = [id |-> entry.id, at |-> time]]
      /\ dropped' = (dropped \cup out) \ {s}
      /\ UNCHANGED time
  BY DEF entry, kept
<1>8. latest[s].id \in Nat /\ latest[s].id <= ids
  BY <1>4, MemoryFields DEF IdsAreOwn
<1>9. entry.id \in Nat /\ (entry.id = ids + 1 => ids' = ids + 1) /\ (entry.id = latest[s].id => ids' = ids)
  BY <1>4, <1>6, <1>7, <1>8
<1>10. /\ latest' \in [Connections -> [id : Nat, at : Nat]] /\ latest'[s] = [id |-> entry.id, at |-> time]
       /\ \A t \in Connections \ {s} : latest'[t] = latest[t]
  BY <1>4, <1>7, <1>9
<1>11. /\ DOMAIN generated' = (DOMAIN Swept \ out) \cup {s} /\ generated'[s] = entry
       /\ \A t \in DOMAIN generated' \ {s} : generated'[t] = generated[t] /\ t \in DOMAIN generated
  BY <1>1, <1>3, <1>7
<1>12. generated'[s] = [id |-> latest'[s].id, last |-> time] /\ latest'[s].at = time /\ latest'[s].id = entry.id
  BY <1>5, <1>10, <1>11
<1>13. out \in SUBSET Connections /\ lastSweep' \in Nat
  BY <1>2, <1>3, <1>4, <1>7
<1>14. IsFiniteSet(DOMAIN generated') /\ Cardinality(DOMAIN generated') <= MaxSessions
  BY <1>2, <1>11
<1>. QED BY <1>2, <1>6, <1>7, <1>9, <1>10, <1>11, <1>12, <1>13, <1>14
\* What no step may break of SessionsAreSteady.
Steady ==
  /\ Cardinality(DOMAIN generated') <= MaxSessions
  /\ \A s \in Connections :
       /\ latest[s].id # 0 /\ latest'[s].id # latest[s].id =>
            s \in dropped \/ time > latest[s].at + Timeout
       /\ \A t \in Connections \ {s} : latest'[s].id # 0 => latest'[s].id # latest'[t].id

\* Remembered, after a step.
RemembersOn(closed) ==
  \A s \in Connections \ closed : latest'[s].id # 0 /\ s \notin DOMAIN generated' =>
    s \in dropped' \/ time' > latest'[s].at + Timeout

\* A connection that is not closed gets its id.
LEMMA ResolveKeeps ==
  ASSUME MemoryInv, NEW closed, Remembered(closed), NEW s \in Connections \ closed, ResolveConnection(s)
  PROVE  MemoryInv' /\ RemembersOn(closed) /\ Steady /\ DOMAIN generated' \subseteq DOMAIN generated \cup {s}
<1>. USE DEF MemoryInv
<1>. PICK out \in SUBSET Connections :
       /\ DOMAIN generated' = (DOMAIN Swept \ out) \cup {s} /\ s \notin out
       /\ \A t \in DOMAIN generated' \ {s} : generated'[t] = generated[t] /\ t \in DOMAIN generated
       /\ generated'[s] = [id |-> latest'[s].id, last |-> time] /\ latest'[s].at = time
       /\ \A t \in Connections \ {s} : latest'[t] = latest[t]
       /\ latest' \in [Connections -> [id : Nat, at : Nat]]
       /\ \/ latest'[s].id = ids + 1 /\ ids' = ids + 1
             /\ (s \in DOMAIN generated => time > latest[s].at + Timeout)
          \/ s \in DOMAIN generated /\ latest'[s].id = latest[s].id /\ ids' = ids
       /\ dropped' = (dropped \cup out) \ {s} /\ time' = time
       /\ lastSweep' \in Nat /\ out \subseteq DOMAIN Swept
       /\ IsFiniteSet(DOMAIN generated') /\ Cardinality(DOMAIN generated') <= MaxSessions
  BY Resolving
<1>0. /\ time \in Nat /\ ids \in Nat /\ DOMAIN generated \subseteq Connections /\ dropped \subseteq Connections
      /\ \A t \in Connections : latest[t].id \in Nat /\ latest[t].at \in Nat /\ latest[t].id <= ids /\ latest[t].at <= time
      /\ \A t \in DOMAIN generated : generated[t] \in [id : Nat, last : Nat]
  BY MemoryFields DEF SessionsTypeOK, IdsAreOwn
<1>1. /\ DOMAIN Swept \subseteq DOMAIN generated
      /\ \A t \in DOMAIN generated \ DOMAIN Swept : time > generated[t].last + Timeout
  BY Sweeping
<1>2. latest'[s].id \in Nat /\ latest'[s] \in [id : Nat, at : Nat]
  OBVIOUS
<1>3. \A t \in DOMAIN generated' : generated'[t] \in [id : Nat, last : Nat]
  BY <1>0, <1>2
<1>4. generated' \in [DOMAIN generated' -> [id : Nat, last : Nat]]
  <2>1. generated' = [t \in DOMAIN generated' |-> generated'[t]]
    BY DEF ResolveConnection
  <2>. QED BY <1>3, <2>1
<1>5. ids' \in Nat /\ time' \in Nat /\ dropped' \subseteq Connections /\ DOMAIN generated' \subseteq Connections
  BY <1>0, <1>1
<1>6. SessionsTypeOK'
  BY <1>4, <1>5 DEF SessionsTypeOK
<1>7. latest'[s].id # 0 /\ latest'[s].id <= ids'
  BY <1>0 DEF MemoryIsLatest
<1>8. MemoryIsLatest'
  <2>1. \A t \in DOMAIN generated' \ {s} : t \in Connections \ {s}
    BY <1>5
  <2>. QED BY <1>7, <2>1 DEF MemoryIsLatest
<1>9. \A t \in Connections \ {s} : latest[t].id # latest'[s].id
  <2>1. latest[s].id # 0 /\ s \in DOMAIN generated => \A t \in Connections \ {s} : latest[t].id # latest[s].id
    BY <1>0 DEF IdsAreOwn
  <2>. QED BY <1>0, <2>1 DEF MemoryIsLatest
<1>10. IdsAreOwn'
  <2>1. \A t \in Connections : latest'[t].id <= ids' /\ latest'[t].at <= time'
    <3>. TAKE t \in Connections
    <3>1. CASE t = s
      BY <1>0, <1>7, <3>1
    <3>2. CASE t # s
      <4>1. latest'[t] = latest[t] /\ latest[t].id <= ids /\ ids \in Nat /\ latest[t].id \in Nat /\ (ids' = ids \/ ids' = ids + 1)
        BY <1>0, <3>2
      <4>2. latest'[t].id <= ids'
        BY <4>1
      <4>. QED BY <1>0, <4>1, <4>2
    <3>. QED BY <3>1, <3>2
  <2>2. \A t \in Connections : \A u \in Connections \ {t} : latest'[t].id # 0 => latest'[t].id # latest'[u].id
    BY <1>9 DEF IdsAreOwn
  <2>. QED BY <2>1, <2>2 DEF IdsAreOwn
<1>11. RemembersOn(closed)
  <2>1. SUFFICES ASSUME NEW t \in Connections \ closed, latest'[t].id # 0, t \notin DOMAIN generated'
                 PROVE  t \in dropped' \/ time' > latest'[t].at + Timeout
    BY DEF RemembersOn
  <2>2. t # s /\ latest'[t] = latest[t]
    BY <2>1
  <2>3. CASE t \in DOMAIN Swept
    BY <2>1, <2>2, <2>3
  <2>4. CASE t \in DOMAIN generated \ DOMAIN Swept
    BY <1>1, <2>2, <2>4 DEF MemoryIsLatest
  <2>5. CASE t \notin DOMAIN generated
    BY <2>1, <2>2, <2>5 DEF Remembered
  <2>. QED BY <2>3, <2>4, <2>5
<1>12. Steady
  <2>1. ASSUME latest[s].id # 0, latest'[s].id # latest[s].id
        PROVE  s \in dropped \/ time > latest[s].at + Timeout
    BY <2>1 DEF Remembered
  <2>2. \A t \in Connections : \A u \in Connections \ {t} : latest'[t].id # 0 => latest'[t].id # latest'[u].id
    BY <1>10 DEF IdsAreOwn
  <2>3. \A t \in Connections : latest[t].id # 0 /\ latest'[t].id # latest[t].id =>
            t \in dropped \/ time > latest[t].at + Timeout
    BY <2>1
  <2>. QED BY <2>2, <2>3 DEF Steady
<1>. QED BY <1>1, <1>6, <1>8, <1>10, <1>11, <1>12

\* The other steps of sessions give no id.
LEMMA TickKeeps ==
  ASSUME MemoryInv, NEW closed, Remembered(closed), Tick
  PROVE  MemoryInv' /\ RemembersOn(closed) /\ Steady
<1>0. /\ time' = time + 1 /\ UNCHANGED <<generated, lastSweep, ids, latest, dropped>> /\ time \in Nat
      /\ \A s \in Connections : latest[s].at \in Nat /\ latest[s].at <= time
  BY MemoryFields DEF Tick, MemoryInv, SessionsTypeOK, IdsAreOwn
<1>1. MemoryInv'
  BY <1>0 DEF MemoryInv, SessionsTypeOK, MemoryIsLatest, IdsAreOwn
<1>2. RemembersOn(closed)
  BY <1>0 DEF RemembersOn, Remembered
<1>3. Steady
  BY <1>0 DEF Steady, MemoryInv, SessionsTypeOK, IdsAreOwn
<1>. QED BY <1>1, <1>2, <1>3

LEMMA RestKeeps ==
  ASSUME MemoryInv, NEW closed, Remembered(closed), UNCHANGED sessionVars
  PROVE  MemoryInv' /\ RemembersOn(closed) /\ Steady
BY DEF MemoryInv, SessionsTypeOK, MemoryIsLatest, IdsAreOwn, RemembersOn, Remembered, Steady, sessionVars

LEMMA TouchKeeps ==
  ASSUME MemoryInv, NEW closed, Remembered(closed), NEW s, Touch(s)
  PROVE  MemoryInv' /\ RemembersOn(closed) /\ Steady /\ DOMAIN generated' = DOMAIN generated
<1>1. CASE s \notin DOMAIN generated
  BY <1>1, RestKeeps DEF Touch, sessionVars
<1>2. CASE s \in DOMAIN generated
  <2>0. /\ generated' = [generated EXCEPT ![s].last = time] /\ latest' = [latest EXCEPT ![s].at = time]
        /\ UNCHANGED <<time, lastSweep, ids, dropped>>
        /\ time \in Nat /\ s \in Connections /\ generated[s] \in [id : Nat, last : Nat] /\ latest[s] \in [id : Nat, at : Nat]
        /\ latest \in [Connections -> [id : Nat, at : Nat]] /\ generated \in [DOMAIN generated -> [id : Nat, last : Nat]]
    BY <1>2, MemoryFields DEF Touch, MemoryInv, SessionsTypeOK
  <2>. DEFINE known == [generated[s] EXCEPT !.last = time]
              activity == [latest[s] EXCEPT !.at = time]
  <2>1. known \in [id : Nat, last : Nat] /\ known.id = generated[s].id /\ known.last = time
    BY <2>0
  <2>2. activity \in [id : Nat, at : Nat] /\ activity.id = latest[s].id /\ activity.at = time
    BY <2>0
  <2>3. generated' = [generated EXCEPT ![s] = known] /\ latest' = [latest EXCEPT ![s] = activity]
    BY <2>0
  <2>. HIDE DEF known, activity
  <2>4. /\ DOMAIN generated' = DOMAIN generated /\ generated' \in [DOMAIN generated -> [id : Nat, last : Nat]]
        /\ latest' \in [Connections -> [id : Nat, at : Nat]]
        /\ \A t \in DOMAIN generated : generated'[t] = IF t = s THEN known ELSE generated[t]
        /\ \A t \in Connections : latest'[t] = IF t = s THEN activity ELSE latest[t]
    <3>1. DOMAIN generated' = DOMAIN generated
      BY <2>3
    <3>2. \A t \in DOMAIN generated : generated'[t] = IF t = s THEN known ELSE generated[t]
      BY <2>3
    <3>. DEFINE D == DOMAIN generated
    <3>3. generated \in [D -> [id : Nat, last : Nat]]
      BY <2>0
    <3>. HIDE DEF D
    <3>4. generated' \in [D -> [id : Nat, last : Nat]]
      BY <2>1, <2>3, <3>3
    <3>5. latest' \in [Connections -> [id : Nat, at : Nat]] /\ \A t \in Connections : latest'[t] = IF t = s THEN activity ELSE latest[t]
      BY <2>0, <2>2, <2>3
    <3>. QED BY <3>1, <3>2, <3>4, <3>5 DEF D
  <2>5. SessionsTypeOK'
    BY <2>0, <2>4 DEF MemoryInv, SessionsTypeOK
  <2>6. MemoryIsLatest'
    BY <2>1, <2>2, <2>4 DEF MemoryInv, SessionsTypeOK, MemoryIsLatest
  <2>7. \A t \in Connections : latest'[t].id = latest[t].id /\ latest'[t].at <= time
    BY <2>0, <2>2, <2>4 DEF MemoryInv, IdsAreOwn
  <2>8. IdsAreOwn'
    BY <2>0, <2>7 DEF MemoryInv, IdsAreOwn
  <2>9. RemembersOn(closed)
    BY <1>2, <2>0, <2>4 DEF RemembersOn, Remembered
  <2>10. Steady
    BY <2>0, <2>4, <2>7 DEF Steady, MemoryInv, SessionsTypeOK, IdsAreOwn
  <2>. QED BY <2>4, <2>5, <2>6, <2>8, <2>9, <2>10 DEF MemoryInv
<1>. QED BY <1>1, <1>2

LEMMA ResolveEither ==
  ASSUME MemoryInv, NEW closed, Remembered(closed), NEW s, s \notin closed, Resolve(s)
  PROVE  MemoryInv' /\ RemembersOn(closed) /\ Steady /\ DOMAIN generated' \subseteq DOMAIN generated \cup ({s} \cap Connections)
<1>1. CASE s \in Connections
  BY <1>1, ResolveKeeps DEF Resolve
<1>2. CASE s \notin Connections
  <2>1. UNCHANGED sessionVars
    BY <1>2 DEF Resolve
  <2>. QED BY <2>1, RestKeeps DEF sessionVars
<1>. QED BY <1>1, <1>2

--------------------------------------------------------------------------
(* Calls through the middleware for go-sdk servers.                        *)

\* A call that runs has a handle of its own, the one it echoes, or none.
RequestsAreSound ==
  /\ handles \in Nat /\ DOMAIN held = Sessions /\ DOMAIN request = Calls
  /\ \A c \in Calls : request[c].at = "called" =>
       /\ request[c].session \in Sessions
       /\ request[c].minted \in BOOLEAN
       /\ request[c].minted => /\ Injects(request[c].tool) /\ request[c].echo = None
                              /\ request[c].handle # None
       /\ ~request[c].minted => request[c].handle = IF Injects(request[c].tool) THEN request[c].echo ELSE None

CallsInv == RequestsAreSound /\ EventsNameKnownConversations

LEMMA CallsInvInit == CallsInit => CallsInv
<1>. SUFFICES ASSUME CallsInit PROVE CallsInv
  OBVIOUS
<1>1. \A c \in Calls : request[c].at = "idle"
  BY DEF CallsInit, Free
<1>2. RequestsAreSound
  BY <1>1 DEF CallsInit, RequestsAreSound
<1>3. event.handle = None /\ event.echo = None
  BY DEF CallsInit, NoEvent
<1>4. EventsNameKnownConversations
  BY <1>3 DEF EventsNameKnownConversations
<1>. QED BY <1>2, <1>4 DEF CallsInv

LEMMA Preparing ==
  ASSUME CallsInv, NEW c \in Calls, Prepare(c)
  PROVE  CallsInv'
<1>. PICK s \in Sessions, tool \in Tools, echo \in {None, Invented} \cup UNION Range(held) :
       LET mints == Injects(tool) /\ echo = None /\ ~CarriesSession(s)
       IN  /\ handles' = IF mints THEN handles + 1 ELSE handles
           /\ request' = [request EXCEPT ![c] =
                [at |-> "called", session |-> s, tool |-> tool, echo |-> echo, minted |-> mints,
                 handle |-> IF mints THEN handles + 1 ELSE IF Injects(tool) THEN echo ELSE None]]
  BY DEF Prepare
<1>. DEFINE mints == Injects(tool) /\ echo = None /\ ~CarriesSession(s)
            handle == IF mints THEN handles + 1 ELSE IF Injects(tool) THEN echo ELSE None
            call == [at |-> "called", session |-> s, tool |-> tool, echo |-> echo, minted |-> mints, handle |-> handle]
<1>1. mints \in BOOLEAN /\ (mints => Injects(tool) /\ echo = None)
  BY DEF Injects
<1>2. (mints => handle # None) /\ (~mints => handle = IF Injects(tool) THEN echo ELSE None)
  BY DEF CallsInv, RequestsAreSound, None
<1>3. handles' \in Nat
  BY DEF CallsInv, RequestsAreSound
<1>4. /\ call.session = s /\ call.tool = tool /\ call.echo = echo /\ call.minted = mints /\ call.handle = handle
      /\ request' = [request EXCEPT ![c] = call]
  OBVIOUS
<1>. HIDE DEF call, handle, mints
<1>5. \A d \in Calls : request'[d] = IF d = c THEN call ELSE request[d]
  BY <1>4 DEF CallsInv, RequestsAreSound
<1>6. held' = held /\ DOMAIN request' = DOMAIN request
  BY <1>4 DEF Prepare
<1>7. RequestsAreSound'
  BY <1>1, <1>2, <1>3, <1>4, <1>5, <1>6 DEF CallsInv, RequestsAreSound
<1>8. event'.handle = None /\ event'.echo = None
  BY DEF Prepare, NoEvent
<1>9. EventsNameKnownConversations'
  BY <1>8 DEF EventsNameKnownConversations
<1>. QED BY <1>7, <1>9 DEF CallsInv

LEMMA Finishing ==
  ASSUME CallsInv, NEW c \in Calls, Finish(c)
  PROVE  CallsInv'
<1>. DEFINE call == request[c]
<1>. PICK o \in Outcomes :
       /\ held' = IF Carries(call, o) THEN [held EXCEPT ![call.session] = @ \cup {call.handle}] ELSE held
       /\ event' = IF o = "odd" THEN event
                   ELSE [kind |-> Kind(call, o), session |-> call.session,
                         tool |-> call.tool, echo |-> call.echo, handle |-> ReportedHandle(call, o)]
  BY DEF Finish
<1>0. /\ handles \in Nat /\ DOMAIN held = Sessions /\ DOMAIN request = Calls
      /\ call.session \in Sessions /\ call.minted \in BOOLEAN
      /\ call.minted => Injects(call.tool) /\ call.echo = None /\ call.handle # None
      /\ ~call.minted => call.handle = IF Injects(call.tool) THEN call.echo ELSE None
  BY DEF Finish, CallsInv, RequestsAreSound
<1>1. RequestsAreSound'
  <2>1. request' = [request EXCEPT ![c] = Free] /\ Free.at = "idle" /\ handles' = handles
    BY DEF Finish, Free
  <2>2. DOMAIN held' = Sessions
    BY <1>0
  <2>3. \A d \in Calls : d # c => request'[d] = request[d]
    BY <1>0, <2>1
  <2>4. request'[c].at = "idle" /\ DOMAIN request' = Calls
    BY <1>0, <2>1
  <2>. QED BY <1>0, <2>1, <2>2, <2>3, <2>4 DEF CallsInv, RequestsAreSound
<1>2. CASE o = "odd"
  <2>1. event' = event /\ held' = held
    BY <1>2 DEF Carries, Missing
  <2>2. EventsNameKnownConversations'
    BY <2>1 DEF CallsInv, EventsNameKnownConversations
  <2>. QED BY <1>1, <2>2 DEF CallsInv
<1>3. CASE o # "odd"
  <2>1. /\ event'.session = call.session /\ event'.tool = call.tool /\ event'.echo = call.echo
        /\ event'.handle = ReportedHandle(call, o) /\ event'.kind = Kind(call, o)
    BY <1>3
  <2>2. Carries(call, o) => call.handle \in held'[call.session]
    BY <1>0
  <2>3. ReportedHandle(call, o) # None =>
          ReportedHandle(call, o) = call.echo \/ ReportedHandle(call, o) \in held'[call.session]
    BY <1>0, <2>2 DEF ReportedHandle
  <2>4. Kind(call, o) = "unknown_tool" => o = "unknown"
    <3>1. SUFFICES ASSUME o # "unknown" PROVE Kind(call, o) # "unknown_tool"
      OBVIOUS
    <3>2. ~Missing(call, o)
      BY <3>1 DEF Missing
    <3>3. CASE o = "input"
      BY <3>2, <3>3 DEF Kind
    <3>4. CASE o \in {"result", "error", "nil"}
      BY <3>2, <3>4 DEF Kind
    <3>. QED BY <1>3, <3>1, <3>3, <3>4 DEF Outcomes
  <2>5. call.echo # None /\ (Injects(call.tool) \/ o = "unknown") => ReportedHandle(call, o) = call.echo
    <3>1. SUFFICES ASSUME call.echo # None, Injects(call.tool) \/ o = "unknown"
                   PROVE  ReportedHandle(call, o) = call.echo
      OBVIOUS
    <3>2. ~call.minted /\ call.handle = IF Injects(call.tool) THEN call.echo ELSE None
      BY <1>0, <3>1
    <3>. QED BY <3>1, <3>2 DEF ReportedHandle
  <2>6. EventsNameKnownConversations'
    BY <2>1, <2>3, <2>4, <2>5 DEF EventsNameKnownConversations
  <2>. QED BY <1>1, <2>6 DEF CallsInv
<1>. QED BY <1>2, <1>3

LEMMA CallsInvNext == CallsInv /\ [CallsNext \/ CallsTick]_callVars => CallsInv'
<1>1. CallsInv /\ UNCHANGED <<handles, held, request, event>> => CallsInv'
  BY DEF CallsInv, RequestsAreSound, EventsNameKnownConversations
<1>. QED BY <1>1, Preparing, Finishing DEF CallsNext, CallsTick, callVars

\* No event names a conversation that its agent was not given and did not echo, and
\* the calls that echo one are reported with it: however the calls end.
THEOREM ConversationsAreKnown == CallsSpec => []EventsNameKnownConversations
<1>1. CallsInv => EventsNameKnownConversations
  BY DEF CallsInv
<1>. QED BY <1>1, CallsInvInit, CallsInvNext, PTL DEF CallsSpec

\* The sessions of go-sdk servers, after a step.
LEMMA CallsKeepSessions ==
  ASSUME MemoryInv, Remembered({}), [CallsNext \/ CallsTick]_callVars
  PROVE  MemoryInv' /\ Remembered({})' /\ Steady
<1>1. RemembersOn({}) => Remembered({})'
  BY DEF RemembersOn, Remembered
<1>2. UNCHANGED sessionVars \/ Tick \/ \E s : Resolve(s)
  BY DEF CallsNext, CallsTick, callVars, Prepare, Finish
<1>. QED BY <1>1, <1>2, RestKeeps, TickKeeps, ResolveEither

\* The id of a connection to a go-sdk server lasts while it is used, and is its own.
THEOREM CallsKeepTheirSession == CallsSpec => SessionsAreSteady
<1>1. CallsInit => MemoryInv /\ Remembered({})
  BY MemoryInit DEF CallsInit
<1>2. MemoryInv /\ Remembered({}) /\ [CallsNext \/ CallsTick]_callVars => MemoryInv' /\ Remembered({})'
  BY CallsKeepSessions
<1>3. MemoryInv /\ Remembered({}) /\ [CallsNext \/ CallsTick]_callVars => [Steady]_sessionVars
  BY CallsKeepSessions
<1>. QED BY <1>1, <1>2, <1>3, PTL DEF CallsSpec, SessionsAreSteady, Steady

--------------------------------------------------------------------------
(* Calls through the hooks and the middleware of mcp-go servers.           *)

Stages == {"new", "arrived", "denied", "handling", "tasked", "returned", "answered", "panicked"}

FlightTypeOK ==
  /\ hooksKept \in BOOLEAN /\ open \subseteq Connections
  /\ inFlight \in Seq(GoCalls)
  /\ goCall \in [GoCalls -> [at : Stages, session : Sessions \cup {NewCall.session}, kind : Kinds]]
  /\ captured \in [GoCalls -> Nat]

NoneTwice == \A i, j \in DOMAIN inFlight : inFlight[i] = inFlight[j] => i = j

\* What the hooks know of a call, and what was reported of it.
CallInv(c) ==
  LET call == goCall[c]
  IN  /\ c \in Range(inFlight) =>
           hooksKept /\ call.at \notin {"new", "answered"} /\ (call.at # "panicked" => call.kind \in Wrapped)
      /\ hooksKept /\ call.kind = "tool" /\ call.at \in {"arrived", "denied", "handling", "returned"}
           /\ c \notin outdated => c \in Range(inFlight)
      /\ call.at \in {"handling", "returned"} => call.kind # "task"
      /\ call.at = "tasked" => call.kind = "task"
      /\ captured[c] # 0 =>
           /\ captured[c] = 1 /\ call.kind \in Wrapped
           /\ IF hooksKept THEN call.at = "answered" ELSE call.at \in {"returned", "answered"}
      /\ hooksKept /\ call.kind = "tool" /\ call.at = "answered" /\ c \notin outdated => captured[c] = 1
      /\ ~hooksKept /\ call.kind = "tool" /\ call.at = "returned" => captured[c] = 1

FlightInv == FlightTypeOK /\ NoneTwice /\ \A c \in GoCalls : CallInv(c)

LEMMA FlightInit == GoInit => FlightInv
<1>. SUFFICES ASSUME GoInit PROVE FlightInv
  OBVIOUS
<1>1. NewCall \in [at : Stages, session : Sessions \cup {NewCall.session}, kind : Kinds] /\ NewCall.at = "new"
  BY DEF NewCall, Stages, Kinds
<1>2. inFlight = <<>> /\ Range(inFlight) = {} /\ DOMAIN inFlight = {}
  BY DEF GoInit, Range
<1>3. FlightTypeOK
  BY <1>1, <1>2 DEF GoInit, FlightTypeOK
<1>4. \A c \in GoCalls : CallInv(c)
  BY <1>1, <1>2 DEF GoInit, CallInv
<1>. QED BY <1>2, <1>3, <1>4 DEF FlightInv, NoneTwice

\* A call that starts is tracked; one that it pushes out is outdated.
LEMMA Starting ==
  ASSUME FlightTypeOK, NoneTwice, NEW c \in GoCalls, c \notin Range(inFlight), Start(c)
  PROVE  /\ inFlight' \in Seq(GoCalls) /\ NoneTwice'
         /\ c \in Range(inFlight')
         /\ \A d \in GoCalls \ {c} :
              /\ d \in Range(inFlight') => d \in Range(inFlight)
              /\ d \in Range(inFlight) => d \in Range(inFlight') \/ d \in outdated'
              /\ d \in outdated => d \in outdated'
<1>. DEFINE full == Len(inFlight) >= MaxInFlight
            kept == IF full THEN Tail(inFlight) ELSE inFlight
            k == IF full THEN 1 ELSE 0
<1>1. inFlight' = Append(kept, c)
  BY DEF Start
<1>2. inFlight \in Seq(GoCalls) /\ Len(inFlight) \in Nat /\ DOMAIN inFlight = 1..Len(inFlight)
  BY LenProperties DEF FlightTypeOK
<1>3. /\ kept \in Seq(GoCalls) /\ Len(kept) = Len(inFlight) - k /\ DOMAIN kept = 1..Len(kept)
      /\ \A i \in 1..Len(kept) : kept[i] = inFlight[i + k]
  <2>1. CASE full
    <3>1. inFlight # <<>>
      BY <1>2, <2>1
    <3>. QED BY <1>2, <2>1, <3>1, HeadTailProperties, LenProperties
  <2>2. CASE ~full
    BY <1>2, <2>2
  <2>. QED BY <2>1, <2>2
<1>4. full => outdated' = (outdated \cup {inFlight[1]}) \ {c}
  BY <1>2 DEF Start
<1>5. ~full => outdated' = outdated \ {c}
  BY DEF Start
<1>6. k \in {0, 1} /\ (k = 1 <=> full)
  OBVIOUS
<1>. HIDE DEF full, kept, k
<1>7. /\ inFlight' \in Seq(GoCalls) /\ Len(inFlight') = Len(kept) + 1 /\ DOMAIN inFlight' = 1..Len(kept) + 1
      /\ \A i \in 1..Len(kept) : inFlight'[i] = inFlight[i + k]
      /\ inFlight'[Len(kept) + 1] = c
  BY <1>1, <1>3, AppendProperties, LenProperties
<1>8. Len(kept) \in Nat
  BY <1>3, LenProperties
<1>9. \A i \in 1..Len(kept) : i + k \in DOMAIN inFlight
  BY <1>2, <1>3, <1>6, <1>8
<1>10. NoneTwice'
  <2>1. SUFFICES ASSUME NEW i \in DOMAIN inFlight', NEW j \in DOMAIN inFlight', inFlight'[i] = inFlight'[j]
                 PROVE  i = j
    BY DEF NoneTwice
  <2>2. i \in 1..Len(kept) \/ i = Len(kept) + 1
    BY <1>7, <1>8
  <2>3. j \in 1..Len(kept) \/ j = Len(kept) + 1
    BY <1>7, <1>8
  <2>4. \A n \in 1..Len(kept) : inFlight'[n] # c
    BY <1>7, <1>9 DEF Range
  <2>5. CASE i \in 1..Len(kept) /\ j \in 1..Len(kept)
    <3>1. i + k = j + k
      BY <1>7, <1>9, <2>1, <2>5 DEF NoneTwice
    <3>. QED BY <1>6, <1>8, <2>5, <3>1
  <2>. QED BY <1>7, <2>1, <2>2, <2>3, <2>4, <2>5
<1>11. c \in Range(inFlight')
  BY <1>7, <1>8 DEF Range
<1>12. ASSUME NEW d \in GoCalls \ {c}
       PROVE  /\ d \in Range(inFlight') => d \in Range(inFlight)
              /\ d \in Range(inFlight) => d \in Range(inFlight') \/ d \in outdated'
              /\ d \in outdated => d \in outdated'
  <2>1. ASSUME d \in Range(inFlight') PROVE d \in Range(inFlight)
    <3>. PICK i \in DOMAIN inFlight' : inFlight'[i] = d
      BY <2>1 DEF Range
    <3>1. i \in 1..Len(kept)
      BY <1>7, <1>8
    <3>. QED BY <1>7, <1>9, <3>1 DEF Range
  <2>2. ASSUME d \in Range(inFlight) PROVE d \in Range(inFlight') \/ d \in outdated'
    <3>. PICK i \in DOMAIN inFlight : inFlight[i] = d
      BY <2>2 DEF Range
    <3>1. CASE full /\ i = 1
      BY <1>4, <3>1
    <3>2. CASE ~(full /\ i = 1)
      <4>1. i - k \in 1..Len(kept) /\ i - k + k = i
        BY <1>2, <1>3, <1>6, <1>8, <3>2
      <4>2. inFlight'[i - k] = d /\ i - k \in DOMAIN inFlight'
        BY <1>7, <1>8, <4>1
      <4>. QED BY <4>2 DEF Range
    <3>. QED BY <3>1, <3>2
  <2>3. d \in outdated => d \in outdated'
    BY <1>4, <1>5
  <2>. QED BY <2>1, <2>2, <2>3
<1>. QED BY <1>7, <1>10, <1>11, <1>12

\* A call that is answered is tracked no longer, and every other is.
LEMMA Untracking ==
  ASSUME FlightTypeOK, NoneTwice, NEW c \in GoCalls, c \in Range(inFlight), inFlight' = Finished(c)
  PROVE  inFlight' \in Seq(GoCalls) /\ NoneTwice' /\ Range(inFlight') = Range(inFlight) \ {c}
<1>. DEFINE p == CHOOSE i \in DOMAIN inFlight : inFlight[i] = c
            n == Len(inFlight)
            before == SubSeq(inFlight, 1, p - 1)
            after == SubSeq(inFlight, p + 1, n)
<1>1. p \in DOMAIN inFlight /\ inFlight[p] = c
  BY DEF Range
<1>2. n \in Nat /\ DOMAIN inFlight = 1..n /\ \A i \in 1..n : inFlight[i] \in GoCalls
  BY LenProperties, ElementOfSeq DEF FlightTypeOK
<1>3. inFlight' = before \o after
  BY DEF Finished, RemoveAt
<1>. HIDE DEF p
<1>4. /\ before \in Seq(GoCalls) /\ Len(before) = p - 1
      /\ \A i \in 1..p - 1 : before[i] = inFlight[i]
  <2>1. 1 \in Int /\ p - 1 \in Int /\ p \in Nat \ {0} /\ \A i \in 1..p - 1 : inFlight[i] \in GoCalls
    BY <1>1, <1>2
  <2>2. /\ before \in Seq(GoCalls) /\ Len(before) = IF 1 <= p - 1 THEN p - 1 - 1 + 1 ELSE 0
        /\ \A i \in 1..p - 1 - 1 + 1 : before[i] = inFlight[1 + i - 1]
    BY <2>1, SubSeqProperties
  <2>. QED BY <2>1, <2>2
<1>5. /\ after \in Seq(GoCalls) /\ Len(after) = n - p
      /\ \A i \in 1..n - p : after[i] = inFlight[p + i]
  <2>1. p + 1 \in Int /\ n \in Int /\ p \in 1..n /\ \A i \in p + 1..n : inFlight[i] \in GoCalls
    BY <1>1, <1>2
  <2>2. /\ after \in Seq(GoCalls) /\ Len(after) = IF p + 1 <= n THEN n - (p + 1) + 1 ELSE 0
        /\ \A i \in 1..n - (p + 1) + 1 : after[i] = inFlight[p + 1 + i - 1]
    BY <2>1, SubSeqProperties
  <2>. QED BY <2>1, <2>2
<1>6. p \in 1..n
  BY <1>1, <1>2
<1>. HIDE DEF before, after, n
<1>7. /\ inFlight' \in Seq(GoCalls) /\ Len(inFlight') = n - 1 /\ DOMAIN inFlight' = 1..n - 1
      /\ \A i \in 1..n - 1 : inFlight'[i] = inFlight[IF i < p THEN i ELSE i + 1]
  <2>1. /\ inFlight' \in Seq(GoCalls) /\ Len(inFlight') = p - 1 + (n - p)
        /\ \A i \in 1..p - 1 + (n - p) : inFlight'[i] = IF i <= p - 1 THEN before[i] ELSE after[i - (p - 1)]
    BY <1>3, <1>4, <1>5, ConcatProperties
  <2>2. p - 1 + (n - p) = n - 1
    BY <1>2, <1>6
  <2>3. ASSUME NEW i \in 1..n - 1 PROVE inFlight'[i] = inFlight[IF i < p THEN i ELSE i + 1]
    <3>1. CASE i < p
      BY <1>2, <1>4, <1>6, <2>1, <2>2, <3>1
    <3>2. CASE ~(i < p)
      <4>1. i - (p - 1) \in 1..n - p /\ p + (i - (p - 1)) = i + 1 /\ ~(i <= p - 1)
        BY <1>2, <1>6, <3>2
      <4>. QED BY <1>5, <2>1, <2>2, <3>2, <4>1
    <3>. QED BY <3>1, <3>2
  <2>. QED BY <2>1, <2>2, <2>3, LenProperties
<1>8. \A i \in 1..n - 1 : (IF i < p THEN i ELSE i + 1) \in DOMAIN inFlight \ {p}
  BY <1>2, <1>6
<1>9. NoneTwice'
  <2>1. SUFFICES ASSUME NEW i \in DOMAIN inFlight', NEW j \in DOMAIN inFlight', inFlight'[i] = inFlight'[j]
                 PROVE  i = j
    BY DEF NoneTwice
  <2>2. (IF i < p THEN i ELSE i + 1) = (IF j < p THEN j ELSE j + 1)
    BY <1>7, <1>8, <2>1 DEF NoneTwice
  <2>. QED BY <1>2, <1>6, <1>7, <2>2
<1>10. ASSUME NEW d \in Range(inFlight') PROVE d \in Range(inFlight) \ {c}
  <2>. PICK i \in 1..n - 1 : inFlight'[i] = d
    BY <1>7 DEF Range
  <2>. DEFINE j == IF i < p THEN i ELSE i + 1
  <2>1. j \in DOMAIN inFlight \ {p} /\ inFlight[j] = d
    BY <1>7, <1>8
  <2>. HIDE DEF j
  <2>2. d # c
    BY <1>1, <2>1 DEF NoneTwice
  <2>. QED BY <2>1, <2>2 DEF Range
<1>11. ASSUME NEW d \in Range(inFlight) \ {c} PROVE d \in Range(inFlight')
  <2>. PICK j \in 1..n : inFlight[j] = d
    BY <1>2 DEF Range
  <2>1. j # p
    BY <1>1
  <2>. DEFINE i == IF j < p THEN j ELSE j - 1
  <2>2. i \in 1..n - 1 /\ (IF i < p THEN i ELSE i + 1) = j
    BY <1>2, <1>6, <2>1
  <2>. HIDE DEF i
  <2>3. inFlight'[i] = d /\ i \in DOMAIN inFlight'
    BY <1>7, <2>2
  <2>. QED BY <2>3 DEF Range
<1>. QED BY <1>7, <1>9, <1>10, <1>11

\* The calls a step leaves alone.
LEMMA OtherCalls ==
  ASSUME NEW d \in GoCalls, CallInv(d), goCall'[d] = goCall[d], captured'[d] = captured[d], hooksKept' = hooksKept,
         d \in Range(inFlight') => d \in Range(inFlight),
         d \in Range(inFlight) => d \in Range(inFlight') \/ d \in outdated',
         d \in outdated => d \in outdated'
  PROVE  CallInv(d)'
BY DEF CallInv

LEMMA ArriveKeeps ==
  ASSUME FlightInv, NEW c \in GoCalls, Arrive(c)
  PROVE  FlightInv'
<1>. PICK s \in open \cup Transports \cup Stateless, k \in Kinds :
       /\ goCall' = [goCall EXCEPT ![c] = [at |-> "arrived", session |-> s, kind |-> k]]
       /\ IF hooksKept /\ k \in Wrapped
          THEN Resolve(s) /\ Start(c)
          ELSE outdated' = outdated \ {c} /\ UNCHANGED <<sessionVars, inFlight>>
  BY DEF Arrive
<1>1. /\ c \notin Range(inFlight) /\ captured' = [captured EXCEPT ![c] = 0] /\ UNCHANGED <<hooksKept, open>>
      /\ FlightTypeOK /\ NoneTwice /\ \A d \in GoCalls : CallInv(d)
  BY DEF Arrive, FlightInv
<1>. DEFINE call == [at |-> "arrived", session |-> s, kind |-> k]
<1>2. call \in [at : Stages, session : Sessions \cup {NewCall.session}, kind : Kinds]
  BY <1>1 DEF Stages, FlightTypeOK, Sessions
<1>3. call.at = "arrived" /\ call.kind = k /\ goCall' = [goCall EXCEPT ![c] = call]
  OBVIOUS
<1>. HIDE DEF call
<1>4. /\ goCall' \in [GoCalls -> [at : Stages, session : Sessions \cup {NewCall.session}, kind : Kinds]]
      /\ goCall'[c] = call /\ \A d \in GoCalls \ {c} : goCall'[d] = goCall[d]
  BY <1>1, <1>2, <1>3 DEF FlightTypeOK
<1>5. captured' \in [GoCalls -> Nat] /\ captured'[c] = 0 /\ \A d \in GoCalls \ {c} : captured'[d] = captured[d]
  BY <1>1 DEF FlightTypeOK
<1>6. /\ inFlight' \in Seq(GoCalls) /\ NoneTwice'
      /\ (c \in Range(inFlight') <=> hooksKept /\ k \in Wrapped)
      /\ \A d \in GoCalls \ {c} :
           /\ d \in Range(inFlight') => d \in Range(inFlight)
           /\ d \in Range(inFlight) => d \in Range(inFlight') \/ d \in outdated'
           /\ d \in outdated => d \in outdated'
  <2>1. CASE hooksKept /\ k \in Wrapped
    BY <1>1, <2>1, Starting
  <2>2. CASE ~(hooksKept /\ k \in Wrapped)
    BY <1>1, <2>2 DEF FlightTypeOK, NoneTwice
  <2>. QED BY <2>1, <2>2
<1>7. FlightTypeOK'
  BY <1>1, <1>4, <1>5, <1>6 DEF FlightTypeOK
<1>8. CallInv(c)'
  BY <1>1, <1>3, <1>4, <1>5, <1>6 DEF CallInv, Wrapped
<1>9. \A d \in GoCalls \ {c} : CallInv(d)'
  BY <1>1, <1>4, <1>5, <1>6, OtherCalls
<1>. QED BY <1>6, <1>7, <1>8, <1>9 DEF FlightInv

\* A step of a call that leaves those in flight.
LEMMA Proceeding ==
  ASSUME FlightInv, NEW c \in GoCalls, NEW call \in [at : Stages, session : Sessions \cup {NewCall.session}, kind : Kinds],
         goCall' = [goCall EXCEPT ![c] = call], UNCHANGED <<hooksKept, open, inFlight, outdated>>,
         captured' \in [GoCalls -> Nat], \A d \in GoCalls \ {c} : captured'[d] = captured[d],
         goCall'[c] = call => CallInv(c)'
  PROVE  FlightInv'
<1>1. FlightTypeOK /\ NoneTwice /\ \A d \in GoCalls : CallInv(d)
  BY DEF FlightInv
<1>2. /\ goCall' \in [GoCalls -> [at : Stages, session : Sessions \cup {NewCall.session}, kind : Kinds]]
      /\ goCall'[c] = call /\ \A d \in GoCalls \ {c} : goCall'[d] = goCall[d]
  BY <1>1 DEF FlightTypeOK
<1>3. FlightTypeOK' /\ NoneTwice'
  BY <1>1, <1>2 DEF FlightTypeOK, NoneTwice
<1>4. \A d \in GoCalls \ {c} : CallInv(d)'
  BY <1>1, <1>2, OtherCalls
<1>. QED BY <1>2, <1>3, <1>4 DEF FlightInv

\* What advances is the stage of a call.
LEMMA Advancing ==
  ASSUME FlightInv, NEW c \in GoCalls, NEW stage \in Stages, Advance(c, stage)
  PROVE  \E call \in [at : Stages, session : Sessions \cup {NewCall.session}, kind : Kinds] :
           goCall' = [goCall EXCEPT ![c] = call] /\ call.at = stage /\ call.kind = goCall[c].kind
<1>1. goCall[c] \in [at : Stages, session : Sessions \cup {NewCall.session}, kind : Kinds]
  BY DEF FlightInv, FlightTypeOK
<1>. DEFINE call == [goCall[c] EXCEPT !.at = stage]
<1>2. call \in [at : Stages, session : Sessions \cup {NewCall.session}, kind : Kinds] /\ call.at = stage /\ call.kind = goCall[c].kind
  BY <1>1
<1>3. goCall' = [goCall EXCEPT ![c] = call]
  BY DEF Advance
<1>. QED BY <1>2, <1>3

\* One more event, or none.
LEMMA Counting ==
  ASSUME FlightInv, NEW c \in GoCalls
  PROVE  /\ Observe(c) => /\ captured' \in [GoCalls -> Nat] /\ captured'[c] = captured[c] + 1
                          /\ \A d \in GoCalls \ {c} : captured'[d] = captured[d]
         /\ captured' = captured => /\ captured' \in [GoCalls -> Nat] /\ captured'[c] = captured[c]
                                    /\ \A d \in GoCalls \ {c} : captured'[d] = captured[d]
         /\ captured[c] \in Nat
BY DEF FlightInv, FlightTypeOK, Observe

LEMMA DenyKeeps ==
  ASSUME FlightInv, NEW c \in GoCalls, Deny(c)
  PROVE  FlightInv'
<1>1. /\ goCall[c].at = "arrived" /\ Advance(c, "denied") /\ captured' = captured
      /\ UNCHANGED <<hooksKept, open, inFlight, outdated>> /\ "denied" \in Stages /\ CallInv(c)
  BY DEF Deny, FlightInv, Stages
<1>. PICK call \in [at : Stages, session : Sessions \cup {NewCall.session}, kind : Kinds] :
       goCall' = [goCall EXCEPT ![c] = call] /\ call.at = "denied" /\ call.kind = goCall[c].kind
  BY <1>1, Advancing
<1>2. goCall'[c] = call => CallInv(c)'
  BY <1>1 DEF CallInv
<1>. QED BY <1>1, <1>2, Counting, Proceeding

LEMMA EnterKeeps ==
  ASSUME FlightInv, NEW c \in GoCalls, Enter(c)
  PROVE  FlightInv'
<1>. DEFINE stage == IF goCall[c].kind = "task" THEN "tasked" ELSE "handling"
<1>1. /\ goCall[c].at = "arrived" /\ Advance(c, stage) /\ captured' = captured
      /\ UNCHANGED <<hooksKept, open, inFlight, outdated>> /\ stage \in Stages /\ CallInv(c)
  BY DEF Enter, FlightInv, Stages
<1>. PICK call \in [at : Stages, session : Sessions \cup {NewCall.session}, kind : Kinds] :
       goCall' = [goCall EXCEPT ![c] = call] /\ call.at = stage /\ call.kind = goCall[c].kind
  BY <1>1, Advancing
<1>2. goCall'[c] = call => CallInv(c)'
  BY <1>1 DEF CallInv
<1>. QED BY <1>1, <1>2, Counting, Proceeding

LEMMA HandlerReturnsKeeps ==
  ASSUME FlightInv, NEW c \in GoCalls, HandlerReturns(c)
  PROVE  FlightInv'
<1>1. /\ goCall[c].at = "handling" /\ Advance(c, "returned")
      /\ IF CapturesInMiddleware(c) THEN Observe(c) ELSE captured' = captured
      /\ UNCHANGED <<hooksKept, open, inFlight, outdated>> /\ "returned" \in Stages /\ CallInv(c)
  BY DEF HandlerReturns, Unobserved, FlightInv, Stages
<1>. PICK call \in [at : Stages, session : Sessions \cup {NewCall.session}, kind : Kinds] :
       goCall' = [goCall EXCEPT ![c] = call] /\ call.at = "returned" /\ call.kind = goCall[c].kind
  BY <1>1, Advancing
<1>2. captured[c] = 0
  BY <1>1 DEF CallInv
<1>3. /\ captured'[c] = IF CapturesInMiddleware(c) THEN 1 ELSE 0
      /\ captured' \in [GoCalls -> Nat] /\ \A d \in GoCalls \ {c} : captured'[d] = captured[d]
  BY <1>1, <1>2, Counting
<1>4. goCall'[c] = call => CallInv(c)'
  BY <1>1, <1>3 DEF CallInv, CapturesInMiddleware, Wrapped
<1>. QED BY <1>1, <1>3, <1>4, Proceeding

LEMMA HandlerPanicsKeeps ==
  ASSUME FlightInv, NEW c \in GoCalls, HandlerPanics(c)
  PROVE  FlightInv'
<1>. DEFINE call == [NewCall EXCEPT !.at = "panicked"]
<1>1. /\ goCall[c].at = "handling" /\ goCall' = [goCall EXCEPT ![c] = call] /\ captured' = captured
      /\ UNCHANGED <<hooksKept, open, inFlight, outdated>> /\ CallInv(c)
  BY DEF HandlerPanics, FlightInv
<1>2. call \in [at : Stages, session : Sessions \cup {NewCall.session}, kind : Kinds] /\ call.at = "panicked" /\ call.kind = "other"
  BY DEF NewCall, Stages, Kinds
<1>. HIDE DEF call
<1>3. captured[c] = 0
  BY <1>1 DEF CallInv
<1>4. goCall'[c] = call => CallInv(c)'
  BY <1>1, <1>2, <1>3 DEF CallInv
<1>. QED BY <1>1, <1>2, <1>4, Counting, Proceeding

LEMMA AnswerKeeps ==
  ASSUME FlightInv, NEW c \in GoCalls, Answer(c)
  PROVE  FlightInv'
<1>. DEFINE tracked == hooksKept /\ c \in Range(inFlight)
            named == [NewCall EXCEPT !.at = "answered"]
            call == [named EXCEPT !.kind = goCall[c].kind]
<1>1. /\ goCall[c].at \in {"denied", "returned", "tasked"} /\ goCall' = [goCall EXCEPT ![c] = call]
      /\ inFlight' = IF tracked THEN Finished(c) ELSE inFlight
      /\ IF tracked /\ goCall[c].at # "tasked" THEN Observe(c) ELSE captured' = captured
      /\ UNCHANGED <<hooksKept, open, outdated>>
      /\ FlightTypeOK /\ NoneTwice /\ \A d \in GoCalls : CallInv(d)
  BY DEF Answer, Unobserved, FlightInv
<1>2. call \in [at : Stages, session : Sessions \cup {NewCall.session}, kind : Kinds] /\ call.at = "answered" /\ call.kind = goCall[c].kind
  <2>1. named \in [at : Stages, session : Sessions \cup {NewCall.session}, kind : Kinds] /\ named.at = "answered"
    BY DEF NewCall, Stages, Kinds
  <2>. HIDE DEF named
  <2>2. goCall[c].kind \in Kinds
    BY <1>1 DEF FlightTypeOK
  <2>. QED BY <2>1, <2>2
<1>. HIDE DEF call, named
<1>3. /\ goCall' \in [GoCalls -> [at : Stages, session : Sessions \cup {NewCall.session}, kind : Kinds]]
      /\ goCall'[c] = call /\ \A d \in GoCalls \ {c} : goCall'[d] = goCall[d]
  BY <1>1, <1>2 DEF FlightTypeOK
<1>4. inFlight' \in Seq(GoCalls) /\ NoneTwice' /\ Range(inFlight') = Range(inFlight) \ {c}
  <2>1. CASE tracked
    BY <1>1, <2>1, Untracking
  <2>2. CASE ~tracked
    <3>1. c \notin Range(inFlight) /\ inFlight' = inFlight
      BY <1>1, <2>2 DEF CallInv
    <3>. QED BY <1>1, <3>1 DEF FlightTypeOK, NoneTwice
  <2>. QED BY <2>1, <2>2
<1>5. /\ captured' \in [GoCalls -> Nat] /\ \A d \in GoCalls \ {c} : captured'[d] = captured[d]
      /\ captured'[c] = IF tracked /\ goCall[c].at # "tasked" THEN captured[c] + 1 ELSE captured[c]
  BY <1>1, Counting
<1>6. FlightTypeOK'
  BY <1>1, <1>3, <1>4, <1>5 DEF FlightTypeOK
<1>7. \A d \in GoCalls \ {c} : CallInv(d)'
  BY <1>1, <1>3, <1>4, <1>5, OtherCalls
<1>8. c \notin Range(inFlight') /\ CallInv(c)
  BY <1>1, <1>4
<1>9. CallInv(c)'
  <2>1. CASE tracked
    <3>1. captured[c] = 0 /\ goCall[c].kind \in Wrapped /\ (goCall[c].at = "tasked" => goCall[c].kind = "task")
      BY <1>1, <1>8, <2>1 DEF CallInv
    <3>2. captured'[c] = IF goCall[c].at # "tasked" THEN 1 ELSE 0
      BY <1>5, <2>1, <3>1
    <3>. QED BY <1>1, <1>2, <1>3, <1>8, <2>1, <3>1, <3>2 DEF CallInv
  <2>2. CASE ~tracked
    <3>1. captured'[c] = captured[c]
      BY <1>5, <2>2
    <3>2. hooksKept /\ goCall[c].kind = "tool" => c \in outdated
      BY <1>1, <1>8, <2>2 DEF CallInv
    <3>3. captured[c] # 0 => captured[c] = 1 /\ goCall[c].kind \in Wrapped
      BY <1>8 DEF CallInv
    <3>. QED BY <1>1, <1>2, <1>3, <1>8, <3>1, <3>2, <3>3 DEF CallInv
  <2>. QED BY <2>1, <2>2
<1>. QED BY <1>4, <1>6, <1>7, <1>9 DEF FlightInv

LEMMA FlightNext == FlightInv /\ [GoNext]_goVars => FlightInv'
<1>. SUFFICES ASSUME FlightInv, [GoNext]_goVars PROVE FlightInv'
  OBVIOUS
<1>1. CASE UNCHANGED <<hooksKept, inFlight, goCall, captured, outdated>> /\ (open' \subseteq open)
  BY <1>1 DEF FlightInv, FlightTypeOK, NoneTwice, CallInv
<1>2. CASE \E c \in GoCalls : Arrive(c) \/ Deny(c) \/ Enter(c) \/ HandlerReturns(c) \/ Answer(c) \/ HandlerPanics(c)
  BY <1>2, ArriveKeeps, DenyKeeps, EnterKeeps, HandlerReturnsKeeps, AnswerKeeps, HandlerPanicsKeeps
<1>. QED BY <1>1, <1>2 DEF GoNext, goVars, Unregister

--------------------------------------------------------------------------
(* The sessions of mcp-go servers.  Connections that closed are forgotten   *)
(* while the hooks are kept; without them nobody learns that one closed.    *)

Closed == IF hooksKept THEN Connections \ open ELSE {}
OpenOnly == hooksKept => DOMAIN generated \subseteq open
GoSessionsInv == MemoryInv /\ Remembered(Closed) /\ OpenOnly /\ hooksKept \in BOOLEAN /\ open \subseteq Connections

\* unregistered forgets the connection that closed.
LEMMA UnregisterKeeps ==
  ASSUME GoSessionsInv, NEW s \in Connections, Unregister(s)
  PROVE  GoSessionsInv' /\ Steady
<1>1. /\ open' = open \ {s} /\ hooksKept' = hooksKept /\ UNCHANGED <<time, lastSweep, ids, latest, dropped>>
      /\ generated' = IF hooksKept THEN Restrict(generated, DOMAIN generated \ {s}) ELSE generated
      /\ MemoryInv /\ Remembered(Closed) /\ OpenOnly /\ hooksKept \in BOOLEAN /\ open \subseteq Connections
  BY DEF Unregister, GoSessionsInv
<1>2. /\ DOMAIN generated' = IF hooksKept THEN DOMAIN generated \ {s} ELSE DOMAIN generated
      /\ \A t \in DOMAIN generated' : generated'[t] = generated[t]
      /\ generated' = [t \in DOMAIN generated' |-> generated'[t]]
  BY <1>1 DEF Restrict, MemoryInv, SessionsTypeOK
<1>3. IsFiniteSet(DOMAIN generated') /\ Cardinality(DOMAIN generated') <= MaxSessions
  <2>1. IsFiniteSet(DOMAIN generated) /\ DOMAIN generated' \subseteq DOMAIN generated /\ Cardinality(DOMAIN generated) <= MaxSessions
    BY <1>1, <1>2 DEF MemoryInv, SessionsTypeOK
  <2>2. IsFiniteSet(DOMAIN generated') /\ Cardinality(DOMAIN generated') <= Cardinality(DOMAIN generated)
    BY <2>1, FS_Subset
  <2>. QED BY <2>1, <2>2, FS_CardinalityType
<1>4. generated' \in [DOMAIN generated' -> [id : Nat, last : Nat]]
  <2>1. \A t \in DOMAIN generated' : generated'[t] \in [id : Nat, last : Nat]
    BY <1>1, <1>2, MemoryFields DEF MemoryInv
  <2>. QED BY <1>2, <2>1
<1>5. SessionsTypeOK'
  BY <1>1, <1>2, <1>3, <1>4 DEF MemoryInv, SessionsTypeOK
<1>6. MemoryIsLatest' /\ IdsAreOwn'
  BY <1>1, <1>2 DEF MemoryInv, MemoryIsLatest, IdsAreOwn
<1>7. Remembered(Closed)'
  <2>1. Closed' = IF hooksKept THEN Closed \cup {s} ELSE {}
    BY <1>1 DEF Closed
  <2>2. \A t \in Connections \ Closed' : t \in Connections \ Closed /\ (t \notin DOMAIN generated' => t \notin DOMAIN generated)
    BY <1>1, <1>2, <2>1 DEF Closed
  <2>. QED BY <1>1, <2>2 DEF Remembered
<1>8. OpenOnly'
  BY <1>1, <1>2 DEF OpenOnly
<1>9. Steady
  BY <1>1, <1>3 DEF Steady, MemoryInv, IdsAreOwn
<1>. QED BY <1>1, <1>5, <1>6, <1>7, <1>8, <1>9 DEF GoSessionsInv, MemoryInv

LEMMA GoKeepsSessions ==
  ASSUME GoSessionsInv, [GoNext]_goVars
  PROVE  GoSessionsInv' /\ Steady
<1>. DEFINE closed == Closed
<1>0. MemoryInv /\ Remembered(closed) /\ OpenOnly /\ hooksKept \in BOOLEAN /\ open \subseteq Connections
  BY DEF GoSessionsInv
<1>1. ASSUME UNCHANGED <<hooksKept, open>>, MemoryInv', RemembersOn(closed),
             hooksKept => DOMAIN generated' \subseteq open
      PROVE  GoSessionsInv'
  <2>1. Closed' = closed
    BY <1>1 DEF Closed
  <2>2. Remembered(Closed)'
    BY <1>1, <2>1 DEF Remembered, RemembersOn
  <2>. QED BY <1>0, <1>1, <2>2 DEF GoSessionsInv, OpenOnly
<1>2. CASE UNCHANGED <<hooksKept, open>> /\ UNCHANGED sessionVars
  BY <1>0, <1>1, <1>2, RestKeeps DEF OpenOnly, sessionVars
<1>3. CASE UNCHANGED <<hooksKept, open>> /\ Tick
  <2>1. generated' = generated
    BY <1>3 DEF Tick
  <2>. QED BY <1>0, <1>1, <1>3, <2>1, TickKeeps DEF OpenOnly
<1>4. CASE UNCHANGED <<hooksKept, open>> /\ \E s : s \notin closed /\ Resolve(s)
  <2>. PICK s : s \notin closed /\ Resolve(s)
    BY <1>4
  <2>1. MemoryInv' /\ RemembersOn(closed) /\ Steady /\ DOMAIN generated' \subseteq DOMAIN generated \cup ({s} \cap Connections)
    BY <1>0, ResolveEither
  <2>2. hooksKept => DOMAIN generated' \subseteq open
    BY <1>0, <2>1 DEF Closed, OpenOnly
  <2>. QED BY <1>1, <1>4, <2>1, <2>2
<1>5. CASE UNCHANGED <<hooksKept, open>> /\ \E s : Touch(s)
  <2>. PICK s : Touch(s)
    BY <1>5
  <2>1. MemoryInv' /\ RemembersOn(closed) /\ Steady /\ DOMAIN generated' = DOMAIN generated
    BY <1>0, TouchKeeps
  <2>. QED BY <1>0, <1>1, <1>5, <2>1 DEF OpenOnly
<1>6. CASE \E c \in GoCalls : Arrive(c)
  <2>1. UNCHANGED <<hooksKept, open>>
    BY <1>6 DEF Arrive
  <2>2. UNCHANGED sessionVars \/ \E s \in open \cup Transports \cup Stateless : hooksKept /\ Resolve(s)
    BY <1>6 DEF Arrive
  <2>3. hooksKept => closed \cap (open \cup Transports \cup Stateless) = {}
    BY DEF Closed
  <2>. QED BY <1>2, <1>4, <2>1, <2>2, <2>3
<1>7. CASE \E c \in GoCalls : Enter(c)
  <2>1. UNCHANGED <<hooksKept, open>> /\ (UNCHANGED sessionVars \/ \E s : ~hooksKept /\ Resolve(s))
    BY <1>7 DEF Enter, CapturesInMiddleware
  <2>2. ~hooksKept => closed = {}
    BY DEF Closed
  <2>. QED BY <1>2, <1>4, <2>1, <2>2
<1>8. CASE \E c \in GoCalls : Deny(c) \/ HandlerReturns(c) \/ Answer(c) \/ HandlerPanics(c)
  <2>1. UNCHANGED <<hooksKept, open>> /\ (UNCHANGED sessionVars \/ \E s : Touch(s))
    BY <1>8 DEF Deny, HandlerReturns, Answer, HandlerPanics, Observe, Unobserved
  <2>. QED BY <1>2, <1>5, <2>1
<1>. QED BY <1>2, <1>3, <1>6, <1>7, <1>8, UnregisterKeeps DEF GoNext, goVars

\* A call of a tool of an mcp-go server is reported once: by the hooks, unless too many
\* started after it, or by the middleware if the hooks were replaced; and no closed
\* connection is remembered for the calls that outlive it.
THEOREM CallsAreCapturedOnce == GoSpec => []CapturedOnce
<1>1. GoInit => FlightInv /\ GoSessionsInv
  <2>1. GoInit => MemoryInv /\ Remembered(Closed)
    BY MemoryInit DEF GoInit
  <2>2. GoInit => OpenOnly /\ hooksKept \in BOOLEAN /\ open \subseteq Connections
    BY DEF GoInit, OpenOnly, SessionsInit
  <2>. QED BY <2>1, <2>2, FlightInit DEF GoSessionsInv
<1>2. FlightInv /\ GoSessionsInv /\ [GoNext]_goVars => FlightInv' /\ GoSessionsInv'
  BY FlightNext, GoKeepsSessions
<1>3. FlightInv /\ GoSessionsInv => CapturedOnce
  <2>. SUFFICES ASSUME FlightInv, GoSessionsInv PROVE CapturedOnce
    OBVIOUS
  <2>1. \A c \in GoCalls : CallInv(c) /\ captured[c] \in Nat
    BY DEF FlightInv, FlightTypeOK
  <2>2. ASSUME NEW c \in GoCalls
        PROVE captured[c] <= IF goCall[c].at \in {"returned", "answered"} /\ goCall[c].kind \in Wrapped THEN 1 ELSE 0
    BY <2>1 DEF CallInv
  <2>. QED BY <2>1, <2>2 DEF CapturedOnce, CallInv, GoSessionsInv, OpenOnly
<1>. QED BY <1>1, <1>2, <1>3, PTL DEF GoSpec

\* The id of a connection to an mcp-go server lasts while it is used, and is its own,
\* whether the hooks learn that connections close or nobody does.
THEOREM GoCallsKeepTheirSession == GoSpec => SessionsAreSteady
<1>1. GoInit => GoSessionsInv
  <2>1. GoInit => MemoryInv /\ Remembered(Closed)
    BY MemoryInit DEF GoInit
  <2>2. GoInit => OpenOnly /\ hooksKept \in BOOLEAN /\ open \subseteq Connections
    BY DEF GoInit, OpenOnly, SessionsInit
  <2>. QED BY <2>1, <2>2 DEF GoSessionsInv
<1>2. GoSessionsInv /\ [GoNext]_goVars => GoSessionsInv' /\ [Steady]_sessionVars
  BY GoKeepsSessions
<1>. QED BY <1>1, <1>2, PTL DEF GoSpec, SessionsAreSteady, Steady

--------------------------------------------------------------------------
(* Events: the messages of a call.                                         *)

HIDE SessionsAssumption
HIDE InFlightAssumption
USE EventsAssumption

\* A set of numbers has a first.
LEMMA HasLeast ==
  ASSUME NEW S, S \subseteq Nat, S # {}
  PROVE  \E i \in S : \A j \in S : i <= j
<1>. DEFINE R == {ss \in Nat \X Nat : ss[1] < ss[2]}
<1>1. IsWellFoundedOn(R, Nat)
  BY NatLessThanWellFounded DEF OpToRel
<1>2. \A i \in Nat, j \in Nat : <<i, j>> \in R <=> i < j
  OBVIOUS
<1>. HIDE DEF R
<1>3. PICK i \in S : \A j \in S : ~ (<<j, i>> \in R)
  BY <1>1, WFMin
<1>4. ASSUME NEW j \in S PROVE i <= j
  <2>1. i \in Nat /\ j \in Nat
    OBVIOUS
  <2>2. ~ (<<j, i>> \in R)
    BY <1>3
  <2>3. ~ (j < i)
    BY <1>2, <2>1, <2>2, Zenon
  <2>. QED BY <2>1, <2>3
<1>. QED BY <1>3, <1>4

\* Payloads go first, then custom properties, then $set.
Ordered(keeps) ==
  /\ "response" \in keeps => "parameters" \in keeps
  /\ Payloads \cap keeps # {} => "custom" \in keeps

StagesOK(stages) == \E n \in Nat : DOMAIN stages = 1..n /\ \A i \in 1..n : Ordered(stages[i].keeps)
KeepsSet(stages) == \E i \in DOMAIN stages : "set" \in stages[i].keeps

\* A message of the call p.
Says(e, p, name) ==
  /\ e # NoMessage /\ e.name = name /\ e.distinct = p.distinct /\ e.session = p.session
  /\ e.conversation = p.conversation /\ e.profile = ~p.suppress /\ Ordered(e.keeps)
  /\ "set" \in e.keeps => p.explicit

LEMMA Built ==
  ASSUME NEW p, NEW name, NEW stages, StagesOK(stages), NEW required
  PROVE  \/ Build(p, name, stages, required) = NoMessage
         \/ /\ Says(Build(p, name, stages, required), p, name)
            /\ "set" \in Build(p, name, stages, required).keeps => KeepsSet(stages)
<1>. DEFINE fitting == {i \in DOMAIN stages : Weight(p, stages[i], required) <= MaxBytes}
            k == CHOOSE i \in fitting : \A j \in fitting : i <= j
            stage == stages[k]
            e == [name |-> name, distinct |-> p.distinct, session |-> p.session,
                  conversation |-> p.conversation, profile |-> ~p.suppress,
                  keeps |-> KeptParts(p, stage), depth |-> stage.depth]
<1>1. Build(p, name, stages, required) = IF fitting = {} THEN NoMessage ELSE e
  BY DEF Build
<1>2. CASE fitting = {}
  BY <1>1, <1>2
<1>3. CASE fitting # {}
  <2>. PICK n \in Nat : DOMAIN stages = 1..n /\ \A i \in 1..n : Ordered(stages[i].keeps)
    BY DEF StagesOK
  <2>1. fitting \subseteq Nat /\ fitting \subseteq DOMAIN stages
    OBVIOUS
  <2>. HIDE DEF fitting
  <2>2. k \in fitting
    BY <1>3, <2>1, HasLeast
  <2>3. Ordered(stage.keeps) /\ ("set" \in stage.keeps => KeepsSet(stages))
    BY <2>1, <2>2 DEF KeepsSet
  <2>. HIDE DEF stage
  <2>4. /\ Ordered(KeptParts(p, stage)) /\ ("set" \in KeptParts(p, stage) => p.explicit /\ "set" \in stage.keeps)
    BY <2>3 DEF KeptParts, Ordered, Payloads
  <2>5. /\ e.name = name /\ e.distinct = p.distinct /\ e.session = p.session /\ e.conversation = p.conversation
        /\ e.profile = ~p.suppress /\ e.keeps = KeptParts(p, stage)
    OBVIOUS
  <2>6. e # NoMessage
    <3>1. "keeps" \in DOMAIN e /\ "keeps" \notin DOMAIN NoMessage
      BY DEF NoMessage
    <3>. QED BY <3>1
  <2>7. Build(p, name, stages, required) = e
    BY <1>1, <1>3
  <2>. HIDE DEF e
  <2>. QED BY <2>3, <2>4, <2>5, <2>6, <2>7 DEF Says
<1>. QED BY <1>2, <1>3

LEMMA StagesAreOK ==
  StagesOK(CaptureStages) /\ StagesOK(OptionalStages) /\ StagesOK(ExceptionStages) /\ ~KeepsSet(ExceptionStages)
<1>1. StagesOK(CaptureStages)
  <2>. DEFINE s == [i \in 1..MaxDepth |-> [depth |-> MaxDepth + 1 - i, keeps |-> Payloads \cup {"custom", "set"}]]
              r1 == [depth |-> 1, keeps |-> {"parameters", "custom", "set"}]
              r2 == [depth |-> 1, keeps |-> {"custom", "set"}]
              r3 == [depth |-> 1, keeps |-> {"set"}]
              r4 == [depth |-> 1, keeps |-> {}]
              t == <<r1, r2, r3, r4>>
              S == {s[i] : i \in 1..MaxDepth} \cup {r1, r2, r3, r4}
  <2>1. \A r \in S : Ordered(r.keeps)
    BY DEF Ordered, Payloads
  <2>2. s \in Seq(S) /\ t \in Seq(S)
    <3>1. s \in [1..MaxDepth -> S]
      OBVIOUS
    <3>2. r1 \in S /\ r2 \in S /\ r3 \in S /\ r4 \in S
      OBVIOUS
    <3>. HIDE DEF S, r1, r2, r3, r4, s
    <3>3. s \in Seq(S)
      BY <3>1, SeqDef
    <3>4. t \in Seq(S)
      BY <3>2
    <3>. QED BY <3>3, <3>4
  <2>3. CaptureStages = s \o t
    BY DEF CaptureStages
  <2>. HIDE DEF s, t, S, r1, r2, r3, r4
  <2>4. CaptureStages \in Seq(S)
    BY <2>2, <2>3
  <2>5. Len(CaptureStages) \in Nat /\ DOMAIN CaptureStages = 1..Len(CaptureStages)
        /\ \A i \in 1..Len(CaptureStages) : CaptureStages[i] \in S
    BY <2>4, ElementOfSeq
  <2>. QED BY <2>1, <2>5 DEF StagesOK
<1>2. StagesOK(OptionalStages)
  <2>1. DOMAIN OptionalStages = 1..3 /\ \A i \in 1..3 : Ordered(OptionalStages[i].keeps)
    BY DEF OptionalStages, Ordered, Payloads
  <2>. QED BY <2>1 DEF StagesOK
<1>3. StagesOK(ExceptionStages) /\ ~KeepsSet(ExceptionStages)
  <2>1. /\ DOMAIN ExceptionStages = 1..2
        /\ \A i \in 1..2 : Ordered(ExceptionStages[i].keeps) /\ "set" \notin ExceptionStages[i].keeps
    BY DEF ExceptionStages, Ordered, Payloads
  <2>. QED BY <2>1 DEF StagesOK, KeepsSet
<1>. QED BY <1>1, <1>2, <1>3

\* The messages of a call: each says the same, under a name of its own.
Told(built, p) ==
  /\ built \in Seq(Range(built)) /\ Len(built) \in {1, 2}
  /\ \A i \in 1..Len(built) :
       built[i] # NoMessage =>
         \E name : Says(built[i], p, name) /\ ("set" \in built[i].keeps => name # "$exception")
  /\ \A i, j \in 1..Len(built) :
       i # j /\ built[i] # NoMessage => built[i] # built[j]

LEMMA OptionalTold == ASSUME NEW p PROVE Told(OptionalMessages(p), p)
<1>. DEFINE e == Build(p, "$mcp_unknown_tool", OptionalStages, p.weights.required)
<1>1. e # NoMessage => Says(e, p, "$mcp_unknown_tool")
  BY Built, StagesAreOK
<1>2. OptionalMessages(p) = <<e>>
  BY DEF OptionalMessages
<1>. HIDE DEF e
<1>. QED BY <1>1, <1>2 DEF Told, Range

LEMMA ToolCallTold == ASSUME NEW p PROVE Told(ToolCallMessages(p), p)
<1>. DEFINE e == Build(p, "$mcp_tool_call", CaptureStages, p.weights.required)
            x == Build(p, "$exception", ExceptionStages, p.weights.exception)
<1>1. e # NoMessage => Says(e, p, "$mcp_tool_call")
  BY Built, StagesAreOK
<1>2. x # NoMessage => Says(x, p, "$exception") /\ "set" \notin x.keeps
  BY Built, StagesAreOK
<1>. DEFINE failing == p.failed = "error" /\ autocapture
<1>. HIDE DEF failing
<1>3. ToolCallMessages(p) = <<e>> \o IF failing THEN <<x>> ELSE <<>>
  BY DEF ToolCallMessages, failing
<1>. HIDE DEF e, x
<1>4. e # NoMessage \/ x # NoMessage => e # x
  BY <1>1, <1>2 DEF Says
<1>5. CASE ~failing
  BY <1>1, <1>3, <1>5 DEF Told, Range
<1>6. CASE failing
  <2>. DEFINE built == <<e>> \o <<x>>
  <2>1. ToolCallMessages(p) = built
    BY <1>3, <1>6
  <2>2. built \in Seq({e, x}) /\ Len(built) = 2 /\ built[1] = e /\ built[2] = x
    <3>1. <<e>> \in Seq({e, x}) /\ <<x>> \in Seq({e, x}) /\ Len(<<e>>) = 1 /\ Len(<<x>>) = 1
      OBVIOUS
    <3>. QED BY <3>1, ConcatProperties
  <2>. HIDE DEF built
  <2>3. built \in Seq(Range(built))
    <3>1. DOMAIN built = 1..2 /\ Range(built) = {e, x}
      BY <2>2 DEF Range
    <3>. QED BY <2>2, <3>1
  <2>4. \A i \in 1..2 : i = 1 \/ i = 2
    OBVIOUS
  <2>. QED BY <1>1, <1>2, <1>4, <2>1, <2>2, <2>3, <2>4 DEF Told
<1>. QED BY <1>5, <1>6

\* As many different messages as were built are all of them.
LEMMA AllQueued ==
  ASSUME NEW n \in Nat, NEW built, NEW queued \in SUBSET (1..n),
         \A i, j \in 1..n : i # j => built[i] # built[j]
  PROVE  Cardinality({built[i] : i \in queued}) = n <=> queued = 1..n
<1>. DEFINE events == {built[i] : i \in queued}
            f == [i \in queued |-> built[i]]
<1>1. IsFiniteSet(1..n) /\ Cardinality(1..n) = n
  BY FS_Interval
<1>2. IsFiniteSet(queued) /\ (Cardinality(queued) = n <=> queued = 1..n)
  BY <1>1, FS_Subset
<1>3. f \in Surjection(queued, events) /\ f \in Injection(queued, events)
  BY DEF Surjection, Injection, IsInjective
<1>. HIDE DEF f
<1>4. Cardinality(events) = Cardinality(queued)
  BY <1>2, <1>3, FS_Surjection
<1>. QED BY <1>2, <1>4

\* The parts of a call that its messages share.
LEMMA Prepared ==
  ASSUME NEW call, NEW p, p = PrepareToolCall(call)
  PROVE  /\ p.distinct = Either(call.distinct, p.session)
         /\ p.explicit <=> call.distinct # NoName
         /\ p.suppress <=> call.distinct = NoName \/ call.optOut = "out"
         /\ p.conversation \in Conversations => p.session = DeriveSession(p.conversation)
<1>. DEFINE conversation == IF call.conversation \in Conversations THEN call.conversation ELSE NoName
            session == IF conversation # NoName THEN DeriveSession(conversation) ELSE Either(call.session, Minted)
            suppress == SuppressPersonProfile(call)
            explicit == call.distinct # NoName
<1>. HIDE DEF suppress, explicit
<1>1. /\ p.distinct = Either(call.distinct, session) /\ p.session = session /\ p.conversation = conversation
      /\ p.explicit = explicit /\ p.suppress = suppress
  BY DEF PrepareToolCall, suppress, explicit
<1>2. conversation \in Conversations => session = DeriveSession(conversation)
  OBVIOUS
<1>. HIDE DEF conversation, session
<1>. QED BY <1>1, <1>2, Zenon DEF suppress, explicit, SuppressPersonProfile

\* What a report of messages that tell one story says.
LEMMA StoryAgrees ==
  ASSUME NEW call, NEW p, NEW built, Told(built, p), p = PrepareToolCall(call),
         NEW accepted \in SUBSET DOMAIN built, NEW queued, queued = Queued(built, accepted),
         toolReport' = [call |-> call, built |-> built, queued |-> queued, error |-> queued # DOMAIN built],
         \A c \in Conversations : \A s, t \in joined'[c] : s = t
  PROVE  ToolCallStoriesAgree'
<1>. DEFINE events == {built[i] : i \in queued}
            error == queued # DOMAIN built
<1>1. /\ DOMAIN built = 1..Len(built) /\ Len(built) \in Nat \ {0} /\ built # <<>>
      /\ Range(built) = {built[i] : i \in 1..Len(built)}
  BY DEF Told, Range
<1>2. /\ \A i \in DOMAIN built : built[i] # NoMessage =>
           \E name : Says(built[i], p, name) /\ ("set" \in built[i].keeps => name # "$exception")
      /\ \A i, j \in DOMAIN built : i # j /\ built[i] # NoMessage => built[i] # built[j]
  BY <1>1 DEF Told
<1>3. queued \subseteq DOMAIN built /\ (queued # {} => \A i \in DOMAIN built : built[i] # NoMessage)
  BY DEF Queued
<1>4. /\ toolReport'.call = call /\ toolReport'.built = built /\ toolReport'.queued = queued
      /\ toolReport'.error = error
  <2>. HIDE DEF error
  <2>1. toolReport' = [call |-> call, built |-> built, queued |-> queued, error |-> error]
    BY DEF error
  <2>. QED BY <2>1
<1>. HIDE DEF error
<1>5. ASSUME NEW e \in events
      PROVE  \E name : Says(e, p, name) /\ ("set" \in e.keeps => name # "$exception")
  <2>1. PICK i \in queued : e = built[i]
    OBVIOUS
  <2>. QED BY <1>2, <1>3, <2>1
<1>. DEFINE Whole(e) ==
       /\ e.distinct = IF call.distinct # NoName THEN call.distinct ELSE e.session
       /\ e.profile <=> call.distinct # NoName /\ call.optOut # "out"
       /\ "response" \in e.keeps => "parameters" \in e.keeps
       /\ Payloads \cap e.keeps # {} => "custom" \in e.keeps
       /\ "set" \in e.keeps => call.distinct # NoName /\ e.name # "$exception"
<1>6. ASSUME NEW e \in events
      PROVE  /\ Whole(e) /\ e.distinct = p.distinct /\ e.session = p.session /\ e.conversation = p.conversation
  <2>1. PICK name : Says(e, p, name) /\ ("set" \in e.keeps => name # "$exception")
    BY <1>5
  <2>2. /\ e.name = name /\ e.distinct = p.distinct /\ e.session = p.session /\ e.conversation = p.conversation
        /\ ("set" \in e.keeps => p.explicit) /\ Ordered(e.keeps)
    BY <2>1 DEF Says
  <2>3. e.distinct = IF call.distinct # NoName THEN call.distinct ELSE e.session
    BY <2>2, Prepared DEF Either
  <2>4. e.profile <=> call.distinct # NoName /\ call.optOut # "out"
    <3>1. e.profile = ~p.suppress
      BY <2>1 DEF Says
    <3>. QED BY <3>1, Prepared
  <2>. QED BY <2>1, <2>2, <2>3, <2>4, Prepared DEF Ordered
<1>7. error <=> Cardinality(events) # Len(built)
  <2>1. CASE \A i \in DOMAIN built : built[i] # NoMessage
    <3>1. Cardinality(events) = Len(built) <=> queued = 1..Len(built)
      BY <1>1, <1>2, <1>3, <2>1, AllQueued
    <3>. QED BY <1>1, <3>1 DEF error
  <2>2. CASE \E i \in DOMAIN built : built[i] = NoMessage
    <3>1. queued = {} /\ events = {}
      BY <1>3, <2>2
    <3>2. error
      BY <1>1, <3>1 DEF error
    <3>. HIDE DEF events
    <3>3. Cardinality(events) = 0
      BY <3>1, FS_EmptySet
    <3>. QED BY <1>1, <3>2, <3>3
  <2>. QED BY <2>1, <2>2
<1>8. queued # {} => NoMessage \notin Range(built)
  BY <1>1, <1>3
<1>. HIDE DEF events, Whole
<1>9. /\ \A e, f \in events : e.distinct = f.distinct /\ e.session = f.session /\ e.conversation = f.conversation
      /\ \A e \in events : Whole(e)
  BY <1>6
<1>. QED BY <1>4, <1>7, <1>8, <1>9 DEF ToolCallStoriesAgree, events, Whole

\* The sessions of a conversation's events.
JoinedInv == \A c \in Conversations : joined[c] \subseteq {DeriveSession(c)}

LEMMA CaptureToolCallStep ==
  ASSUME JoinedInv, NEW call, NEW ctx, NEW optional, CaptureToolCall(call, ctx, optional)
  PROVE  JoinedInv' /\ ToolCallStoriesAgree'
<1>. DEFINE full == WithContext(call, ctx)
            p == PrepareToolCall(full)
            built == IF optional THEN OptionalMessages(p) ELSE ToolCallMessages(p)
<1>. HIDE DEF full, p
<1>1. Told(built, p)
  BY OptionalTold, ToolCallTold
<1>. HIDE DEF built
<1>2. PICK accepted \in SUBSET DOMAIN built :
        /\ toolReport' = [call |-> full, built |-> built, queued |-> Queued(built, accepted),
                          error |-> Queued(built, accepted) # DOMAIN built]
        /\ joined' = [c \in Conversations |-> joined[c] \cup
             {built[i].session : i \in {i \in Queued(built, accepted) : built[i].conversation = c}}]
  BY DEF CaptureToolCall, full, p, built
<1>. DEFINE queued == Queued(built, accepted)
<1>3. ASSUME NEW i \in queued
      PROVE  built[i].session = p.session /\ built[i].conversation = p.conversation
  <2>1. i \in DOMAIN built /\ built[i] # NoMessage
    BY DEF Queued
  <2>2. PICK name : Says(built[i], p, name)
    BY <1>1, <2>1 DEF Told
  <2>. QED BY <2>2 DEF Says
<1>4. JoinedInv'
  <2>. SUFFICES ASSUME NEW c \in Conversations PROVE joined'[c] \subseteq {DeriveSession(c)}
    BY DEF JoinedInv
  <2>1. joined[c] \subseteq {DeriveSession(c)}
    BY DEF JoinedInv
  <2>2. joined'[c] = joined[c] \cup {built[i].session : i \in {i \in queued : built[i].conversation = c}}
    BY <1>2
  <2>3. ASSUME NEW i \in queued, built[i].conversation = c PROVE built[i].session = DeriveSession(c)
    BY <1>3, <2>3, Prepared DEF p
  <2>. HIDE DEF queued
  <2>. QED BY <2>1, <2>2, <2>3
<1>5. \A c \in Conversations : \A s, t \in joined'[c] : s = t
  BY <1>4 DEF JoinedInv
<1>6. ToolCallStoriesAgree'
  BY <1>1, <1>2, <1>5, StoryAgrees DEF p
<1>. QED BY <1>4, <1>6

\* The messages of a call tell one story.
THEOREM StoriesAgree == EventsSpec => []ToolCallStoriesAgree
<1>. DEFINE IInv == JoinedInv /\ ToolCallStoriesAgree
<1>1. EventsInit => IInv
  BY DEF EventsInit, JoinedInv, ToolCallStoriesAgree, NoReport
<1>2. IInv /\ [EventsNext]_eventVars => IInv'
  <2>. SUFFICES ASSUME IInv, [EventsNext]_eventVars PROVE IInv'
    OBVIOUS
  <2>1. CASE UNCHANGED eventVars
    BY <2>1 DEF eventVars, JoinedInv, ToolCallStoriesAgree
  <2>2. CASE Returned
    BY <2>2 DEF Returned, NoReport, JoinedInv, ToolCallStoriesAgree
  <2>3. ASSUME NEW call \in ToolCalls, NEW ctx \in ToolContexts, NEW optional \in BOOLEAN,
               CaptureToolCall(call, ctx, optional)
        PROVE  IInv'
    BY <2>3, CaptureToolCallStep
  <2>. QED BY <2>1, <2>2, <2>3 DEF EventsNext
<1>. QED BY <1>1, <1>2, PTL DEF EventsSpec
=============================================================================
