----------------------------- MODULE FlagPoller -----------------------------
(***************************************************************************)
(* The feature flag definitions of one or several clients.  Each client    *)
(* has one polling goroutine (FeatureFlagsPoller.run), the only writer of  *)
(* its definitions; getters wait for its first poll, ReloadFeatureFlags    *)
(* meets it on an unbuffered channel, and the loop goroutine of a client   *)
(* that is being closed stops it.  Clients share the server and, when      *)
(* UseCache, one FlagDefinitionCacheProvider backend: a cache entry and a  *)
(* lease that elects the client that fetches.  Both are external: the      *)
(* provider may refuse, fail, elect nobody, and lose the lease to a        *)
(* timeout.                                                                *)
(*                                                                         *)
(* Definitions are abstracted to the version the server gave them, an ETag *)
(* to the version it names (0: none).                                      *)
(***************************************************************************)
EXTENDS Integers

CONSTANTS
  Clients,      \* clients that share the cache, one poller each
  Secret,       \* clients with a SecretKey
  UseCache,     \* Config.FlagDefinitionCacheProvider is set
  Reloaders,    \* clients on which somebody calls ReloadFeatureFlags
  Getters,      \* clients on which somebody reads a flag
  MaxVersion,   \* bound on the versions the server goes through
  None

ASSUME ClientsAssumption ==
  Secret \subseteq Clients /\ Reloaders \subseteq Clients /\ Getters \subseteq Clients
ASSUME NobodyAssumption == None \notin Clients
\* Without SecretKey and without provider a client has no poller.
ASSUME PollerAssumption == UseCache \in BOOLEAN /\ (~UseCache => Secret = Clients)
ASSUME VersionAssumption == MaxVersion \in Nat \ {0}

VARIABLES
  version,     \* server: current version of the definitions
  entry,       \* provider: cached version, 0 when nothing is cached
  lease,       \* provider: client elected to fetch
  pc,          \* where the polling goroutine is
  publish,     \* argument of fetchFlagDefinitions
  state,       \* poller.state
  first,       \* firstFeatureFlagRequestFinished is closed
  cancelled,   \* poller.ctx is done
  late,        \* history: provider calls begun since then
  released,    \* history: provider.Shutdown has begun
  loop,        \* the client's loop goroutine
  closer,      \* the CloseWithContext call
  reload,      \* the ReloadFeatureFlags call
  getter       \* the call that reads a flag

serverVars == <<version, entry, lease>>
pollVars   == <<pc, publish, state, first, late, released>>
callVars   == <<loop, closer, reload, getter, cancelled>>
vars == <<serverVars, pollVars, callVars>>

Versions == 1..MaxVersion

Nothing == [loaded |-> FALSE, defs |-> 0, etag |-> 0]
Cleared == [loaded |-> TRUE, defs |-> 0, etag |-> 0]
Holding(v, e) == [loaded |-> TRUE, defs |-> v, etag |-> e]
States == {Nothing, Cleared} \cup {Holding(v, e) : v \in Versions, e \in Versions \cup {0}}

\* "start": about to fetchNewFeatureFlags.  "should", "get", "put", "release":
\* about to call the provider's ShouldFetch, Get, OnReceived, Shutdown; "in..."
\* while the call runs.  "fetch", "request": before and during the API request.
PollStates == {"start", "should", "inShould", "get", "inGet", "fetch", "request",
               "put", "inPut", "polled", "select", "release", "inRelease", "done"}

Init ==
  /\ version = 1 /\ entry = 0 /\ lease = None
  /\ pc = [c \in Clients |-> "start"]
  /\ publish = [c \in Clients |-> FALSE]
  /\ state = [c \in Clients |-> Nothing]
  /\ first = [c \in Clients |-> FALSE]
  /\ cancelled = [c \in Clients |-> FALSE]
  /\ late = [c \in Clients |-> 0]
  /\ released = [c \in Clients |-> FALSE]
  /\ loop = [c \in Clients |-> "running"]
  /\ closer = [c \in Clients |-> "open"]
  /\ reload = [c \in Clients |-> "idle"]
  /\ getter = [c \in Clients |-> "idle"]

Goto(c, where) == pc' = [pc EXCEPT ![c] = where]

--------------------------------------------------------------------------
(* External: the server and the provider's backend.                        *)

ServerChanges ==
  /\ version < MaxVersion
  /\ version' = version + 1
  /\ UNCHANGED <<entry, lease, pollVars, callVars>>

LeaseExpires ==
  /\ lease # None
  /\ lease' = None
  /\ UNCHANGED <<version, entry, pollVars, callVars>>

--------------------------------------------------------------------------
(* One poll.                                                               *)

\* fetchNewFeatureFlags up to its first provider call or the request.
FetchNewFeatureFlags(c) ==
  /\ pc[c] = "start"
  /\ publish' = [publish EXCEPT ![c] = FALSE]
  /\ Goto(c, IF cancelled[c] THEN "polled"
             ELSE IF ~UseCache THEN "fetch"
             ELSE IF c \notin Secret THEN "get" ELSE "should")
  /\ UNCHANGED <<serverVars, state, first, late, released, callVars>>

ProviderCall == [should |-> "inShould", get |-> "inGet",
                 put |-> "inPut", release |-> "inRelease"]

\* The provider call begins; poller.ctx may have ended since the last check.
CallProvider(c) ==
  /\ pc[c] \in DOMAIN ProviderCall
  /\ Goto(c, ProviderCall[pc[c]])
  /\ late' = [late EXCEPT ![c] =
                IF cancelled[c] /\ pc[c] # "release" THEN @ + 1 ELSE @]
  /\ released' = [released EXCEPT ![c] = @ \/ pc[c] = "release"]
  /\ UNCHANGED <<serverVars, publish, state, first, callVars>>

\* ShouldFetchFlagDefinitions returns.  An error counts as being elected, and
\* the provider may have taken the lease all the same.
ShouldFetchReturns(c) ==
  /\ pc[c] = "inShould"
  /\ \E answer \in {"elected", "refused", "error"}, takes \in BOOLEAN :
       /\ takes => lease \in {None, c}
       /\ answer = "elected" => takes
       /\ answer = "refused" => ~takes
       /\ lease' = IF takes THEN c ELSE lease
       /\ publish' = [publish EXCEPT ![c] = answer # "refused"]
       /\ Goto(c, IF cancelled[c] THEN "polled"
                  ELSE IF answer # "refused" THEN "fetch" ELSE "get")
  /\ UNCHANGED <<version, entry, state, first, late, released, callVars>>

\* Mutant: the ETag survives definitions that come from the cache.
GetReturnsKeepsEtag(c) ==
  /\ pc[c] = "inGet"
  /\ \/ /\ entry # 0
        /\ state' = [state EXCEPT ![c] = Holding(entry, state[c].etag)]
        /\ Goto(c, "polled")
     \/ /\ Goto(c, IF c \notin Secret \/ cancelled[c] \/ state[c].loaded
                   THEN "polled" ELSE "fetch")
        /\ UNCHANGED state
  /\ UNCHANGED <<serverVars, publish, first, late, released, callVars>>

\* GetFlagDefinitions returns the entry, which is applied without ETag; or it
\* fails, or has nothing usable.  Then a client with SecretKey that holds no
\* definitions at all fetches without having been elected.
GetReturns(c) ==
  /\ pc[c] = "inGet"
  /\ \/ /\ entry # 0
        /\ state' = [state EXCEPT ![c] = Holding(entry, 0)]
        /\ Goto(c, "polled")
     \/ /\ Goto(c, IF c \notin Secret \/ cancelled[c] \/ state[c].loaded
                   THEN "polled" ELSE "fetch")
        /\ UNCHANGED state
  /\ UNCHANGED <<serverVars, publish, first, late, released, callVars>>

\* fetchFlagDefinitions up to the request.
FetchFlagDefinitions(c) ==
  /\ pc[c] = "fetch"
  /\ Goto(c, IF cancelled[c] \/ c \notin Secret THEN "polled" ELSE "request")
  /\ UNCHANGED <<serverVars, publish, state, first, late, released, callVars>>

\* publishFlagDefinitions up to the provider call, when there is one.
ThenPublish(c) == Goto(c, IF publish[c] /\ ~cancelled[c] THEN "put" ELSE "polled")

\* 304: the server still has the version the If-None-Match names.
NotModified(c) ==
  /\ pc[c] = "request" /\ state[c].etag = version
  /\ ThenPublish(c)
  /\ UNCHANGED <<serverVars, publish, state, first, late, released, callVars>>

\* 402: the definitions are cleared, and the ETag with them.
QuotaLimited(c) ==
  /\ pc[c] = "request"
  /\ state' = [state EXCEPT ![c] = Cleared]
  /\ Goto(c, "polled")
  /\ UNCHANGED <<serverVars, publish, first, late, released, callVars>>

\* 200 with definitions that decode, with or without an ETag.
Fetched(c) ==
  /\ pc[c] = "request"
  /\ \E e \in {0, version} : state' = [state EXCEPT ![c] = Holding(version, e)]
  /\ ThenPublish(c)
  /\ UNCHANGED <<serverVars, publish, first, late, released, callVars>>

\* Any other status, an answer that does not decode, a transport error, the
\* request's timeout or the end of poller.ctx.
FetchFails(c) ==
  /\ pc[c] = "request"
  /\ Goto(c, "polled")
  /\ UNCHANGED <<serverVars, publish, state, first, late, released, callVars>>

\* OnFlagDefinitionsReceived returns, having stored the definitions or not.
PutReturns(c) ==
  /\ pc[c] = "inPut"
  /\ entry' \in {entry, state[c].defs}
  /\ Goto(c, "polled")
  /\ UNCHANGED <<version, lease, publish, state, first, late, released, callVars>>

--------------------------------------------------------------------------
(* FeatureFlagsPoller.run.                                                 *)

\* Mutant: getters are only released when definitions arrived.
PollEndsWhenLoaded(c) ==
  /\ pc[c] = "polled"
  /\ first' = [first EXCEPT ![c] = @ \/ state[c].loaded]
  /\ Goto(c, "select")
  /\ UNCHANGED <<serverVars, publish, state, late, released, callVars>>

\* The poll is through; the first one releases the getters.
PollEnds(c) ==
  /\ pc[c] = "polled"
  /\ first' = [first EXCEPT ![c] = TRUE]
  /\ Goto(c, "select")
  /\ UNCHANGED <<serverVars, publish, state, late, released, callVars>>

Tick(c) ==
  /\ pc[c] = "select"
  /\ Goto(c, "start")
  /\ UNCHANGED <<serverVars, publish, state, first, late, released, callVars>>

TakeReload(c) ==
  /\ pc[c] = "select" /\ reload[c] = "calling"
  /\ reload' = [reload EXCEPT ![c] = "served"]
  /\ Goto(c, "start")
  /\ UNCHANGED <<serverVars, publish, state, first, late, released, loop,
                 closer, getter, cancelled>>

\* poller.shutdown is closed: close forceReload, then release the provider.
TakeShutdown(c) ==
  /\ pc[c] = "select" /\ loop[c] # "running"
  /\ Goto(c, IF UseCache THEN "release" ELSE "done")
  /\ UNCHANGED <<serverVars, publish, state, first, late, released, callVars>>

\* Mutant: run forgets close(forceReload).
ForceReloadNeverClosed(c) == c \in Clients /\ FALSE

ForceReloadClosed(c) == pc[c] \in {"release", "inRelease", "done"}

\* Mutant: the goroutine goes on polling.
ReleaseReturnsAndPollsOn(c) ==
  /\ pc[c] = "inRelease"
  /\ lease' \in {lease, IF lease = c THEN None ELSE lease}
  /\ Goto(c, "select")
  /\ UNCHANGED <<version, entry, publish, state, first, late, released, callVars>>

\* provider.Shutdown returns, the lease given up or not; close(shutdownDone).
ReleaseReturns(c) ==
  /\ pc[c] = "inRelease"
  /\ lease' \in {lease, IF lease = c THEN None ELSE lease}
  /\ Goto(c, "done")
  /\ UNCHANGED <<version, entry, publish, state, first, late, released, callVars>>

--------------------------------------------------------------------------
(* Close: the caller and the loop goroutine's deferred shutdownPoller.     *)

CloseCall(c) ==
  /\ closer[c] = "open"
  /\ closer' = [closer EXCEPT ![c] = "closing"]
  /\ UNCHANGED <<serverVars, pollVars, loop, reload, getter, cancelled>>

\* The caller's deadline passes: c.cancel().
CloseDeadline(c) ==
  /\ closer[c] = "closing"
  /\ closer' = [closer EXCEPT ![c] = "late"]
  /\ UNCHANGED <<serverVars, pollVars, loop, reload, getter, cancelled>>

\* loop has drained and returns: close(poller.shutdown).
ShutdownPoller(c) ==
  /\ loop[c] = "running" /\ closer[c] # "open"
  /\ loop' = [loop EXCEPT ![c] = "stopping"]
  /\ UNCHANGED <<serverVars, pollVars, closer, reload, getter, cancelled>>

\* Mutant: shutdownPoller does not wait for the goroutine.
PollerStoppedEarly(c) ==
  /\ loop[c] = "stopping"
  /\ loop' = [loop EXCEPT ![c] = "stopped"]
  /\ UNCHANGED <<serverVars, pollVars, closer, reload, getter, cancelled>>

PollerStopped(c) ==
  /\ loop[c] = "stopping" /\ pc[c] = "done"
  /\ loop' = [loop EXCEPT ![c] = "stopped"]
  /\ UNCHANGED <<serverVars, pollVars, closer, reload, getter, cancelled>>

\* Mutant: the provider is shut down here, past the polling goroutine.
PollerAbandonedReleases(c) ==
  /\ loop[c] = "stopping" /\ closer[c] = "late"
  /\ cancelled' = [cancelled EXCEPT ![c] = TRUE]
  /\ loop' = [loop EXCEPT ![c] = "stopped"]
  /\ released' = [released EXCEPT ![c] = TRUE]
  /\ UNCHANGED <<serverVars, pc, publish, state, first, late, closer, reload,
                 getter>>

\* The deadline passed first: cancel the polling work and leave it.
PollerAbandoned(c) ==
  /\ loop[c] = "stopping" /\ closer[c] = "late"
  /\ cancelled' = [cancelled EXCEPT ![c] = TRUE]
  /\ loop' = [loop EXCEPT ![c] = "stopped"]
  /\ UNCHANGED <<serverVars, pollVars, closer, reload, getter>>

CloseReturn(c) ==
  /\ closer[c] \in {"closing", "late"} /\ loop[c] = "stopped"
  /\ closer' = [closer EXCEPT ![c] = IF @ = "closing" THEN "nil" ELSE "timeout"]
  /\ UNCHANGED <<serverVars, pollVars, loop, reload, getter, cancelled>>

--------------------------------------------------------------------------
(* Callers of ReloadFeatureFlags and of the flag getters.                  *)

ForceReload(c) ==
  /\ c \in Reloaders /\ reload[c] = "idle"
  /\ reload' = [reload EXCEPT ![c] = "calling"]
  /\ UNCHANGED <<serverVars, pollVars, loop, closer, getter, cancelled>>

\* A send on the closed channel panics in the caller.
ForceReloadPanics(c) ==
  /\ reload[c] = "calling" /\ ForceReloadClosed(c)
  /\ reload' = [reload EXCEPT ![c] = "panicked"]
  /\ UNCHANGED <<serverVars, pollVars, loop, closer, getter, cancelled>>

GetFlag(c) ==
  /\ c \in Getters /\ getter[c] = "idle"
  /\ getter' = [getter EXCEPT ![c] = "waiting"]
  /\ UNCHANGED <<serverVars, pollVars, loop, closer, reload, cancelled>>

\* The one read of poller.state a getter makes, after the first poll.
GetFlagReturns(c) ==
  /\ getter[c] = "waiting" /\ first[c]
  /\ getter' = [getter EXCEPT ![c] = IF state[c].defs # 0 THEN "local" ELSE "error"]
  /\ UNCHANGED <<serverVars, pollVars, loop, closer, reload, cancelled>>

--------------------------------------------------------------------------

Answer(c) == NotModified(c) \/ QuotaLimited(c) \/ Fetched(c) \/ FetchFails(c)

Return(c) == ShouldFetchReturns(c) \/ GetReturns(c) \/ PutReturns(c)
             \/ ReleaseReturns(c)

Poll(c) == FetchNewFeatureFlags(c) \/ CallProvider(c) \/ Return(c)
           \/ FetchFlagDefinitions(c) \/ Answer(c) \/ PollEnds(c)

Select(c) == Tick(c) \/ TakeReload(c) \/ TakeShutdown(c)

Loop(c) == ShutdownPoller(c) \/ PollerStopped(c) \/ PollerAbandoned(c)

Caller(c) == CloseCall(c) \/ CloseDeadline(c) \/ CloseReturn(c)
             \/ ForceReload(c) \/ ForceReloadPanics(c)
             \/ GetFlag(c) \/ GetFlagReturns(c)

\* Every client is closed and its goroutines have ended.
Terminated ==
  /\ \A c \in Clients : pc[c] = "done" /\ closer[c] \in {"nil", "timeout"}
  /\ UNCHANGED vars

Next ==
  \/ ServerChanges \/ LeaseExpires
  \/ \E c \in Clients : Poll(c) \/ Select(c) \/ Loop(c) \/ Caller(c)
  \/ Terminated

Spec == Init /\ [][Next]_vars

\* Requests have a timeout and providers are asked to honour their context, so
\* every call returns.  The timer is made anew for every round of the select,
\* so a reload or a shutdown that waits at every round is taken some day.
Fairness ==
  \A c \in Clients :
    /\ WF_vars(Poll(c)) /\ WF_vars(Select(c)) /\ WF_vars(Loop(c))
    /\ SF_vars(TakeReload(c)) /\ SF_vars(TakeShutdown(c))
    /\ WF_vars(ForceReloadPanics(c)) /\ WF_vars(GetFlagReturns(c))
    /\ WF_vars(CloseReturn(c))

FairSpec == Spec /\ Fairness

--------------------------------------------------------------------------
(* Properties.                                                             *)

TypeOK ==
  /\ version \in Versions /\ entry \in Versions \cup {0}
  /\ lease \in Clients \cup {None}
  /\ pc \in [Clients -> PollStates] /\ publish \in [Clients -> BOOLEAN]
  /\ state \in [Clients -> States]
  /\ first \in [Clients -> BOOLEAN] /\ cancelled \in [Clients -> BOOLEAN]
  /\ late \in [Clients -> Nat] /\ released \in [Clients -> BOOLEAN]
  /\ loop \in [Clients -> {"running", "stopping", "stopped"}]
  /\ closer \in [Clients -> {"open", "closing", "late", "nil", "timeout"}]
  /\ reload \in [Clients -> {"idle", "calling", "served", "panicked"}]
  /\ getter \in [Clients -> {"idle", "waiting", "local", "error"}]

\* A poller that sends an ETag holds the definitions it names: a 304 never
\* confirms definitions that were replaced from the cache or cleared.
EtagNamesDefinitions ==
  \A c \in Clients : state[c].etag # 0 => state[c].etag = state[c].defs

\* What is handed to OnFlagDefinitionsReceived is a payload of the server:
\* definitions cleared by a 402 are never republished as an empty entry.
PublishesDefinitions ==
  \A c \in Clients : pc[c] \in {"put", "inPut"} => state[c].defs # 0

\* A client without SecretKey never holds the fetch lease, fetches or
\* publishes.
ReadersClaimNothing ==
  /\ lease \in Secret \cup {None}
  /\ \A c \in Clients \ Secret : pc[c] \notin {"should", "inShould", "request", "put"}

\* A client that was not elected asks the server only as long as it has no
\* definitions at all.
FollowersSpareTheServer ==
  \A c \in Clients : UseCache /\ pc[c] = "request" /\ ~publish[c] => ~state[c].loaded

\* After a shutdown that outlived its deadline at most one provider call still
\* begins: the one whose check of the context had already passed.
LateCallsBounded == \A c \in Clients : late[c] <= 1

\* provider.Shutdown overlaps no other provider call and none follows it.
ShutdownIsLast ==
  \A c \in Clients : released[c] => pc[c] \in {"inRelease", "done"}

\* When Close returns nil the polling goroutine has ended and has released the
\* provider.
CleanCloseReleases ==
  \A c \in Clients : closer[c] = "nil" => pc[c] = "done" /\ (UseCache => released[c])

\* No getter waits for ever for the first poll, whatever comes of it.
GettersReturn ==
  \A c \in Clients : getter[c] = "waiting" ~> getter[c] \in {"local", "error"}

\* No ReloadFeatureFlags call waits for ever, not even when the client closes.
ReloadReturns ==
  \A c \in Clients : reload[c] = "calling" ~> reload[c] \in {"served", "panicked"}

\* Close returns with no deadline, and the provider is shut down in the end
\* although the deadline passed.
CloseReturns ==
  \A c \in Clients :
    closer[c] = "closing" ~> closer[c] \in {"nil", "timeout"} /\ pc[c] = "done"
=============================================================================
