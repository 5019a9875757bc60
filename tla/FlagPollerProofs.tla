-------------------------- MODULE FlagPollerProofs --------------------------
(***************************************************************************)
(* Safety of FlagPoller, for any number of clients, with and without a     *)
(* cache provider.  The invariants are proved one after the other; each    *)
(* later one may use the earlier ones.                                     *)
(***************************************************************************)
EXTENDS FlagPoller, TLAPS

USE ClientsAssumption, NobodyAssumption, PollerAssumption, VersionAssumption

\* The polling goroutine of c takes a step.
PollerStep(c) == Poll(c) \/ Select(c)

(* Whatever is not a step of a polling goroutine leaves its variables      *)
(* alone.                                                                  *)
LEMMA OnlyPollersPoll ==
  ASSUME [Next]_vars
  PROVE  \/ UNCHANGED <<pollVars, cancelled, entry, lease>>
         \/ LeaseExpires
         \/ \E c \in Clients : PollerAbandoned(c)
         \/ \E c \in Clients : PollerStep(c)
<1>1. CASE UNCHANGED vars
  BY <1>1 DEF vars, callVars, serverVars
<1>2. CASE ServerChanges \/ LeaseExpires
  BY <1>2 DEF ServerChanges, callVars
<1>3. ASSUME NEW c \in Clients, Poll(c) \/ Select(c)
      PROVE  \E d \in Clients : PollerStep(d)
  BY <1>3 DEF PollerStep
<1>4. ASSUME NEW c \in Clients, Loop(c)
      PROVE  \/ UNCHANGED <<pollVars, cancelled, entry, lease>>
             \/ \E d \in Clients : PollerAbandoned(d)
  BY <1>4 DEF Loop, ShutdownPoller, PollerStopped, serverVars
<1>5. ASSUME NEW c \in Clients, Caller(c)
      PROVE  UNCHANGED <<pollVars, cancelled, entry, lease>>
  BY <1>5 DEF Caller, CloseCall, CloseDeadline, CloseReturn, ForceReload,
              ForceReloadPanics, GetFlag, GetFlagReturns, serverVars
<1>6. CASE Terminated
  BY <1>6 DEF Terminated, vars, callVars, serverVars
<1> QED BY <1>1, <1>2, <1>3, <1>4, <1>5, <1>6 DEF Next

--------------------------------------------------------------------------
(* Type correctness.                                                       *)

LEMMA StatesFacts ==
  /\ Nothing \in States /\ Cleared \in States
  /\ \A v \in Versions, e \in Versions \cup {0} : Holding(v, e) \in States
BY DEF States

LEMMA TypeInit == Init => TypeOK
BY DEF Init, TypeOK, States, Nothing, Versions, PollStates

LEMMA TypePoll ==
  ASSUME TypeOK, NEW c \in Clients, PollerStep(c)
  PROVE  TypeOK'
<1> USE DEF TypeOK, Goto
<1>1. CASE FetchNewFeatureFlags(c)
  BY <1>1 DEF FetchNewFeatureFlags, serverVars, callVars, PollStates
<1>2. CASE CallProvider(c)
  <2>1. pc[c] \in {"should", "get", "put", "release"}
    BY <1>2 DEF CallProvider, ProviderCall
  <2>2. ProviderCall[pc[c]] \in PollStates
    BY <2>1 DEF ProviderCall, PollStates
  <2>3. pc' \in [Clients -> PollStates]
    BY <1>2, <2>2 DEF CallProvider
  <2>4. late' \in [Clients -> Nat] /\ released' \in [Clients -> BOOLEAN]
    BY <1>2 DEF CallProvider
  <2> QED BY <1>2, <2>3, <2>4 DEF CallProvider, serverVars, callVars
<1>3. CASE ShouldFetchReturns(c)
  BY <1>3 DEF ShouldFetchReturns, callVars, PollStates
<1>4. CASE GetReturns(c)
  <2>1. state' \in [Clients -> States]
    BY <1>4, StatesFacts DEF GetReturns
  <2> QED BY <1>4, <2>1 DEF GetReturns, serverVars, callVars, PollStates
<1>5. CASE PutReturns(c)
  <2>1. state[c].defs \in Versions \cup {0}
    BY DEF States, Nothing, Cleared, Holding
  <2>2. entry' \in Versions \cup {0}
    BY <1>5, <2>1 DEF PutReturns
  <2> QED BY <1>5, <2>2 DEF PutReturns, callVars, PollStates
<1>6. CASE ReleaseReturns(c)
  BY <1>6 DEF ReleaseReturns, callVars, PollStates
<1>7. CASE FetchFlagDefinitions(c)
  BY <1>7 DEF FetchFlagDefinitions, serverVars, callVars, PollStates
<1>8. CASE NotModified(c)
  BY <1>8 DEF NotModified, ThenPublish, serverVars, callVars, PollStates
<1>9. CASE QuotaLimited(c)
  BY <1>9, StatesFacts DEF QuotaLimited, serverVars, callVars, PollStates
<1>10. CASE Fetched(c)
  <2>1. state' \in [Clients -> States]
    BY <1>10, StatesFacts DEF Fetched
  <2> QED BY <1>10, <2>1 DEF Fetched, ThenPublish, serverVars, callVars, PollStates
<1>11. CASE FetchFails(c)
  BY <1>11 DEF FetchFails, serverVars, callVars, PollStates
<1>12. CASE PollEnds(c)
  BY <1>12 DEF PollEnds, serverVars, callVars, PollStates
<1>13. CASE Tick(c)
  BY <1>13 DEF Tick, serverVars, callVars, PollStates
<1>14. CASE TakeReload(c)
  BY <1>14 DEF TakeReload, serverVars, PollStates
<1>15. CASE TakeShutdown(c)
  BY <1>15 DEF TakeShutdown, serverVars, callVars, PollStates
<1> QED
  BY <1>1, <1>2, <1>3, <1>4, <1>5, <1>6, <1>7, <1>8, <1>9, <1>10, <1>11,
     <1>12, <1>13, <1>14, <1>15
     DEF PollerStep, Poll, Return, Answer, Select

LEMMA TypeStep ==
  ASSUME TypeOK, [Next]_vars
  PROVE  TypeOK'
<1> USE DEF TypeOK
<1>1. CASE UNCHANGED vars
  BY <1>1 DEF vars, serverVars, pollVars, callVars
<1>2. CASE ServerChanges
  BY <1>2 DEF ServerChanges, pollVars, callVars, Versions
<1>3. CASE LeaseExpires
  BY <1>3 DEF LeaseExpires, pollVars, callVars
<1>4. ASSUME NEW c \in Clients, PollerStep(c) PROVE TypeOK'
  BY <1>4, TypePoll
<1>5. ASSUME NEW c \in Clients, Loop(c) PROVE TypeOK'
  BY <1>5, ZenonT(40) DEF Loop, ShutdownPoller, PollerStopped, PollerAbandoned, serverVars,
              pollVars
<1>6. ASSUME NEW c \in Clients, Caller(c) PROVE TypeOK'
  <2>1. CASE CloseCall(c) \/ CloseDeadline(c) \/ CloseReturn(c)
    BY <2>1 DEF CloseCall, CloseDeadline, CloseReturn, serverVars, pollVars
  <2>2. CASE ForceReload(c) \/ ForceReloadPanics(c) \/ GetFlag(c) \/ GetFlagReturns(c)
    BY <2>2 DEF ForceReload, ForceReloadPanics, GetFlag, GetFlagReturns,
                serverVars, pollVars
  <2> QED BY <1>6, <2>1, <2>2 DEF Caller
<1>7. CASE Terminated
  BY <1>7 DEF Terminated, vars, serverVars, pollVars, callVars
<1> QED
  BY <1>1, <1>2, <1>3, <1>4, <1>5, <1>6, <1>7 DEF Next, PollerStep

(* Every variable of the pollers, the server and the cache stays in its    *)
(* domain; the definitions a client holds are none, the cleared ones of a  *)
(* 402, or a version of the server with an ETag or none.                   *)
THEOREM TypeCorrect == Spec => []TypeOK
<1>1. TypeOK /\ [Next]_vars => TypeOK'
  BY TypeStep
<1> QED BY TypeInit, <1>1, PTL DEF Spec

--------------------------------------------------------------------------
(* The ETag belongs to the definitions.                                    *)

LEMMA StateWriters ==
  ASSUME [Next]_vars
  PROVE  \/ state' = state
         \/ \E c \in Clients : GetReturns(c) \/ QuotaLimited(c) \/ Fetched(c)
<1>1. ASSUME NEW c \in Clients, PollerStep(c)
      PROVE  state' = state \/ GetReturns(c) \/ QuotaLimited(c) \/ Fetched(c)
  BY <1>1 DEF PollerStep, Poll, Select, Return, Answer, FetchNewFeatureFlags,
              CallProvider, ShouldFetchReturns, PutReturns, ReleaseReturns,
              FetchFlagDefinitions, NotModified, FetchFails, PollEnds, Tick,
              TakeReload, TakeShutdown
<1>2. ASSUME NEW c \in Clients, PollerAbandoned(c)
      PROVE  state' = state
  BY <1>2 DEF PollerAbandoned, pollVars
<1>3. CASE LeaseExpires
  BY <1>3 DEF LeaseExpires, pollVars
<1>4. CASE UNCHANGED <<pollVars, cancelled, entry, lease>>
  BY <1>4 DEF pollVars
<1> QED BY <1>1, <1>2, <1>3, <1>4, OnlyPollersPoll

LEMMA EtagStep ==
  ASSUME TypeOK, EtagNamesDefinitions, [Next]_vars
  PROVE  EtagNamesDefinitions'
<1> USE DEF EtagNamesDefinitions, TypeOK
<1>1. CASE state' = state
  BY <1>1
<1>2. ASSUME NEW c \in Clients, GetReturns(c) PROVE EtagNamesDefinitions'
  BY <1>2 DEF GetReturns, Holding
<1>3. ASSUME NEW c \in Clients, QuotaLimited(c) PROVE EtagNamesDefinitions'
  BY <1>3 DEF QuotaLimited, Cleared
<1>4. ASSUME NEW c \in Clients, Fetched(c) PROVE EtagNamesDefinitions'
  BY <1>4 DEF Fetched, Holding
<1> QED BY <1>1, <1>2, <1>3, <1>4, StateWriters

(* A client that sends If-None-Match holds exactly the definitions the     *)
(* ETag names, whatever the order of API answers, cache hits and quota     *)
(* answers it went through.                                                *)
THEOREM EtagIsHonest == Spec => []EtagNamesDefinitions
<1>1. Init => EtagNamesDefinitions
  BY DEF Init, EtagNamesDefinitions, Nothing
<1>2. TypeOK /\ EtagNamesDefinitions /\ [Next]_vars => EtagNamesDefinitions'
  BY EtagStep
<1> QED BY <1>1, <1>2, TypeCorrect, PTL DEF Spec

--------------------------------------------------------------------------
(* Publishing, reading and electing.                                       *)

LEMMA PublishesStep ==
  ASSUME TypeOK, EtagNamesDefinitions, PublishesDefinitions, [Next]_vars
  PROVE  PublishesDefinitions'
<1> USE DEF PublishesDefinitions, TypeOK, Goto
<1>1. ASSUME NEW c \in Clients, PollerStep(c) PROVE PublishesDefinitions'
  <2>1. CASE NotModified(c)
    <3>1. state[c].etag # 0 /\ state' = state
      BY <2>1 DEF NotModified, Versions
    <3> QED BY <2>1, <3>1 DEF NotModified, ThenPublish, EtagNamesDefinitions
  <2>2. CASE Fetched(c)
    BY <2>2 DEF Fetched, ThenPublish, Holding, Versions
  <2>3. CASE QuotaLimited(c) \/ GetReturns(c)
    BY <2>3 DEF QuotaLimited, GetReturns
  <2>4. CASE FetchFails(c) \/ PollEnds(c) \/ FetchNewFeatureFlags(c)
             \/ FetchFlagDefinitions(c) \/ Select(c)
    BY <2>4 DEF FetchFails, PollEnds, FetchNewFeatureFlags, FetchFlagDefinitions,
                Select, Tick, TakeReload, TakeShutdown
  <2>5. CASE CallProvider(c)
    BY <2>5 DEF CallProvider, ProviderCall
  <2>6. CASE ShouldFetchReturns(c) \/ PutReturns(c) \/ ReleaseReturns(c)
    BY <2>6 DEF ShouldFetchReturns, PutReturns, ReleaseReturns
  <2> QED BY <1>1, <2>1, <2>2, <2>3, <2>4, <2>5, <2>6
             DEF PollerStep, Poll, Return, Answer
<1>2. CASE LeaseExpires
  BY <1>2 DEF LeaseExpires, pollVars
<1>3. ASSUME NEW c \in Clients, PollerAbandoned(c) PROVE PublishesDefinitions'
  BY <1>3 DEF PollerAbandoned, pollVars
<1>4. CASE UNCHANGED <<pollVars, cancelled, entry, lease>>
  BY <1>4 DEF pollVars
<1> QED BY <1>1, <1>2, <1>3, <1>4, OnlyPollersPoll

(* Whatever sequence of API answers and cache hits a client went through,  *)
(* it hands OnFlagDefinitionsReceived definitions of the server, never the *)
(* empty ones a 402 left behind.                                           *)
THEOREM NothingClearedIsPublished == Spec => []PublishesDefinitions
<1>1. Init => PublishesDefinitions
  BY DEF Init, PublishesDefinitions
<1>2. TypeOK /\ EtagNamesDefinitions /\ PublishesDefinitions /\ [Next]_vars
        => PublishesDefinitions'
  BY PublishesStep
<1> QED BY <1>1, <1>2, TypeCorrect, EtagIsHonest, PTL DEF Spec

\* A client without SecretKey only ever reads the cache.
ReaderPlaces ==
  /\ lease \in Secret \cup {None}
  /\ \A c \in Clients \ Secret :
       pc[c] \notin {"should", "inShould", "fetch", "request", "put", "inPut"}

LEMMA ReaderStep ==
  ASSUME TypeOK, ReaderPlaces, [Next]_vars
  PROVE  ReaderPlaces'
<1> USE DEF ReaderPlaces, TypeOK, Goto
<1>1. ASSUME NEW c \in Clients, PollerStep(c) PROVE ReaderPlaces'
  <2>1. CASE FetchNewFeatureFlags(c)
    BY <2>1 DEF FetchNewFeatureFlags, serverVars
  <2>2. CASE CallProvider(c)
    BY <2>2 DEF CallProvider, ProviderCall, serverVars
  <2>3. CASE ShouldFetchReturns(c) \/ GetReturns(c)
    BY <2>3 DEF ShouldFetchReturns, GetReturns, serverVars
  <2>4. CASE PutReturns(c) \/ ReleaseReturns(c)
    BY <2>4 DEF PutReturns, ReleaseReturns
  <2>5. CASE FetchFlagDefinitions(c) \/ Answer(c)
    BY <2>5 DEF FetchFlagDefinitions, Answer, NotModified, QuotaLimited, Fetched,
                FetchFails, ThenPublish, serverVars
  <2>6. CASE PollEnds(c) \/ Select(c)
    BY <2>6 DEF PollEnds, Select, Tick, TakeReload, TakeShutdown, serverVars
  <2> QED BY <1>1, <2>1, <2>2, <2>3, <2>4, <2>5, <2>6 DEF PollerStep, Poll, Return
<1>2. CASE LeaseExpires
  BY <1>2 DEF LeaseExpires, pollVars
<1>3. ASSUME NEW c \in Clients, PollerAbandoned(c) PROVE ReaderPlaces'
  BY <1>3 DEF PollerAbandoned, pollVars, serverVars
<1>4. CASE UNCHANGED <<pollVars, cancelled, entry, lease>>
  BY <1>4 DEF pollVars
<1> QED BY <1>1, <1>2, <1>3, <1>4, OnlyPollersPoll

(* However many clients share a provider, one without SecretKey takes no   *)
(* part in the election, sends no request and publishes nothing.           *)
THEOREM ReadersOnlyRead == Spec => []ReadersClaimNothing
<1>1. Init => ReaderPlaces
  BY DEF Init, ReaderPlaces
<1>2. TypeOK /\ ReaderPlaces /\ [Next]_vars => ReaderPlaces'
  BY ReaderStep
<1>3. ReaderPlaces => ReadersClaimNothing
  BY DEF ReaderPlaces, ReadersClaimNothing
<1> QED BY <1>1, <1>2, <1>3, TypeCorrect, PTL DEF Spec

\* A client on its way to the server was elected or holds nothing.
FollowerPlaces ==
  \A c \in Clients :
    UseCache /\ pc[c] \in {"fetch", "request"} /\ ~publish[c] => ~state[c].loaded

LEMMA FollowerStep ==
  ASSUME TypeOK, FollowerPlaces, [Next]_vars
  PROVE  FollowerPlaces'
<1> USE DEF FollowerPlaces, TypeOK, Goto
<1>1. ASSUME NEW c \in Clients, PollerStep(c) PROVE FollowerPlaces'
  <2>1. CASE FetchNewFeatureFlags(c)
    BY <2>1 DEF FetchNewFeatureFlags
  <2>2. CASE CallProvider(c)
    BY <2>2 DEF CallProvider, ProviderCall
  <2>3. CASE ShouldFetchReturns(c)
    <3>1. \A d \in Clients : d # c => pc'[d] = pc[d] /\ publish'[d] = publish[d]
      BY <2>3 DEF ShouldFetchReturns
    <3>2. pc'[c] # "request" /\ (pc'[c] = "fetch" => publish'[c])
      <4>1. PICK answer \in {"elected", "refused", "error"} :
              /\ publish' = [publish EXCEPT ![c] = answer # "refused"]
              /\ pc' = [pc EXCEPT ![c] =
                          IF cancelled[c] THEN "polled"
                          ELSE IF answer # "refused" THEN "fetch" ELSE "get"]
        BY <2>3 DEF ShouldFetchReturns
      <4> QED BY <4>1
    <3>3. state' = state
      BY <2>3 DEF ShouldFetchReturns
    <3> QED BY <3>1, <3>2, <3>3
  <2>4. CASE GetReturns(c)
    BY <2>4 DEF GetReturns
  <2>5. CASE PutReturns(c) \/ ReleaseReturns(c) \/ FetchFlagDefinitions(c)
    BY <2>5 DEF PutReturns, ReleaseReturns, FetchFlagDefinitions
  <2>6. CASE Answer(c)
    BY <2>6 DEF Answer, NotModified, QuotaLimited, Fetched, FetchFails, ThenPublish
  <2>7. CASE PollEnds(c) \/ Select(c)
    BY <2>7 DEF PollEnds, Select, Tick, TakeReload, TakeShutdown
  <2> QED BY <1>1, <2>1, <2>2, <2>3, <2>4, <2>5, <2>6, <2>7
             DEF PollerStep, Poll, Return
<1>2. CASE LeaseExpires
  BY <1>2 DEF LeaseExpires, pollVars
<1>3. ASSUME NEW c \in Clients, PollerAbandoned(c) PROVE FollowerPlaces'
  BY <1>3 DEF PollerAbandoned, pollVars
<1>4. CASE UNCHANGED <<pollVars, cancelled, entry, lease>>
  BY <1>4 DEF pollVars
<1> QED BY <1>1, <1>2, <1>3, <1>4, OnlyPollersPoll

(* A client that was refused the election asks the server only while it    *)
(* has no definitions at all, whatever the provider answers.               *)
THEOREM FollowersReadTheCache == Spec => []FollowersSpareTheServer
<1>1. Init => FollowerPlaces
  BY DEF Init, FollowerPlaces
<1>2. TypeOK /\ FollowerPlaces /\ [Next]_vars => FollowerPlaces'
  BY FollowerStep
<1>3. FollowerPlaces => FollowersSpareTheServer
  BY DEF FollowerPlaces, FollowersSpareTheServer
<1> QED BY <1>1, <1>2, <1>3, TypeCorrect, PTL DEF Spec

--------------------------------------------------------------------------
(* Shutdown.                                                               *)

\* Once a call has begun after the cancellation no check lets another pass.
LateInv ==
  \A c \in Clients :
    /\ late[c] <= 1
    /\ late[c] # 0 => cancelled[c] /\ pc[c] \notin {"should", "get", "put"}

LEMMA LateStep ==
  ASSUME TypeOK, LateInv, [Next]_vars
  PROVE  LateInv'
<1> USE DEF LateInv, TypeOK, Goto
<1>1. ASSUME NEW c \in Clients, PollerStep(c) PROVE LateInv'
  <2>1. CASE FetchNewFeatureFlags(c)
    BY <2>1 DEF FetchNewFeatureFlags, callVars
  <2>2. CASE CallProvider(c)
    <3>1. cancelled' = cancelled
      BY <2>2 DEF CallProvider, callVars
    <3>2. pc' = [pc EXCEPT ![c] = ProviderCall[pc[c]]]
      BY <2>2 DEF CallProvider
    <3>3. ProviderCall[pc[c]] \notin {"should", "get", "put"}
      BY <2>2 DEF CallProvider, ProviderCall
    <3>4. CASE cancelled[c] /\ pc[c] # "release"
      <4>1. pc[c] \in {"should", "get", "put"}
        BY <2>2, <3>4 DEF CallProvider, ProviderCall
      <4>2. late[c] = 0
        BY <4>1
      <4>3. late' = [late EXCEPT ![c] = 1]
        BY <2>2, <3>4, <4>2 DEF CallProvider
      <4> QED BY <3>1, <3>2, <3>3, <3>4, <4>3
    <3>5. CASE ~(cancelled[c] /\ pc[c] # "release")
      <4>1. late' = late
        BY <2>2, <3>5 DEF CallProvider
      <4> QED BY <3>1, <3>2, <3>3, <4>1
    <3> QED BY <3>4, <3>5
  <2>3. CASE ShouldFetchReturns(c)
    BY <2>3 DEF ShouldFetchReturns, callVars
  <2>4. CASE GetReturns(c)
    BY <2>4 DEF GetReturns, callVars
  <2>5. CASE PutReturns(c) \/ ReleaseReturns(c) \/ FetchFlagDefinitions(c)
    BY <2>5 DEF PutReturns, ReleaseReturns, FetchFlagDefinitions, callVars
  <2>6. CASE Answer(c)
    BY <2>6 DEF Answer, NotModified, QuotaLimited, Fetched, FetchFails,
                ThenPublish, callVars
  <2>7. CASE PollEnds(c) \/ Select(c)
    BY <2>7 DEF PollEnds, Select, Tick, TakeReload, TakeShutdown, callVars
  <2> QED BY <1>1, <2>1, <2>2, <2>3, <2>4, <2>5, <2>6, <2>7
             DEF PollerStep, Poll, Return
<1>2. CASE LeaseExpires
  BY <1>2 DEF LeaseExpires, pollVars, callVars
<1>3. ASSUME NEW c \in Clients, PollerAbandoned(c) PROVE LateInv'
  BY <1>3 DEF PollerAbandoned, pollVars
<1>4. CASE UNCHANGED <<pollVars, cancelled, entry, lease>>
  BY <1>4 DEF pollVars
<1> QED BY <1>1, <1>2, <1>3, <1>4, OnlyPollersPoll

(* However the cancellation falls between the checks of poller.ctx and the *)
(* provider calls, at most one such call begins after it.                  *)
THEOREM OneLateCall == Spec => []LateCallsBounded
<1>1. Init => LateInv
  <2> SUFFICES ASSUME Init, NEW c \in Clients
               PROVE  late[c] <= 1 /\ late[c] = 0
    BY DEF LateInv
  <2>1. late = [d \in Clients |-> 0]
    BY DEF Init
  <2>2. late[c] = 0
    BY <2>1
  <2> QED BY <2>2
<1>2. TypeOK /\ LateInv /\ [Next]_vars => LateInv'
  BY LateStep
<1>3. LateInv => LateCallsBounded
  BY DEF LateInv, LateCallsBounded
<1> QED BY <1>1, <1>2, <1>3, TypeCorrect, PTL DEF Spec

\* provider.Shutdown is the last thing the goroutine does, and when a
\* provider is configured it never ends without it.
ReleaseInv ==
  \A c \in Clients :
    /\ released[c] => pc[c] \in {"inRelease", "done"}
    /\ UseCache /\ pc[c] \in {"inRelease", "done"} => released[c]

LEMMA ReleaseStep ==
  ASSUME TypeOK, ReleaseInv, [Next]_vars
  PROVE  ReleaseInv'
<1> USE DEF ReleaseInv, TypeOK, Goto
<1>1. ASSUME NEW c \in Clients, PollerStep(c) PROVE ReleaseInv'
  <2>1. CASE FetchNewFeatureFlags(c)
    BY <2>1 DEF FetchNewFeatureFlags
  <2>2. CASE CallProvider(c)
    BY <2>2 DEF CallProvider, ProviderCall
  <2>3. CASE ShouldFetchReturns(c) \/ GetReturns(c)
    BY <2>3 DEF ShouldFetchReturns, GetReturns
  <2>4. CASE PutReturns(c) \/ ReleaseReturns(c) \/ FetchFlagDefinitions(c)
    BY <2>4 DEF PutReturns, ReleaseReturns, FetchFlagDefinitions
  <2>5. CASE Answer(c)
    BY <2>5 DEF Answer, NotModified, QuotaLimited, Fetched, FetchFails, ThenPublish
  <2>6. CASE PollEnds(c) \/ Select(c)
    BY <2>6 DEF PollEnds, Select, Tick, TakeReload, TakeShutdown
  <2> QED BY <1>1, <2>1, <2>2, <2>3, <2>4, <2>5, <2>6 DEF PollerStep, Poll, Return
<1>2. CASE LeaseExpires
  BY <1>2 DEF LeaseExpires, pollVars
<1>3. ASSUME NEW c \in Clients, PollerAbandoned(c) PROVE ReleaseInv'
  BY <1>3 DEF PollerAbandoned, pollVars
<1>4. CASE UNCHANGED <<pollVars, cancelled, entry, lease>>
  BY <1>4 DEF pollVars
<1> QED BY <1>1, <1>2, <1>3, <1>4, OnlyPollersPoll

LEMMA ReleaseOrdered == Spec => []ReleaseInv
<1>1. Init => ReleaseInv
  BY DEF Init, ReleaseInv
<1>2. TypeOK /\ ReleaseInv /\ [Next]_vars => ReleaseInv'
  BY ReleaseStep
<1> QED BY <1>1, <1>2, TypeCorrect, PTL DEF Spec

(* provider.Shutdown runs after every other provider call has returned,    *)
(* also when the Close that asked for it has long given up.                *)
THEOREM ShutdownComesLast == Spec => []ShutdownIsLast
<1>1. ReleaseInv => ShutdownIsLast
  BY DEF ReleaseInv, ShutdownIsLast
<1> QED BY <1>1, ReleaseOrdered, PTL

\* A Close in time waits for the loop, and the loop for the goroutine.
CloseInv ==
  \A c \in Clients :
    /\ loop[c] = "stopped" /\ closer[c] \in {"closing", "nil"} => pc[c] = "done"
    /\ loop[c] # "running" => closer[c] # "open"
    /\ closer[c] = "nil" => loop[c] = "stopped"

LEMMA CloseStep ==
  ASSUME TypeOK, CloseInv, [Next]_vars
  PROVE  CloseInv'
<1> USE DEF CloseInv, TypeOK, Goto
<1>1. ASSUME NEW c \in Clients, PollerStep(c) PROVE CloseInv'
  <2>1. loop' = loop /\ closer' = closer
    BY <1>1 DEF PollerStep, Poll, Select, Return, Answer, FetchNewFeatureFlags,
                CallProvider, ShouldFetchReturns, GetReturns, PutReturns,
                ReleaseReturns, FetchFlagDefinitions, NotModified, QuotaLimited,
                Fetched, FetchFails, PollEnds, Tick, TakeReload, TakeShutdown,
                callVars
  <2>2. pc[c] # "done"
    BY <1>1 DEF PollerStep, Poll, Select, Return, Answer, FetchNewFeatureFlags,
                CallProvider, ProviderCall, ShouldFetchReturns, GetReturns,
                PutReturns, ReleaseReturns, FetchFlagDefinitions, NotModified,
                QuotaLimited, Fetched, FetchFails, PollEnds, Tick, TakeReload,
                TakeShutdown
  <2>3. \A d \in Clients : d # c => pc'[d] = pc[d]
    BY <1>1 DEF PollerStep, Poll, Select, Return, Answer, FetchNewFeatureFlags,
                CallProvider, ShouldFetchReturns, GetReturns, PutReturns,
                ReleaseReturns, FetchFlagDefinitions, NotModified, ThenPublish,
                QuotaLimited, Fetched, FetchFails, PollEnds, Tick, TakeReload,
                TakeShutdown
  <2> QED BY <2>1, <2>2, <2>3
<1>2. CASE UNCHANGED <<loop, closer, pc>>
  BY <1>2
<1>3. ASSUME NEW c \in Clients, Loop(c) PROVE CloseInv'
  <2>1. CASE ShutdownPoller(c)
    BY <2>1 DEF ShutdownPoller, pollVars
  <2>2. CASE PollerStopped(c)
    BY <2>2 DEF PollerStopped, pollVars
  <2>3. CASE PollerAbandoned(c)
    BY <2>3 DEF PollerAbandoned, pollVars
  <2> QED BY <1>3, <2>1, <2>2, <2>3 DEF Loop
<1>4. ASSUME NEW c \in Clients, Caller(c) PROVE CloseInv'
  BY <1>4 DEF Caller, CloseCall, CloseDeadline, CloseReturn, ForceReload,
              ForceReloadPanics, GetFlag, GetFlagReturns, pollVars
<1>5. CASE ServerChanges \/ LeaseExpires \/ Terminated \/ UNCHANGED vars
  BY <1>2, <1>5 DEF ServerChanges, LeaseExpires, Terminated, vars, pollVars, callVars
<1> QED BY <1>1, <1>3, <1>4, <1>5 DEF Next, PollerStep

(* When Close returns nil the polling goroutine has ended and the provider *)
(* was shut down.                                                          *)
THEOREM CloseReleases == Spec => []CleanCloseReleases
<1>1. Init => CloseInv
  BY DEF Init, CloseInv
<1>2. TypeOK /\ CloseInv /\ [Next]_vars => CloseInv'
  BY CloseStep
<1>3. CloseInv /\ ReleaseInv => CleanCloseReleases
  BY DEF CloseInv, ReleaseInv, CleanCloseReleases
<1> QED BY <1>1, <1>2, <1>3, TypeCorrect, ReleaseOrdered, PTL DEF Spec
=============================================================================
