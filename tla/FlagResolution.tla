--------------------------- MODULE FlagResolution ---------------------------
(***************************************************************************)
(* Where the value of a flag comes from.  A caller asks the client for one *)
(* flag, for all, for those to attach to a captured event, or for a        *)
(* snapshot; the client evaluates what it can with the definitions that    *)
(* are loaded at that moment and asks the server for the rest, trying      *)
(* again when the failure may pass.  Meanwhile the poller loads other      *)
(* definitions.                                                            *)
(*                                                                         *)
(* What local evaluation makes of a flag is part of the snapshot here (see *)
(* LocalEvaluation); "left" is the value it hands back beside the error.   *)
(***************************************************************************)
EXTENDS Verdicts, FiniteSets, Functions

CONSTANTS
  Keys,
  Snapshots,    \* [flags: key -> [verdict, left, payload, experiment], gate]
  None,         \* the state before any definitions were loaded
  Replies,      \* bodies the server answers with: [form, flags, quota, gate]
  NoReply,
  Requests,     \* [op, key, filter, keys, local]
  MaxAttempts   \* 1 + MaxRetries

ASSUME AttemptsAssumption == MaxAttempts \in Nat \ {0}
ASSUME NoneAssumption == None \notin Snapshots
ASSUME NoReplyAssumption == NoReply \notin Replies
\* Local evaluation comes to one of the four kinds of verdict.
ASSUME VerdictsAssumption ==
  \A s \in Snapshots : \A k \in DOMAIN s.flags :
    LET v == s.flags[k].verdict IN v.is \in {"value", "inconclusive", "server"} \/ v = Failed

VARIABLES
  hasPoller, \* whether the client has a secret key
  fetched,   \* firstFeatureFlagRequestFinished is closed
  loaded,    \* the poller's state
  pc,        \* "idle", "called", "asking", "returned"
  request,
  snap,      \* the definitions the call has selected
  attempt,   \* requests made for the call
  cancelled, \* the context of the call
  reply,     \* history: what the server answered
  answer     \* what the call returns, with the event it reports

defsVars == <<hasPoller, fetched, loaded>>
resolutionVars == <<hasPoller, fetched, loaded, pc, request, snap, attempt, cancelled, reply, answer>>

\* The state a quota-limited poller is left with: no flags and no index of them.
Cleared == [flags |-> [k \in {} |-> {}], gate |-> FALSE]
Nil == "nil"
NoFlags == [k \in {} |-> Nil]

--------------------------------------------------------------------------
(* Replies.                                                                *)

\* FlagDetail.GetValue
GetValue(detail) ==
  IF detail.variant # Nil THEN detail.variant ELSE IF detail.enabled THEN "true" ELSE "false"

\* NewFlagDetail; a legacy reply has values only.
NewFlagDetail(value, payload) ==
  [enabled |-> value \notin {"false", Nil}, failed |-> FALSE, payload |-> payload, experiment |-> Nil,
   variant |-> IF value \in {"true", "false", Nil} THEN Nil ELSE value]

\* FlagsResponse.UnmarshalJSON: details and plain values, whichever form arrived.
Unmarshal(body) ==
  [quota |-> body.quota, gate |-> body.gate,
   flags |-> IF body.form = "v4" THEN body.flags
             ELSE [k \in DOMAIN body.flags |-> NewFlagDetail(body.flags[k].value, body.flags[k].payload)],
   featureFlags |-> [k \in DOMAIN body.flags |->
                       IF body.form = "v4" THEN GetValue(body.flags[k]) ELSE body.flags[k].value]]

--------------------------------------------------------------------------
(* Answers.  One flag of an answer is a record of its value and of what is *)
(* reported with it.                                                       *)

Valued(value, payload, experiment, gate, local) ==
  [value |-> value, payload |-> payload, experiment |-> experiment, gate |-> gate, local |-> local]
Bare(value) == Valued(value, "", Nil, FALSE, FALSE)

\* err: the error beside it; event: the flag a $feature_flag_called event is
\* reported for, and whether in its short form (shouldMinimizeFlagCalledEvent).
Answer(flags, err) == [flags |-> flags, err |-> err, unresolved |-> NoFlags, event |-> "none", minimal |-> FALSE]
Fails(err) == Answer(NoFlags, err)
Minimize(flag) == flag.gate /\ flag.experiment = "no"

\* What GetFeatureFlagResult makes of a value and an error.  Without a value
\* there is an error always.
Result(c, flag, err) ==
  IF cancelled THEN Fails("cancelled")
  ELSE [flags |-> IF flag.value = Nil THEN NoFlags ELSE [k \in {c.key} |-> flag],
        err |-> IF flag.value = Nil /\ err = "none" THEN "not_found" ELSE err,
        unresolved |-> NoFlags, event |-> flag.value, minimal |-> Minimize(flag)]

--------------------------------------------------------------------------
(* What the definitions alone say.                                         *)

Known(s) == IF s = None THEN {} ELSE DOMAIN s.flags
LocallyKnown(s) == {k \in Known(s) : Resolved(s.flags[k].verdict)}
LocalFlag(s, k) ==
  Valued(s.flags[k].verdict.value, s.flags[k].payload, s.flags[k].experiment, s.gate, TRUE)

\* The flags a snapshot is wanted of; a filter names keys.
Wanted(c, s) == IF c.filter THEN Known(s) \cap c.keys ELSE Known(s)

\* An empty filter asks for nothing, of nobody.
ForNothing(c) == c.op = "evaluate" /\ c.filter /\ c.keys = {}

\* The call needs definitions, and waits for the first request for them; only
\* an event that may ask the server does not wait.
Waits(c) == hasPoller /\ (c.op # "capture" \/ c.local) /\ ~ForNothing(c)

\* Whether the server is asked.
AsksServer(c, s) ==
  /\ ~c.local
  /\ CASE c.op = "result"   -> c.key \notin LocallyKnown(s)
       [] c.op = "all"      -> ~hasPoller \/ (s # None /\ (Known(s) = {} \/ LocallyKnown(s) # Known(s)))
       [] c.op = "capture"  -> hasPoller /\ (Known(s) = {} \/ LocallyKnown(s) # Known(s))
       [] c.op = "evaluate" ->
            /\ ~ForNothing(c)
            /\ \/ Known(s) = {} \/ ~(Wanted(c, s) \subseteq LocallyKnown(s))
               \/ c.filter /\ ~(c.keys \subseteq Known(s))

Values(s) == [k \in LocallyKnown(s) |-> Bare(s.flags[k].verdict.value)]

\* populateLocalEvaluations
LocalRecords(c, s) == [k \in Wanted(c, s) \cap LocallyKnown(s) |-> LocalFlag(s, k)]
Unresolved(c, s) ==
  [k \in {k \in Wanted(c, s) : s.flags[k].verdict.is \in {"inconclusive", "server"}} |->
     s.flags[k].verdict.why]

LocalResult(c, s) ==
  CASE s \in {None, Cleared} -> Result(c, Bare(Nil), "unfetched")
    [] s \notin {None, Cleared} /\ c.key \notin Known(s) -> Result(c, Valued(Nil, "", Nil, s.gate, FALSE), "none")
    [] c.key \in LocallyKnown(s) -> Result(c, LocalFlag(s, c.key), "none")
    [] c.key \in Known(s) \ LocallyKnown(s) ->
         Result(c, Valued(s.flags[c.key].left, "", s.flags[c.key].experiment, s.gate, FALSE), "local")

\* The answer of a call that does not ask the server.
LocalAnswer(c, s) ==
  CASE ForNothing(c) -> Answer(NoFlags, "none")
    [] ~ForNothing(c) /\ ~hasPoller -> Fails("no_secret_key")
    [] hasPoller /\ c.op = "result" -> LocalResult(c, s)
    [] hasPoller /\ c.op \in {"all", "capture"} ->
         IF cancelled THEN Fails("cancelled")
         ELSE IF s = None THEN Fails("unfetched") ELSE Answer(Values(s), "none")
    [] hasPoller /\ c.op = "evaluate" /\ ~ForNothing(c) ->
         [Answer(LocalRecords(c, s), "none") EXCEPT !.unresolved = Unresolved(c, s)]

--------------------------------------------------------------------------
(* What the server adds.                                                   *)

\* Mutant: the short form of the event is still decided by the definitions.
PollerResultGatedLocally(c, s, r) ==
  Valued(IF c.key \in DOMAIN r.featureFlags THEN r.featureFlags[c.key] ELSE "false",
       IF c.key \in DOMAIN r.flags THEN r.flags[c.key].payload ELSE "",
       IF c.key \in DOMAIN r.flags THEN r.flags[c.key].experiment ELSE Nil, s # None /\ s.gate, FALSE)

\* GetFeatureFlagWithPayload: a reply replaces all that is known of the flag.
PollerResult(c, s, r) ==
  Valued(IF c.key \in DOMAIN r.featureFlags THEN r.featureFlags[c.key] ELSE "false",
       IF c.key \in DOMAIN r.flags THEN r.flags[c.key].payload ELSE "",
       IF c.key \in DOMAIN r.flags THEN r.flags[c.key].experiment ELSE Nil, r.gate, FALSE)

\* getFeatureFlagFromRemote, without a poller: no value from a reply that is
\* quota limited or says that the flag failed.
RemoteResult(c, r) ==
  IF r.quota \/ c.key \notin DOMAIN r.flags \/ r.flags[c.key].failed
  THEN Valued(Nil, "", Nil, r.gate, FALSE)
  ELSE Valued(GetValue(r.flags[c.key]), r.flags[c.key].payload, r.flags[c.key].experiment, r.gate, FALSE)

\* recordFromFlagDetail
RecordOf(detail, gate) ==
  Valued(IF detail.failed \/ ~detail.enabled THEN "false" ELSE GetValue(detail),
       detail.payload, detail.experiment, gate, FALSE)

Overlay(under, over) ==
  [k \in DOMAIN under \cup DOMAIN over |-> IF k \in DOMAIN over THEN over[k] ELSE under[k]]

\* Mutant: the server's answer replaces what was evaluated locally.
SnapshotOfServer(c, s, r) ==
  LET records == Overlay(LocalRecords(c, s), [k \in DOMAIN r.flags |-> RecordOf(r.flags[k], r.gate)])
  IN  [Answer(records, "none") EXCEPT !.unresolved =
         [k \in DOMAIN Unresolved(c, s) \ DOMAIN records |-> Unresolved(c, s)[k]]]

\* evaluateFlagsWithContext: the server fills in what is missing.
SnapshotOf(c, s, r) ==
  LET asked == {k \in DOMAIN r.flags : ~r.quota /\ (c.filter => k \in c.keys)}
      records == Overlay([k \in asked |-> RecordOf(r.flags[k], r.gate)], LocalRecords(c, s))
  IN  [Answer(records, "none") EXCEPT !.unresolved =
         [k \in DOMAIN Unresolved(c, s) \ DOMAIN records |-> Unresolved(c, s)[k]]]

\* Values of the server replace local ones in the other calls.
RemoteAnswer(c, s, r) ==
  CASE c.op = "result" ->
         Result(c, IF hasPoller THEN PollerResult(c, s, r) ELSE RemoteResult(c, r), "none")
    [] c.op = "all" ->
         IF cancelled THEN Fails("cancelled")
         ELSE IF ~hasPoller /\ r.quota THEN Answer(NoFlags, "none")
         ELSE Answer(Overlay(IF hasPoller THEN Values(s) ELSE NoFlags,
                             [k \in DOMAIN r.featureFlags |-> Bare(r.featureFlags[k])]), "none")
    [] c.op = "capture" ->
         Answer(Overlay(Values(s), [k \in DOMAIN r.featureFlags |-> Bare(r.featureFlags[k])]), "none")
    [] c.op = "evaluate" -> SnapshotOf(c, s, r)

\* The request has failed.  A snapshot and a map of all flags keep what is local.
FailedAnswer(c, s) ==
  CASE c.op = "result"  -> Result(c, Bare(Nil), "request")
    [] c.op = "all" -> IF cancelled THEN Fails("cancelled")
                       ELSE Answer(IF hasPoller THEN Values(s) ELSE NoFlags, "request")
    [] c.op = "capture" -> Fails("request")
    [] c.op = "evaluate" -> [Answer(LocalRecords(c, s), "request") EXCEPT !.unresolved = Unresolved(c, s)]

--------------------------------------------------------------------------

ResolutionInit ==
  /\ hasPoller \in BOOLEAN /\ fetched = FALSE /\ loaded = None
  /\ pc = "idle" /\ request \in Requests /\ snap = None /\ attempt = 0
  /\ cancelled = FALSE /\ reply = NoReply /\ answer = Fails("none")

\* The poller stores other definitions; the first request may also end without any.
LoadDefinitions ==
  /\ hasPoller
  /\ fetched' = TRUE
  /\ loaded' \in Snapshots \cup {Cleared}
  /\ UNCHANGED <<hasPoller, pc, request, snap, attempt, cancelled, reply, answer>>

FirstFetchFails ==
  /\ hasPoller /\ ~fetched /\ fetched' = TRUE
  /\ UNCHANGED <<hasPoller, loaded, pc, request, snap, attempt, cancelled, reply, answer>>

Begin ==
  /\ pc = "idle" /\ pc' = "called"
  /\ UNCHANGED <<defsVars, request, snap, attempt, cancelled, reply, answer>>

\* The context is looked at before the evaluation and after it only.
Cancel ==
  /\ pc \in {"called", "asking"} /\ request.op \in {"result", "all"} /\ ~cancelled
  /\ cancelled' = TRUE
  /\ UNCHANGED <<defsVars, pc, request, snap, attempt, reply, answer>>

\* One snapshot of the definitions is selected, and evaluated.
EvaluateLocally ==
  /\ pc = "called"
  /\ Waits(request) => fetched
  /\ snap' = loaded
  /\ IF AsksServer(request, loaded)
     THEN pc' = "asking" /\ answer' = answer
     ELSE pc' = "returned" /\ answer' = LocalAnswer(request, loaded)
  /\ UNCHANGED <<defsVars, request, attempt, cancelled, reply>>

Return(a) == pc' = "returned" /\ answer' = a

\* A request goes out, and the server answers it.
ServerAnswers ==
  /\ pc = "asking" /\ attempt' = attempt + 1
  /\ \E body \in Replies : reply' = body /\ Return(RemoteAnswer(request, snap, Unmarshal(body)))
  /\ UNCHANGED <<defsVars, request, snap, cancelled>>

\* A timeout, a reset connection, a truncated body, 502 or 504: tried again.
RequestFailsForNow ==
  /\ pc = "asking" /\ attempt' = attempt + 1
  /\ IF attempt' < MaxAttempts THEN UNCHANGED <<pc, answer>>
     ELSE Return(FailedAnswer(request, snap))
  /\ UNCHANGED <<defsVars, request, snap, cancelled, reply>>

\* Another status, another error or a body that does not parse.
RequestFails ==
  /\ pc = "asking" /\ attempt' = attempt + 1
  /\ Return(FailedAnswer(request, snap))
  /\ UNCHANGED <<defsVars, request, snap, cancelled, reply>>

NextCall ==
  /\ pc = "returned"
  /\ pc' = "idle" /\ request' \in Requests /\ snap' = None /\ attempt' = 0
  /\ cancelled' = FALSE /\ reply' = NoReply /\ answer' = Fails("none")
  /\ UNCHANGED defsVars

ResolutionNext ==
  \/ LoadDefinitions \/ FirstFetchFails
  \/ Begin \/ Cancel \/ EvaluateLocally
  \/ ServerAnswers \/ RequestFailsForNow \/ RequestFails
  \/ NextCall

ResolutionSpec == ResolutionInit /\ [][ResolutionNext]_resolutionVars

--------------------------------------------------------------------------
(* Properties.                                                             *)

Returned(op) == pc = "returned" /\ request.op = op

\* The value of a flag, its payload, its experiment and the gate that shortens
\* its event come from one source: the definitions that were selected, though the
\* poller may have replaced them since, or the server's reply; and a call without
\* a value has an error.
OneSource ==
  Returned("result") /\ answer.err = "none" =>
    LET flag == answer.flags[request.key]
        FromServer == LET r == Unmarshal(reply)
                          d == r.flags[request.key]
                      IN  IF request.key \in DOMAIN r.flags
                          THEN Valued(GetValue(d), d.payload, d.experiment, r.gate, FALSE)
                          ELSE Valued("false", "", Nil, r.gate, FALSE)
    IN  /\ request.key \in DOMAIN answer.flags
        /\ flag = IF reply = NoReply THEN LocalFlag(snap, request.key) ELSE FromServer
        /\ answer.event = flag.value

\* A snapshot leaves no flag out of account: one that the definitions know has
\* the value they give it, or else the server's, or else a reason; and none is
\* both there and unresolved.  (A flag whose evaluation failed has no reason.)
EveryFlagAccountedFor ==
  Returned("evaluate") /\ hasPoller =>
    \A k \in Known(snap) :
      LET v == snap.flags[k].verdict
          served == reply # NoReply /\ ~reply.quota /\ k \in DOMAIN reply.flags
      IN  CASE request.filter /\ k \notin request.keys ->
                 k \notin DOMAIN answer.flags \cup DOMAIN answer.unresolved
            [] ~(request.filter /\ k \notin request.keys) /\ Resolved(v) ->
                 /\ k \in DOMAIN answer.flags /\ answer.flags[k] = LocalFlag(snap, k)
                 /\ k \notin DOMAIN answer.unresolved
            [] ~(request.filter /\ k \notin request.keys) /\ ~Resolved(v) ->
                 IF served THEN k \in DOMAIN answer.flags /\ k \notin DOMAIN answer.unresolved
                 ELSE /\ k \notin DOMAIN answer.flags
                      /\ v # Failed => k \in DOMAIN answer.unresolved /\ answer.unresolved[k] = v.why

\* "If the flag failed evaluation due to a transient server error, don't return
\* the incorrect enabled=false value".
FailedFlagsHaveNoValue ==
  Returned("result") /\ reply # NoReply =>
    LET r == Unmarshal(reply)
    IN  request.key \in DOMAIN r.flags /\ r.flags[request.key].failed => answer.flags = NoFlags

=============================================================================
