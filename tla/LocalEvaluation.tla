-------------------------- MODULE LocalEvaluation --------------------------
(***************************************************************************)
(* Evaluating a feature flag from its definition, without asking the       *)
(* server: conditions in their order, the filters of a condition, cohorts, *)
(* and flags that depend on flags, whose values are kept in a cache for    *)
(* one evaluation.                                                         *)
(*                                                                         *)
(* defs is one snapshot of the definitions:                                *)
(*   flags     key -> [active, continuity, aggregation, device, holdout,   *)
(*             earlyExit, conditions, buckets]                             *)
(*   groups    id -> [join, entries], the cohorts and the groups in them   *)
(*   explicit  property_matching_version is 2                              *)
(* A condition is [filters, admits, variant, aggregation]; a filter        *)
(* [type, key, op, value, negation, chain], where chain is <<>> both for a *)
(* missing dependency_chain and for the empty one of a circle.             *)
(*                                                                         *)
(* There is one group type, and a hash is the set of the bucketing values  *)
(* it lets in ("person", "device", "group"); buckets says which variant    *)
(* the hash gives each of them ("true": none).  The distinct_id and        *)
(* $group_key that are added to the properties are left out.               *)
(***************************************************************************)
EXTENDS PropertyMatch, SequencesExt

\* The two recursions of the evaluation, through groups and through flags that
\* depend on flags, are tied by the configurations: the calls that lead back
\* into MatchFilter and Inspect are constants whose value applies the operator
\* itself, so that theorems can be stated about them.
CONSTANTS
  Matching(_, _, _, _),   \* MatchFilter
  Inspecting(_, _, _, _)  \* Inspect

\* What a call passes: properties of the person, the key of its group
\* ("absent", "named", or "odd" when it is neither text nor number), the
\* properties of the group if any are passed, and whether there is a device id.
Call(person, group, passed, groupProperties, device) ==
  [person |-> person, group |-> group, passed |-> passed,
   groupProperties |-> groupProperties, device |-> device]

\* Who a flag is evaluated for.
Who(id, device) == [id |-> id, device |-> device]

\* getBucketingID
BucketingId(flag, who) == IF flag.device /\ who.device THEN "device" ELSE who.id

Effective(condition, flag) ==
  IF condition.aggregation = "inherit" THEN flag.aggregation ELSE condition.aggregation

--------------------------------------------------------------------------
(* What a definition says of itself.                                       *)

\* dependencyChainDefinitionError: a dependency must be loaded, and may only be
\* about what the condition is about.
ForeignTo(defs, key, aggregation) ==
  LET dep == defs.flags[key]
  IN  /\ dep.active
      /\ \/ dep.aggregation # aggregation
         \/ \E i \in DOMAIN dep.conditions :
              dep.conditions[i].aggregation \notin {"inherit", aggregation}

ChainError(defs, chain, aggregation) ==
  LET Wrong(key) == key \notin DOMAIN defs.flags \/ ForeignTo(defs, key, aggregation)
      first == CHOOSE i \in DOMAIN chain : Wrong(chain[i]) /\ \A j \in 1..(i - 1) : ~Wrong(chain[j])
  IN  CASE \A i \in DOMAIN chain : ~Wrong(chain[i]) -> Yes
        [] \E i \in DOMAIN chain : Wrong(chain[i]) ->
             IF chain[first] \notin DOMAIN defs.flags
             THEN Inconclusive("unsupported_definition") ELSE Server("unsupported_definition")

\* flagDependencyDefinitionError; Yes: there is none.
DependencyError(defs, filter, aggregation) ==
  IF filter.value.kind = "null" \/ filter.op # "flag_evaluates_to" \/ filter.chain = <<>>
  THEN Inconclusive("unsupported_definition")
  ELSE ChainError(defs, filter.chain, aggregation)

\* isUnsupportedProperty and isUnsupportedPropertyGroup.  A cohort is looked
\* into once, for the aggregation it is first met with.
InspectAll(defs, entries, aggregation, found) ==
  FoldLeft(LAMBDA f, entry : IF f.bad THEN f ELSE Inspecting(defs, entry, aggregation, f),
           found, entries)
Inspect(defs, filter, aggregation, found) ==
  CASE filter.type = "flag" ->
         [found EXCEPT !.bad = DependencyError(defs, filter, aggregation) # Yes]
    [] filter.type = "group" ->
         InspectAll(defs, defs.groups[filter.key].entries, aggregation, found)
    [] filter.type = "cohort" /\ filter.key \notin DOMAIN defs.groups ->
         [found EXCEPT !.bad = TRUE]
    [] filter.type = "cohort" /\ filter.key \in DOMAIN defs.groups ->
         IF filter.key \in found.visited THEN found
         ELSE InspectAll(defs, defs.groups[filter.key].entries, aggregation,
                         [found EXCEPT !.visited = @ \cup {filter.key}])
    [] OTHER -> [found EXCEPT !.bad = Unusable(filter, defs.explicit)]

\* Mutant: only the first condition is looked at.
DefinitionReasonOfFirst(defs, flag) ==
  CASE ~flag.active -> NoReason
    [] flag.active /\ flag.continuity -> "experience_continuity"
    [] OTHER ->
         IF flag.conditions # <<>> /\ InspectAll(defs, flag.conditions[1].filters,
              Effective(flag.conditions[1], flag), [bad |-> FALSE, visited |-> {}]).bad
         THEN "unsupported_definition" ELSE NoReason

\* definitionUnresolvedReason, which also decides what is warned about when
\* definitions load.
DefinitionReason(defs, flag) ==
  CASE ~flag.active -> NoReason
    [] flag.active /\ flag.continuity -> "experience_continuity"
    [] OTHER ->
         LET found == FoldLeft(
               LAMBDA f, c : IF f.bad THEN f
                             ELSE InspectAll(defs, c.filters, Effective(c, flag), f),
               [bad |-> FALSE, visited |-> {}], flag.conditions)
         IN  IF found.bad THEN "unsupported_definition" ELSE NoReason

--------------------------------------------------------------------------
(* Evaluating.  The cache maps the keys of flags to their values, or to    *)
(* "nil" for one that could not be evaluated.                              *)

NoCache == [k \in {} |-> "nil"]
Remember(cache, key, value) == [k \in DOMAIN cache \cup {key} |-> IF k = key THEN value ELSE cache[k]]
Found(verdict, cache) == [verdict |-> verdict, cache |-> cache]

\* checkFlagDependencyValue: true stands for any variant.
DependencyHolds(expected, actual) ==
  IF actual \in {"true", "false"} THEN expected.kind = "bool" /\ expected.text = actual
  ELSE IF expected.kind = "bool" THEN expected.text = "true"
  ELSE expected.kind = "text" /\ expected.text = actual

\* Mutant: what could not be checked counts as not holding, and a negation turns it around.
EntryUncheckedIsFalse(entry, verdict) ==
  Decided((verdict = Yes) # (entry.type # "group" /\ entry.negation))

\* An entry of a group, with its negation: what could not be checked decides
\* nothing either way.
Entry(entry, verdict) ==
  IF Resolved(verdict) THEN Decided((verdict = Yes) # (entry.type # "group" /\ entry.negation))
  ELSE verdict

\* matchParsedPropertyGroup: stops at the first entry that decides the group,
\* needs the server or fails.
AfterEntry(group, entry, acc, found) ==
  LET v == Entry(entry, found.verdict)
      next == [acc EXCEPT !.cache = found.cache]
  IN  CASE v.is = "inconclusive" -> [next EXCEPT !.pending = Pick(@, v.why)]
        [] v.is = "server" -> [next EXCEPT !.stop = TRUE, !.verdict = WithReason(v, acc.pending)]
        [] v.is = "failed" \/ v = Decided(group.join # "AND") ->
             [next EXCEPT !.stop = TRUE, !.verdict = v]
        [] OTHER -> next

GroupVerdict(group, end) ==
  Found(CASE group.entries = <<>> -> Yes
          [] group.entries # <<>> /\ end.stop -> end.verdict
          [] OTHER -> IF end.pending # NoReason THEN Inconclusive(end.pending)
                      ELSE Decided(group.join = "AND"),
        end.cache)

MatchGroup(defs, group, at, cache) ==
  GroupVerdict(group,
    FoldLeft(LAMBDA acc, entry :
               IF acc.stop THEN acc
               ELSE AfterEntry(group, entry, acc, Matching(defs, entry, at, acc.cache)),
             [stop |-> FALSE, verdict |-> No, pending |-> NoReason, cache |-> cache],
             group.entries))

\* isConditionMatch: "match", "nomatch" or "out" of the rollout.  A filter that
\* could not be checked does not stop the loop: a later one may rule the
\* condition out.
AfterFilter(acc, found) ==
  LET v == found.verdict
      next == [acc EXCEPT !.cache = found.cache]
  IN  CASE v.is = "server" ->
             [next EXCEPT !.server = IF acc.pending = NoReason THEN v ELSE @,
                          !.pending = Pick(@, v.why)]
        [] v.is = "inconclusive" -> [next EXCEPT !.pending = Pick(@, v.why)]
        [] v.is = "failed" ->
             IF acc.pending # NoReason THEN next
             ELSE [next EXCEPT !.stop = TRUE, !.verdict = v]
        [] OTHER ->
             IF v = Yes THEN next ELSE [next EXCEPT !.stop = TRUE, !.verdict = Value("nomatch")]

ConditionVerdict(condition, bucket, end) ==
  Found(CASE end.stop -> end.verdict
          [] ~end.stop /\ end.server # No -> WithReason(end.server, end.pending)
          [] ~end.stop /\ end.server = No /\ end.pending # NoReason ->
               Inconclusive(end.pending)
          [] OTHER -> Value(IF bucket \in condition.admits THEN "match" ELSE "out"),
        end.cache)

MatchCondition(defs, condition, at, bucket, cache) ==
  ConditionVerdict(condition, bucket,
    FoldLeft(LAMBDA acc, filter :
               IF acc.stop THEN acc
               ELSE AfterFilter(acc, Matching(defs, filter, at, acc.cache)),
             [stop |-> FALSE, verdict |-> No, pending |-> NoReason, server |-> No,
              cache |-> cache],
             condition.filters))

--------------------------------------------------------------------------
(* A flag.                                                                 *)

\* getHoldoutVariant: held out, not, or unknown without a device id.
Holdout(flag, who) ==
  LET h == flag.holdout
  IN  CASE h.share = "none" -> No
        [] h.share = "all" -> Yes
        [] h.share = "part" /\ flag.aggregation = "person" /\ flag.device /\ ~who.device ->
             Inconclusive("missing_context")
        [] OTHER -> Decided(BucketingId(flag, who) \in h.holds)

\* Mutant: a condition about the group is bucketed by the flag's own value.
TargetOfTheFlag(flag, condition, who, properties, call) ==
  LET mixed == Effective(condition, flag) # flag.aggregation
      known == Effective(condition, flag) # "unknown" /\ call.group = "named" /\ call.passed
  IN  [skip |-> mixed /\ ~known, why |-> NoReason, bucket |-> BucketingId(flag, who),
       properties |-> IF mixed /\ known THEN call.groupProperties ELSE properties]

\* The properties and the bucketing value a condition is checked with: those of
\* the flag, or of the group when the condition overrides the aggregation.
\* "skip": the condition cannot be about this call.
Target(flag, condition, who, properties, call) ==
  LET own == [skip |-> FALSE, why |-> NoReason, properties |-> properties,
              bucket |-> BucketingId(flag, who)]
      skipped(why) == [own EXCEPT !.skip = TRUE, !.why = why]
      aggregation == Effective(condition, flag)
  IN  CASE aggregation = flag.aggregation -> own
        [] aggregation = "unknown" /\ flag.aggregation # "unknown" -> skipped(NoReason)
        [] OTHER ->
             CASE call.group = "absent" -> skipped(NoReason)
               [] call.group # "absent" /\ ~call.passed -> skipped("missing_context")
               [] call.group = "odd" /\ call.passed -> skipped(NoReason)
               [] OTHER -> [own EXCEPT !.properties = call.groupProperties, !.bucket = "group"]

\* The value of a flag whose condition matches.
Matched(flag, condition, bucket) ==
  IF condition.variant \in flag.variants THEN condition.variant ELSE flag.buckets[bucket]

\* The rollout excludes the bucketing value and the flag exits early.
EarlyExit(acc, found) ==
  [acc EXCEPT !.stop = TRUE, !.cache = found.cache,
     !.verdict = IF acc.pending # NoReason THEN Inconclusive(acc.pending) ELSE Value("false")]

\* What a condition that was checked does to the loop over the conditions.
AfterCondition(defs, flag, condition, bucket, acc, found) ==
  LET v == found.verdict
      next == [acc EXCEPT !.cache = found.cache]
      definition == DefinitionReason(defs, flag)
  IN  CASE v.is = "server" ->
             [next EXCEPT !.stop = TRUE, !.verdict = WithReason(v,
                IF definition = NoReason THEN acc.pending ELSE Pick(acc.pending, definition))]
        [] v.is = "inconclusive" -> [next EXCEPT !.pending = Pick(@, v.why)]
        [] v.is = "failed" -> [next EXCEPT !.stop = TRUE, !.verdict = v]
        [] OTHER ->
             CASE v.value = "match" ->
                    [next EXCEPT !.stop = TRUE, !.verdict = Value(Matched(flag, condition, bucket))]
               [] v.value = "out" /\ flag.earlyExit -> EarlyExit(acc, found)
               [] OTHER -> next

\* One condition, for its target.
CheckCondition(defs, flag, condition, who, target, acc) ==
  LET aggregation == Effective(condition, flag)
      \* A flag the condition depends on is bucketed by the group's key, never by a device.
      dependent == IF aggregation = "person" THEN who ELSE Who(target.bucket, FALSE)
  IN  IF target.skip
      THEN IF target.why = NoReason THEN acc ELSE [acc EXCEPT !.pending = Pick(@, target.why)]
      ELSE AfterCondition(defs, flag, condition, target.bucket, acc,
             MatchCondition(defs, condition,
               [who |-> dependent, properties |-> target.properties,
                aggregation |-> aggregation], target.bucket, acc.cache))

FlagVerdict(end) ==
  Found(IF end.stop THEN end.verdict
        ELSE IF end.pending # NoReason THEN Inconclusive(end.pending)
        ELSE Value("false"), end.cache)

\* matchFeatureFlagProperties
MatchFlag(defs, flag, who, properties, call, cache) ==
  LET held == Holdout(flag, who)
  IN  CASE held = Yes -> Found(Value("holdout"), cache)
        [] held.is = "inconclusive" ->
             Found(Inconclusive(Pick(DefinitionReason(defs, flag), "missing_context")), cache)
        [] OTHER ->
             FlagVerdict(FoldLeft(
               LAMBDA acc, condition :
                 IF acc.stop THEN acc
                 ELSE CheckCondition(defs, flag, condition, who,
                        Target(flag, condition, who, properties, call), acc),
               [stop |-> FALSE, verdict |-> No, pending |-> NoReason, cache |-> cache],
               flag.conditions))

--------------------------------------------------------------------------
(* A filter on a property, a cohort or another flag.                       *)

\* What a dependency that was evaluated leaves in the cache.
Depended(key, found) ==
  CASE found.verdict.is = "value" -> Found(Yes, Remember(found.cache, key, found.verdict.value))
    [] found.verdict.is = "server" -> Found(Server("unresolved_dependency"), found.cache)
    [] OTHER -> Found(Inconclusive("unresolved_dependency"), Remember(found.cache, key, "nil"))

\* One dependency of a chain that is not in the cache yet.
EvaluateDependency(defs, key, at, cache) ==
  LET dep == defs.flags[key]
  IN  CASE ~dep.active -> Found(Yes, Remember(cache, key, "false"))
        [] dep.active /\ dep.continuity ->
             Found(Inconclusive("unresolved_dependency"), Remember(cache, key, "nil"))
        [] OTHER ->
             Depended(key, MatchFlag(defs, dep, at.who, at.properties,
               Call(at.properties, "absent", FALSE, NoCache, at.who.device), cache))

\* What the filter wants of its flag, once the chain is in the cache.
DependencyVerdict(filter, chained) ==
  CASE chained.verdict # Yes -> chained
    [] chained.verdict = Yes /\ filter.key \notin DOMAIN chained.cache ->
         Found(Inconclusive("unsupported_definition"), chained.cache)
    [] chained.verdict = Yes /\ filter.key \in DOMAIN chained.cache ->
         LET actual == chained.cache[filter.key]
         IN  Found(IF actual = "nil" THEN Inconclusive("unresolved_dependency")
                   ELSE Decided(DependencyHolds(filter.value, actual)), chained.cache)

\* evaluateFlagDependency
MatchDependency(defs, filter, at, cache) ==
  IF DependencyError(defs, filter, at.aggregation) # Yes
  THEN Found(DependencyError(defs, filter, at.aggregation), cache)
  ELSE DependencyVerdict(filter,
         FoldLeft(LAMBDA found, key :
                    IF found.verdict # Yes \/ key \in DOMAIN found.cache THEN found
                    ELSE EvaluateDependency(defs, key, at, found.cache),
                  Found(Yes, cache), filter.chain))

\* at: who and which properties a filter is checked for, and its aggregation.
MatchFilter(defs, filter, at, cache) ==
  CASE filter.type = "flag" -> MatchDependency(defs, filter, at, cache)
    [] filter.type \in {"group", "cohort"} ->
         IF filter.key \notin DOMAIN defs.groups
         THEN Found(Server("unsupported_definition"), cache)
         ELSE MatchGroup(defs, defs.groups[filter.key], at, cache)
    [] OTHER -> Found(MatchProperty(filter, at.properties, defs.explicit), cache)

\* computeFlagLocally
ComputeFlagLocally(defs, flag, call) ==
  CASE ~flag.active -> Value("false")
    [] flag.active /\ flag.continuity -> Inconclusive("experience_continuity")
    [] flag.active /\ ~flag.continuity /\ flag.aggregation = "group" /\ call.group = "absent" ->
         Inconclusive(Pick(DefinitionReason(defs, flag), "missing_context"))
    [] flag.active /\ ~flag.continuity /\ flag.aggregation = "group" /\ call.group = "odd" -> Failed
    [] flag.active /\ ~flag.continuity /\ flag.aggregation = "unknown" -> Failed
    [] OTHER ->
         LET person == flag.aggregation = "person"
         IN  MatchFlag(defs, flag,
               IF person THEN Who("person", call.device) ELSE Who("group", FALSE),
               IF person THEN call.person ELSE call.groupProperties, call, NoCache).verdict
=============================================================================
