--------------------------- MODULE FlagEvaluation ---------------------------
(***************************************************************************)
(* An application that evaluates the flag Flag again and again, each time  *)
(* passing one more property than before, against definitions that stay.   *)
(* defs.reads are the keys of the properties the definitions mention.      *)
(***************************************************************************)
EXTENDS LocalEvaluation

CONSTANTS
  Definitions,      \* snapshots of definitions
  Flag,             \* key of the flag that is evaluated
  Calls,            \* what the first evaluation passes
  PersonProperties, \* key -> the values it may have
  GroupProperties,
  Depth(_),         \* how deep a filter nests
  MaxDepth

--------------------------------------------------------------------------
(* What definitions and properties look like.                              *)

IsSequence(s) == s \in Seq(Range(s))

\* What JSON decodes to: the items of a list are scalars, and every text is known.
Scalar(value) == value.kind # "list" /\ (value.kind = "text" => value.text \in Texts)
Decoded(value) ==
  IF value.kind = "list" THEN IsSequence(value.items) /\ \A i \in DOMAIN value.items : Scalar(value.items[i])
  ELSE Scalar(value)

FiltersOfFlag(flag) == UNION {Range(flag.conditions[i].filters) : i \in DOMAIN flag.conditions}
FiltersOf(definitions) ==
  UNION ({FiltersOfFlag(definitions.flags[k]) : k \in DOMAIN definitions.flags} \cup
         {Range(definitions.groups[id].entries) : id \in DOMAIN definitions.groups})

\* The filters that a filter leads to: those of its cohort or group, and those of
\* the flags of its chain.  An empty chain stands for a circle and leads nowhere.
LeadsTo(definitions, filter) ==
  CASE filter.type \in {"group", "cohort"} ->
         IF filter.key \in DOMAIN definitions.groups
         THEN Range(definitions.groups[filter.key].entries) ELSE {}
    [] filter.type = "flag" /\ filter.chain # <<>> ->
         UNION {FiltersOfFlag(definitions.flags[k]) :
                  k \in (Range(filter.chain) \cup {filter.key}) \cap DOMAIN definitions.flags}
    [] OTHER -> {}

\* A condition may only turn a flag about persons into one about groups, or
\* about a group type that does not exist.  A variant is told apart from on and off.
WellFormedFlag(flag) ==
  /\ flag.active \in BOOLEAN /\ flag.device \in BOOLEAN /\ flag.earlyExit \in BOOLEAN
  /\ flag.aggregation \in {"person", "group", "unknown"}
  /\ flag.variants \cap {"true", "false"} = {}
  /\ \A bucket \in {"person", "device", "group"} : flag.buckets[bucket] \in flag.variants \cup {"true"}
  /\ IsSequence(flag.conditions)
  /\ \A i \in DOMAIN flag.conditions :
       /\ IsSequence(flag.conditions[i].filters)
       /\ flag.conditions[i].aggregation \in {"inherit", "group", "unknown"}

WellFormedFilter(definitions, filter) ==
  /\ Decoded(filter.value)
  /\ filter.type = "flag" => IsSequence(filter.chain)
  /\ filter.type = "group" => filter.key \in DOMAIN definitions.groups

ASSUME TextsAssumption == DOMAIN VersionOf = Texts /\ \A t \in Texts : IsSequence(VersionOf[t])
ASSUME DefinitionsAssumption ==
  \A d \in Definitions :
    /\ d.explicit \in BOOLEAN /\ Flag \in DOMAIN d.flags /\ d.reads \subseteq DOMAIN PersonProperties
    /\ \A k \in DOMAIN d.flags : WellFormedFlag(d.flags[k])
    /\ \A id \in DOMAIN d.groups : IsSequence(d.groups[id].entries)
    /\ \A filter \in FiltersOf(d) : WellFormedFilter(d, filter)
\* Cohorts and chains have no circles.
ASSUME DepthAssumption ==
  /\ MaxDepth \in Nat
  /\ \A d \in Definitions : \A filter \in FiltersOf(d) :
       /\ Depth(filter) \in 0..MaxDepth
       /\ \A other \in LeadsTo(d, filter) : Depth(other) < Depth(filter)
ASSUME CallsAssumption ==
  /\ \A c \in Calls : /\ c = Call(c.person, c.group, c.passed, c.groupProperties, c.device)
                       /\ c.device \in BOOLEAN /\ \A k \in DOMAIN c.person : Decoded(c.person[k])
  /\ \A k \in DOMAIN PersonProperties : \A value \in PersonProperties[k] : Decoded(value)

--------------------------------------------------------------------------

VARIABLES defs, call, verdict

evaluationVars == <<defs, call, verdict>>

Evaluate(definitions, passed) ==
  ComputeFlagLocally(definitions, definitions.flags[Flag], passed)

EvaluationInit ==
  /\ defs \in Definitions
  /\ call \in Calls
  /\ verdict = Evaluate(defs, call)

Extend(properties, key, value) ==
  [k \in DOMAIN properties \cup {key} |-> IF k = key THEN value ELSE properties[k]]

\* The calls that pass one property more.
PersonSupplied ==
  UNION {{[call EXCEPT !.person = Extend(@, key, value)] : value \in PersonProperties[key]} :
           key \in defs.reads \ DOMAIN call.person}
GroupSupplied ==
  UNION {{[call EXCEPT !.groupProperties = Extend(@, key, value)] : value \in GroupProperties[key]} :
           key \in (defs.reads \cap DOMAIN GroupProperties) \ DOMAIN call.groupProperties}

EvaluationNext ==
  /\ call' \in PersonSupplied \cup (IF call.passed THEN GroupSupplied ELSE {})
  /\ verdict' = Evaluate(defs, call')
  /\ UNCHANGED defs

EvaluationSpec == EvaluationInit /\ [][EvaluationNext]_evaluationVars

--------------------------------------------------------------------------
(* What definitions mean: no order of filters, no third truth value, no    *)
(* cache and no chain.                                                     *)

\* A cohort, given which of its entries hold, negations included.
GroupMeans(group, holds) ==
  IF group.join = "AND" THEN \A i \in DOMAIN group.entries : holds[i]
  ELSE group.entries = <<>> \/ \E i \in DOMAIN group.entries : holds[i]

\* A flag, given which of its conditions hold and the bucketing values they are
\* checked with: the first condition that settles it decides.
FlagMeans(flag, held, holds, buckets) ==
  LET Admits(i) == buckets[i] \in flag.conditions[i].admits
      settling == {i \in DOMAIN flag.conditions : holds[i] /\ (Admits(i) \/ flag.earlyExit)}
      first == CHOOSE i \in settling : \A j \in settling : i <= j
  IN  CASE ~flag.active -> "false"
        [] flag.active /\ held -> "holdout"
        [] OTHER -> IF settling = {} \/ ~Admits(first) THEN "false"
                    ELSE Matched(flag, flag.conditions[first], buckets[first])

--------------------------------------------------------------------------
(* Properties.                                                             *)

\* The filters of the flag on properties.
PropertyFilters ==
  {filter \in UNION {{c.filters[i] : i \in DOMAIN c.filters} :
                       c \in {defs.flags[Flag].conditions[i] : i \in DOMAIN defs.flags[Flag].conditions}} :
     filter.type = "person"}

ActiveFlags == {k \in DOMAIN defs.flags : defs.flags[k].active}

\* Flags of which nothing but their being enabled can change.
Plainly(k) == LET flag == defs.flags[k] IN ~flag.earlyExit /\ flag.variants = {}

\* Two answers given locally never contradict each other, whatever the later
\* call passes in addition.  A flag with variants takes the first condition that
\* matches although one before it could not be checked, so of its answers only
\* "false" is final.  One that exits early may even take back a "false": the later
\* call may find open what made it exit, such as a flag it depends on that now
\* compares what is no number, and go on to a condition that matches.
AnswersNeverContradict ==
  [][/\ Resolved(verdict) /\ Resolved(verdict')
     /\ \A k \in ActiveFlags \ {Flag} : Plainly(k)
     /\ Plainly(Flag) \/ (verdict = Value("false") /\ ~defs.flags[Flag].earlyExit)
     => verdict' = verdict]_verdict

\* filterDefinitionError finds what "local evaluation cannot use [...] whatever
\* the call passes": it is kept in step by hand with the code that matches, and
\* that code decides none of the filters it finds and blames the definition.
UnusableFiltersDecideNothing ==
  \A filter \in PropertyFilters : Unusable(filter, defs.explicit) =>
    LET v == MatchProperty(filter, call.person, defs.explicit)
    IN  filter.op # "is_not_set" /\ ~Resolved(v) /\ v.why = "unsupported_definition"

\* The versions a range lets in are those its comment names, for versions
\* below the largest number.
RangesAdmitWhatTheySay ==
  \A filter \in PropertyFilters :
    LET v == MatchProperty(filter, call.person, defs.explicit)
        actual == ParseSemver(VersionOf[call.person[filter.key].text])
        given == VersionOf[filter.value.text]
    IN  filter.op \in Ranges /\ Resolved(v) /\ (\A i \in DOMAIN given : given[i] # MaxInt) =>
          (v = Yes <=>
             CASE filter.op = "semver_tilde" -> TildeAdmits(actual, ParseSemver(given))
               [] filter.op = "semver_caret" -> CaretAdmits(actual, ParseSemver(given))
               [] OTHER -> WildcardAdmits(actual, NonEmptyParts(given)))
=============================================================================
