---------------------------- MODULE FlagMeaning ----------------------------
(***************************************************************************)
(* What the definitions of FlagEvaluation mean for a call that passes      *)
(* everything, and what is blamed on definitions.                          *)
(***************************************************************************)
EXTENDS FlagEvaluation

--------------------------------------------------------------------------
(* Definitions and calls told apart.                                       *)

\* Filters that some properties decide and others do not: a list with a number
\* that may have had a fraction, and a class shorthand.
SometimesUsable(filter) ==
  \/ filter.op \in {"exact", "is_not"} /\ Ambiguous(filter.value)
  \/ filter.op \in {"regex", "not_regex"} /\ RegexClass[Shown(filter.value)] = "shorthand"

\* A cohort is inspected once for all conditions of a flag, also for those about
\* somebody else than the first that mentions it.
CohortsShared ==
  LET flag == defs.flags[Flag]
      Cohorts(c) == {c.filters[i].key : i \in {i \in DOMAIN c.filters : c.filters[i].type = "cohort"}}
  IN  \E i, j \in DOMAIN flag.conditions :
        /\ Effective(flag.conditions[i], flag) # Effective(flag.conditions[j], flag)
        /\ Cohorts(flag.conditions[i]) \cap Cohorts(flag.conditions[j]) # {}

\* A call that passes everything, and a version where one is compared.
Complete(c) ==
  /\ defs.reads \subseteq DOMAIN c.person /\ c.device
  /\ c.group = "named" /\ c.passed /\ defs.reads \subseteq DOMAIN c.groupProperties
  /\ \A filter \in PropertyFilters : filter.op \in Ranges \cup Comparisons =>
       LET v == c.person[filter.key] IN v.kind = "text" /\ ParseSemver(VersionOf[v.text]) # NoVersion

\* A filter that the flag reaches through a cohort or another flag fails.
DependencyFails ==
  \E filter \in FiltersOf(defs) \ PropertyFilters : filter.type = "person" /\
    \E properties \in {call.person, call.groupProperties} :
      MatchProperty(filter, properties, defs.explicit) = Failed

--------------------------------------------------------------------------
(* What a definition means, for a call that passes everything.             *)

RECURSIVE Means(_, _)
RECURSIVE MeaningOf(_, _)

\* Whom a flag or a condition is about.
ThePerson == [properties |-> call.person, id |-> "person", device |-> call.device]
TheGroup == [properties |-> call.groupProperties, id |-> "group", device |-> FALSE]

Means(filter, about) ==
  CASE filter.type = "flag" -> DependencyHolds(filter.value, MeaningOf(filter.key, about))
    [] filter.type \in {"cohort", "group"} ->
         LET group == defs.groups[filter.key]
             Holds(entry) == Means(entry, about) # (entry.type # "group" /\ entry.negation)
         IN  GroupMeans(group, [i \in DOMAIN group.entries |-> Holds(group.entries[i])])
    [] OTHER -> MatchProperty(filter, about.properties, defs.explicit) = Yes

MeaningOf(key, about) ==
  LET flag == defs.flags[key]
      About(c) == IF Effective(c, flag) = flag.aggregation THEN about ELSE TheGroup
      Holds(c) == /\ Effective(c, flag) # "unknown"    \* is about nobody
                  /\ \A j \in DOMAIN c.filters : Means(c.filters[j], About(c))
      bucket(a) == IF flag.device /\ a.device THEN "device" ELSE a.id
  IN  FlagMeans(flag,
        flag.holdout.share = "all" \/
          (flag.holdout.share = "part" /\ bucket(about) \in flag.holdout.holds),
        [i \in DOMAIN flag.conditions |-> Holds(flag.conditions[i])],
        [i \in DOMAIN flag.conditions |-> bucket(About(flag.conditions[i]))])

Meaning == MeaningOf(Flag, IF defs.flags[Flag].aggregation = "person" THEN ThePerson ELSE TheGroup)

--------------------------------------------------------------------------
(* Properties.                                                             *)

\* A call that passes everything is answered locally, with what the definition
\* means: whatever the order of the filters, the cohorts and their negations,
\* and whichever flag the cache was filled by.  (Comparing what is no number
\* fails the flag, and leaves those open that depend on it.)
CompleteCallsGetTheMeaning ==
  /\ Complete(call) /\ verdict # Failed /\ ~DependencyFails
  /\ \A k \in ActiveFlags : DefinitionReason(defs, defs.flags[k]) = NoReason
  /\ ~CohortsShared
  /\ ~\E filter \in PropertyFilters : SometimesUsable(filter)
  => verdict = Value(Meaning)

\* definitionUnresolvedReason "matches the reason local evaluation reports for
\* the same cause": what is blamed on the definition was warned about when the
\* definitions were loaded, unless conditions about a person and about a group
\* share a cohort.
BlamedDefinitionsWereWarnedAbout ==
  /\ verdict.why \in {"experience_continuity", "unsupported_definition"}
  /\ ~CohortsShared
  /\ ~\E filter \in PropertyFilters : SometimesUsable(filter)
  => DefinitionReason(defs, defs.flags[Flag]) = verdict.why
=============================================================================
