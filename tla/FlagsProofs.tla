----------------------------- MODULE FlagsProofs -----------------------------
(***************************************************************************)
(* Safety of FlagEvaluation: which filters are never decided, what ranges  *)
(* of versions admit, which reason is reported, and that answers computed   *)
(* locally agree with each other.  Safety of FlagResolution, for any        *)
(* definitions, any replies of the server and any requests.                 *)
(***************************************************************************)
EXTENDS FlagResolution, FlagEvaluation, SequenceTheorems, WellFoundedInduction, TLAPS

--------------------------------------------------------------------------
(* Filters, and the reasons of what cannot be evaluated.                   *)

\* Nothing is decided of a filter whose value may have been written in two ways.
LEMMA AmbiguousDecidesNothing ==
  ASSUME NEW value, Decoded(value), NEW explicit \in BOOLEAN, AlwaysAmbiguous(value, explicit), NEW actual
  PROVE  ExactMatch(value, actual, explicit) = Inconclusive("unsupported_definition")
<1>1. explicit \/ ~TruthyOrFalsy(value)
  BY DEF AlwaysAmbiguous
<1>2. CASE value.kind = "list"
  <2>1. value.items # <<>> /\ \A i \in DOMAIN value.items : Ambiguous(value.items[i])
    BY <1>2 DEF AlwaysAmbiguous
  <2>2. PICK i \in DOMAIN value.items : TRUE
    BY <1>2, <2>1, EmptySeq, LenProperties DEF Decoded, IsSequence
  <2>3. Ambiguous(value)
    <3>1. Ambiguous(value.items[i]) /\ value.items[i].kind # "list"
      BY <1>2, <2>1, <2>2 DEF Decoded, Scalar
    <3>2. value.items[i].kind = "float" /\ value.items[i].num % 2 = 0
      BY <3>1 DEF Ambiguous
    <3>. QED BY <1>2, <2>2, <3>2 DEF Ambiguous
  <2>. QED BY <1>1, <1>2, <2>1, <2>3 DEF ExactMatch
<1>3. CASE value.kind # "list"
  <2>1. Ambiguous(value)
    BY <1>3 DEF AlwaysAmbiguous
  <2>. QED BY <1>1, <1>3, <2>1 DEF ExactMatch
<1>. QED BY <1>2, <1>3

\* What every reason for leaving a filter open says.
LEMMA Open ==
  /\ \A why : Inconclusive(why).is = "inconclusive" /\ Inconclusive(why).why = Named(why)
  /\ \A why : Server(why).is = "server" /\ Server(why).why = Named(why)
  /\ Named("unsupported_definition") = "unsupported_definition" /\ Named("missing_context") = "missing_context"
BY DEF Inconclusive, Server, Verdict, Named, NoReason

\* Of a filter that is unusable nothing is decided, and the call or the definition is blamed.
LEMMA UnusableIsOpen ==
  ASSUME NEW filter, Decoded(filter.value), NEW properties, NEW explicit \in BOOLEAN, Unusable(filter, explicit)
  PROVE  LET v == MatchPropertyValue(filter, properties, explicit)
         IN  ~Resolved(v) /\ v.why \in {"unsupported_definition", "missing_context"}
<1>. DEFINE v == MatchPropertyValue(filter, properties, explicit)
            unsupported == Inconclusive("unsupported_definition")
            missing == Inconclusive("missing_context")
            server == Server("unsupported_definition")
<1>1. \A x \in {unsupported, missing, server} :
        ~Resolved(x) /\ x.why \in {"unsupported_definition", "missing_context"}
  BY Open DEF Resolved
<1>. HIDE DEF unsupported, missing, server
<1>2. CASE filter.key \notin DOMAIN properties
  <2>1. v = missing
    BY <1>2 DEF MatchPropertyValue, missing
  <2>. QED BY <1>1, <2>1
<1>3. CASE filter.key \in DOMAIN properties
  <2>. DEFINE actual == properties[filter.key]
              exact == ExactMatch(filter.value, actual, explicit)
  <2>0. DOMAIN TextOperators = {"icontains", "not_icontains", "starts_with", "not_starts_with", "ends_with", "not_ends_with"}
    BY DEF TextOperators
  <2>1. CASE filter.op \notin Operators
    <3>1. v = unsupported
      BY <1>3, <2>1 DEF MatchPropertyValue, Operators, Propertyless, unsupported
    <3>. QED BY <1>1, <3>1
  <2>2. CASE filter.op \in {"exact", "is_not"} /\ AlwaysAmbiguous(filter.value, explicit)
    <3>1. exact = unsupported
      BY <2>2, AmbiguousDecidesNothing DEF unsupported
    <3>2. v = exact \/ v = Negated(exact)
      <4>. HIDE DEF exact
      <4>1. CASE filter.op = "exact"
        BY <1>3, <2>0, <4>1 DEF MatchPropertyValue, Ranges, Comparisons, exact
      <4>2. CASE filter.op = "is_not"
        BY <1>3, <2>0, <4>2 DEF MatchPropertyValue, Ranges, Comparisons, exact
      <4>. QED BY <2>2, <4>1, <4>2
    <3>. HIDE DEF exact
    <3>3. v = unsupported
      BY <1>1, <3>1, <3>2 DEF Negated
    <3>. QED BY <1>1, <3>3
  <2>3. CASE filter.op \in {"regex", "not_regex"} /\ RegexClass[Shown(filter.value)] = "foreign"
    <3>1. RegexMatch(filter.op, filter.value, actual) = server
      BY <2>3 DEF RegexMatch, server
    <3>2. v = RegexMatch(filter.op, filter.value, actual)
      <4>1. CASE filter.op = "regex"
        BY <1>3, <2>0, <4>1 DEF MatchPropertyValue, Ranges, Comparisons
      <4>2. CASE filter.op = "not_regex"
        BY <1>3, <2>0, <4>2 DEF MatchPropertyValue, Ranges, Comparisons
      <4>. QED BY <2>3, <4>1, <4>2
    <3>. QED BY <1>1, <3>1, <3>2
  <2>4. CASE filter.op \in Ranges \cup Comparisons /\ ~UsableVersion(filter.op, filter.value)
    <3>1. SemverMatch(filter.op, filter.value, actual) \in {missing, unsupported}
      BY <2>4 DEF SemverMatch, missing, unsupported
    <3>2. v = SemverMatch(filter.op, filter.value, actual)
      BY <1>3, <2>0, <2>4 DEF MatchPropertyValue, Ranges, Comparisons
    <3>. QED BY <1>1, <3>1, <3>2
  <2>. QED BY <2>1, <2>2, <2>3, <2>4 DEF Unusable
<1>. QED BY <1>2, <1>3

\* What loading the definitions finds unusable (filterDefinitionError) the code that
\* matches never decides, whatever a call passes, and it blames the definition: the two
\* are kept in step by hand.  FlagEvaluation checks it of its definitions, as
\* UnusableFiltersDecideNothing.
THEOREM UnusableFiltersAreNeverDecided ==
  ASSUME NEW filter, Decoded(filter.value), NEW properties, NEW explicit \in BOOLEAN, Unusable(filter, explicit)
  PROVE  LET v == MatchProperty(filter, properties, explicit)
         IN  ~Resolved(v) /\ v.why = "unsupported_definition"
<1>. DEFINE v == MatchPropertyValue(filter, properties, explicit)
<1>1. ~Resolved(v) /\ v.why \in {"unsupported_definition", "missing_context"}
  BY UnusableIsOpen
<1>2. ~Resolved(Inconclusive("unsupported_definition"))
      /\ Inconclusive("unsupported_definition").why = "unsupported_definition"
  BY Open DEF Resolved
<1>. HIDE DEF v
<1>. QED BY <1>1, <1>2 DEF MatchProperty, Blamed, v

\* Whatever the order in which conditions and filters are found open, the same reason is
\* reported: the earliest of unresolvedFlagReasons, and the definition's for an error
\* that names none (pickUnresolvedReason).
THEOREM ReasonsHaveNoOrder ==
  ASSUME NEW current \in Reasons \cup {NoReason}, NEW why \in Reasons \cup {NoReason},
         NEW other \in Reasons \cup {NoReason}
  PROVE  /\ Pick(Pick(current, why), other) = Pick(Pick(current, other), why)
         /\ Pick(Pick(current, why), why) = Pick(current, why)
         /\ Pick(current, why) \in Reasons
         /\ Rank(Pick(current, why)) <= Rank(current)
         /\ Rank(Pick(current, why)) <= Rank(Named(why))
<1>1. Reasons = {"experience_continuity", "unsupported_definition", "unresolved_dependency", "missing_context"}
  BY DEF Reasons, Place
<1>2. /\ Rank("experience_continuity") = 0 /\ Rank("unsupported_definition") = 1
      /\ Rank("unresolved_dependency") = 2 /\ Rank("missing_context") = 3 /\ Rank(NoReason) = 4
  BY <1>1 DEF Rank, Place, NoReason
<1>. QED BY <1>1, <1>2 DEF Pick, Earlier, Named, NoReason

--------------------------------------------------------------------------
(* The application of FlagEvaluation, which evaluates a flag again and      *)
(* again.                                                                   *)

CallOK(c) ==
  /\ c = Call(c.person, c.group, c.passed, c.groupProperties, c.device)
  /\ c.device \in BOOLEAN /\ \A k \in DOMAIN c.person : Decoded(c.person[k])

EvaluationInv == defs \in Definitions /\ CallOK(call) /\ verdict = Evaluate(defs, call)

\* What a later call passes: the same, and one property more.
Passes(c, later) ==
  /\ later.group = c.group /\ later.passed = c.passed /\ later.device = c.device
  /\ \A k \in DOMAIN c.person : k \in DOMAIN later.person /\ later.person[k] = c.person[k]
  /\ \A k \in DOMAIN c.groupProperties :
       k \in DOMAIN later.groupProperties /\ later.groupProperties[k] = c.groupProperties[k]

LEMMA CallIsOK ==
  ASSUME NEW person, \A k \in DOMAIN person : Decoded(person[k]), NEW group, NEW passed, NEW groupProperties,
         NEW device \in BOOLEAN
  PROVE  CallOK(Call(person, group, passed, groupProperties, device))
<1>. DEFINE c == Call(person, group, passed, groupProperties, device)
<1>1. /\ c.person = person /\ c.group = group /\ c.passed = passed
      /\ c.groupProperties = groupProperties /\ c.device = device
  BY DEF Call
<1>. HIDE DEF c
<1>2. c = Call(c.person, c.group, c.passed, c.groupProperties, c.device)
  BY <1>1 DEF c
<1>3. CallOK(c)
  BY <1>1, <1>2 DEF CallOK
<1>. QED BY <1>3 DEF c

LEMMA MorePassed ==
  ASSUME NEW person, NEW group, NEW passed, NEW groupProperties, NEW device, NEW more, NEW groupMore,
         \A k \in DOMAIN person : k \in DOMAIN more /\ more[k] = person[k],
         \A k \in DOMAIN groupProperties : k \in DOMAIN groupMore /\ groupMore[k] = groupProperties[k]
  PROVE  Passes(Call(person, group, passed, groupProperties, device), Call(more, group, passed, groupMore, device))
BY DEF Passes, Call

LEMMA SuppliedCall ==
  ASSUME EvaluationInv, NEW later, later \in PersonSupplied \cup GroupSupplied
  PROVE  CallOK(later) /\ Passes(call, later)
<1>. DEFINE person == call.person
            groupProperties == call.groupProperties
<1>1. /\ call = Call(person, call.group, call.passed, groupProperties, call.device)
      /\ call.device \in BOOLEAN /\ \A k \in DOMAIN person : Decoded(person[k])
      /\ defs.reads \subseteq DOMAIN PersonProperties
  BY DefinitionsAssumption DEF EvaluationInv, CallOK
<1>. HIDE DEF person, groupProperties
<1>2. CASE later \in PersonSupplied
  <2>1. PICK key \in defs.reads \ DOMAIN person : \E value \in PersonProperties[key] :
          later = [call EXCEPT !.person = Extend(person, key, value)]
    BY <1>2 DEF PersonSupplied, person
  <2>2. PICK value \in PersonProperties[key] : later = [call EXCEPT !.person = Extend(person, key, value)]
    BY <2>1
  <2>. DEFINE more == Extend(person, key, value)
  <2>3. /\ DOMAIN more = DOMAIN person \cup {key} /\ more[key] = value
        /\ \A k \in DOMAIN person : more[k] = person[k]
    BY <2>1 DEF Extend
  <2>. HIDE DEF more
  <2>4. later = Call(more, call.group, call.passed, groupProperties, call.device)
    BY <1>1, <2>2 DEF more, Call
  <2>5. Decoded(value)
    BY <1>1, <2>1, <2>2, CallsAssumption
  <2>6. \A k \in DOMAIN more : Decoded(more[k])
    BY <1>1, <2>3, <2>5
  <2>7. CallOK(later)
    BY <1>1, <2>4, <2>6, CallIsOK
  <2>8. Passes(call, later)
    BY <1>1, <2>3, <2>4, MorePassed
  <2>. QED BY <2>7, <2>8
<1>3. CASE later \in GroupSupplied
  <2>1. PICK key \in (defs.reads \cap DOMAIN GroupProperties) \ DOMAIN groupProperties :
          \E value \in GroupProperties[key] :
            later = [call EXCEPT !.groupProperties = Extend(groupProperties, key, value)]
    BY <1>3 DEF GroupSupplied, groupProperties
  <2>2. PICK value : later = [call EXCEPT !.groupProperties = Extend(groupProperties, key, value)]
    BY <2>1
  <2>. DEFINE more == Extend(groupProperties, key, value)
  <2>3. /\ DOMAIN more = DOMAIN groupProperties \cup {key}
        /\ \A k \in DOMAIN groupProperties : more[k] = groupProperties[k]
    BY <2>1 DEF Extend
  <2>. HIDE DEF more
  <2>4. later = Call(person, call.group, call.passed, more, call.device)
    BY <1>1, <2>2 DEF more, Call
  <2>7. CallOK(later)
    BY <1>1, <2>4, CallIsOK
  <2>8. Passes(call, later)
    BY <1>1, <2>3, <2>4, MorePassed
  <2>. QED BY <2>7, <2>8
<1>. QED BY <1>2, <1>3

LEMMA Evaluated == EvaluationSpec => []EvaluationInv
<1>1. EvaluationInit => EvaluationInv
  BY CallsAssumption DEF EvaluationInit, EvaluationInv, CallOK
<1>2. EvaluationInv /\ [EvaluationNext]_evaluationVars => EvaluationInv'
  <2>1. ASSUME EvaluationInv, EvaluationNext PROVE EvaluationInv'
    <3>1. CallOK(call')
      BY <2>1, SuppliedCall DEF EvaluationNext
    <3>. QED BY <2>1, <3>1 DEF EvaluationNext, EvaluationInv
  <2>2. ASSUME EvaluationInv, UNCHANGED evaluationVars PROVE EvaluationInv'
    BY <2>2 DEF EvaluationInv, evaluationVars
  <2>. QED BY <2>1, <2>2
<1>. QED BY <1>1, <1>2, PTL DEF EvaluationSpec

LEMMA PropertyFiltersAreFilters ==
  ASSUME EvaluationInv, NEW filter \in PropertyFilters
  PROVE  filter \in FiltersOf(defs) /\ Decoded(filter.value) /\ defs.explicit \in BOOLEAN
<1>1. Flag \in DOMAIN defs.flags /\ defs.explicit \in BOOLEAN
  BY DefinitionsAssumption DEF EvaluationInv
<1>2. PICK c \in {defs.flags[Flag].conditions[i] : i \in DOMAIN defs.flags[Flag].conditions} :
        \E i \in DOMAIN c.filters : filter = c.filters[i]
  BY DEF PropertyFilters
<1>3. PICK i \in DOMAIN defs.flags[Flag].conditions :
        \E j \in DOMAIN defs.flags[Flag].conditions[i].filters :
          filter = defs.flags[Flag].conditions[i].filters[j]
  BY <1>2
<1>4. filter \in Range(defs.flags[Flag].conditions[i].filters)
  BY <1>3 DEF Range
<1>5. filter \in FiltersOfFlag(defs.flags[Flag])
  BY <1>3, <1>4 DEF FiltersOfFlag
<1>6. filter \in FiltersOf(defs)
  BY <1>1, <1>5 DEF FiltersOf
<1>. QED BY <1>1, <1>6, DefinitionsAssumption DEF EvaluationInv, WellFormedFilter

\* What loading the definitions finds unusable is decided for no call of the application
\* (filterDefinitionError, matchProperty).
THEOREM UnusableFiltersStayUndecided == EvaluationSpec => []UnusableFiltersDecideNothing
<1>1. EvaluationInv => UnusableFiltersDecideNothing
  <2>. SUFFICES ASSUME EvaluationInv, NEW filter \in PropertyFilters, Unusable(filter, defs.explicit)
                PROVE  LET v == MatchProperty(filter, call.person, defs.explicit)
                       IN  filter.op # "is_not_set" /\ ~Resolved(v) /\ v.why = "unsupported_definition"
    BY DEF UnusableFiltersDecideNothing
  <2>1. Decoded(filter.value) /\ defs.explicit \in BOOLEAN
    BY PropertyFiltersAreFilters
  <2>2. filter.op # "is_not_set"
    BY DEF Unusable, Operators, Propertyless, Ranges, Comparisons
  <2>. QED BY <2>1, <2>2, UnusableFiltersAreNeverDecided
<1>. QED BY <1>1, Evaluated, PTL

--------------------------------------------------------------------------
(* The folds of the model.  A fold over a sequence is the last state of a   *)
(* run with one step per item.                                              *)

LEMMA HasLeast ==
  ASSUME NEW S, S \subseteq Nat, S # {}
  PROVE  \E i \in S : \A j \in S : i <= j
<1>. DEFINE R == {ss \in Nat \X Nat : ss[1] < ss[2]}
<1>1. IsWellFoundedOn(R, Nat)
  BY NatLessThanWellFounded DEF OpToRel
<1>2. \A i \in Nat, j \in Nat : <<i, j>> \in R <=> i < j
  OBVIOUS
<1>. HIDE DEF R
<1>3. PICK i \in S : \A j \in S : ~ (<<j, i>> \in R)
  BY <1>1, WFMin
<1>4. ASSUME NEW j \in S PROVE i <= j
  <2>1. i \in Nat /\ j \in Nat
    OBVIOUS
  <2>2. ~ (<<j, i>> \in R)
    BY <1>3
  <2>3. ~ (j < i)
    BY <1>2, <2>1, <2>2, Zenon
  <2>. QED BY <2>1, <2>3
<1>. QED BY <1>3, <1>4

\* Induction up to a bound, over a set of numbers.
LEMMA UpTo ==
  ASSUME NEW n \in Nat, NEW I, 0 \in I, \A i \in 0..n : i < n /\ i \in I => i + 1 \in I
  PROVE  \A i \in 0..n : i \in I
<1>. DEFINE Out == (0..n) \ I
<1>. SUFFICES ASSUME Out # {} PROVE FALSE
  OBVIOUS
<1>0. Out \subseteq Nat
  OBVIOUS
<1>1. PICK i \in Out : \A j \in Out : i <= j
  <2>. HIDE DEF Out
  <2>. QED BY <1>0, HasLeast
<1>2. i \in Nat /\ i # 0 /\ i <= n /\ i \notin I
  OBVIOUS
<1>3. i - 1 \in 0..n /\ i - 1 < n /\ (i - 1) + 1 = i
  BY <1>2
<1>4. i - 1 \in I
  BY <1>1, <1>3
<1>5. (i - 1) + 1 \in I
  BY <1>3, <1>4
<1>. QED BY <1>2, <1>3, <1>5

LEMMA MaxOfInterval ==
  ASSUME NEW n \in Nat, NEW s \in SUBSET (1..(n+1)), n + 1 \in s
  PROVE  Max(s) = n + 1 
<1>1. n + 1 \in s /\ \A y \in s : n + 1 >= y
  OBVIOUS
<1>2. \A x \in s : (\A y \in s : x >= y) => x = n + 1
  OBVIOUS
<1>. DEFINE m == Max(s)
<1>3. m \in s /\ \A y \in s : m >= y
  BY <1>1 DEF Max
<1>. QED BY <1>2, <1>3

\* A finite set of numbers has its maximum.
LEMMA MaxIn ==
  ASSUME NEW n \in Nat, NEW s \in SUBSET (1..n), s # {}
  PROVE  Max(s) \in s
<1>. DEFINE Least == {m \in 1..n : \A y \in s : m >= y}
<1>1. n \in Least /\ Least \subseteq Nat
  <2>1. PICK y \in s : TRUE
    OBVIOUS
  <2>2. n >= 1
    BY <2>1
  <2>. QED BY <2>2
<1>2. PICK m \in Least : \A k \in Least : m <= k
  <2>. HIDE DEF Least
  <2>. QED BY <1>1, HasLeast
<1>3. m \in s
  <2>. SUFFICES ASSUME m \notin s PROVE FALSE
    OBVIOUS
  <2>1. \A y \in s : y \in Nat /\ y >= 1 /\ m >= y /\ m # y
    BY <1>2
  <2>2. m \in 1..n
    OBVIOUS
  <2>3. \A y \in s : m - 1 >= y
    BY <2>1, <2>2
  <2>4. PICK y \in s : TRUE
    OBVIOUS
  <2>5. m - 1 \in 1..n
    BY <2>1, <2>2, <2>3, <2>4
  <2>6. m - 1 \in Least
    BY <2>3, <2>5
  <2>7. m <= m - 1
    BY <1>2, <2>6
  <2>. QED BY <2>2, <2>7
<1>4. m \in s /\ \A y \in s : m >= y
  BY <1>2, <1>3
<1>. QED BY <1>4 DEF Max

HasFold(A, base, S, n, seq, g) ==
  \E it \in [SUBSET (1..n) -> A] :
    \A s \in SUBSET (1..n) : it[s] = IF s = {} THEN base ELSE g[it[s \ {Max(s)}]][seq[Max(s)]]

LEMMA FoldExists ==
  ASSUME NEW A, NEW base \in A, NEW S, NEW n \in Nat, NEW seq \in [1..n -> S], NEW g \in [A -> [S -> A]]
  PROVE  HasFold(A, base, S, n, seq, g)
<1>. DEFINE Fold(it, k) ==
              \A s \in SUBSET (1..k) : it[s] = IF s = {} THEN base ELSE g[it[s \ {Max(s)}]][seq[Max(s)]]
            I == {k \in 0..n : \E it \in [SUBSET (1..k) -> A] : Fold(it, k)}
<1>1. 0 \in I
  <2>. DEFINE it == [s \in SUBSET (1..0) |-> base]
  <2>1. \A s \in SUBSET (1..0) : s = {}
    OBVIOUS
  <2>2. it \in [SUBSET (1..0) -> A] /\ Fold(it, 0)
    BY <2>1
  <2>. HIDE DEF it, Fold
  <2>3. \E f \in [SUBSET (1..0) -> A] : Fold(f, 0)
    BY <2>2
  <2>4. 0 \in 0..n
    OBVIOUS
  <2>. QED BY <2>3, <2>4, Zenon
<1>2. ASSUME NEW k \in 0..n, k < n, k \in I PROVE k + 1 \in I
  <2>1. PICK it \in [SUBSET (1..k) -> A] : Fold(it, k)
    BY <1>2
  <2>. DEFINE more == [s \in SUBSET (1..(k+1)) |-> IF k + 1 \in s THEN g[it[s \ {k+1}]][seq[k+1]] ELSE it[s]]
  <2>0. \A x \in 1..(k+1) : x # k + 1 => x \in 1..k
    OBVIOUS
  <2>2. \A s \in SUBSET (1..(k+1)) : s \ {k+1} \in SUBSET (1..k)
    BY <2>0
  <2>3. \A s \in SUBSET (1..(k+1)) : k + 1 \notin s => s \in SUBSET (1..k)
    BY <2>0
  <2>4. seq[k+1] \in S
    BY <1>2
  <2>5. more \in [SUBSET (1..(k+1)) -> A]
    <3>1. ASSUME NEW s \in SUBSET (1..(k+1)) PROVE (IF k + 1 \in s THEN g[it[s \ {k+1}]][seq[k+1]] ELSE it[s]) \in A
      <4>1. CASE k + 1 \in s
        <5>1. it[s \ {k+1}] \in A
          BY <2>1, <2>2
        <5>2. g[it[s \ {k+1}]] \in [S -> A]
          BY <5>1
        <5>3. g[it[s \ {k+1}]][seq[k+1]] \in A
          BY <2>4, <5>2
        <5>. QED BY <4>1, <5>3
      <4>2. CASE k + 1 \notin s
        BY <2>1, <2>3, <4>2
      <4>. QED BY <4>1, <4>2
    <3>. QED BY <3>1
  <2>6. ASSUME NEW s \in SUBSET (1..(k+1))
        PROVE  more[s] = IF s = {} THEN base ELSE g[more[s \ {Max(s)}]][seq[Max(s)]]
    <3>1. CASE k + 1 \in s
      <4>1. Max(s) = k + 1 /\ s # {}
        BY <3>1, MaxOfInterval
      <4>2. more[s \ {k+1}] = it[s \ {k+1}]
        BY <2>2
      <4>3. more[s] = g[it[s \ {k+1}]][seq[k+1]]
        BY <3>1
      <4>. QED BY <4>1, <4>2, <4>3
    <3>2. CASE k + 1 \notin s
      <4>1. s \in SUBSET (1..k) /\ s \ {Max(s)} \in SUBSET (1..k)
        BY <2>3, <3>2
      <4>2. more[s] = it[s] /\ more[s \ {Max(s)}] = it[s \ {Max(s)}]
        BY <4>1
      <4>. QED BY <2>1, <4>1, <4>2
    <3>. QED BY <3>1, <3>2
  <2>. HIDE DEF more
  <2>7. Fold(more, k + 1)
    BY <2>6
  <2>. HIDE DEF Fold
  <2>8. \E f \in [SUBSET (1..(k+1)) -> A] : Fold(f, k + 1)
    BY <2>5, <2>7
  <2>9. k + 1 \in 0..n
    BY <1>2
  <2>. QED BY <2>8, <2>9
<1>. HIDE DEF I
<1>3. \A k \in 0..n : k \in I
  BY <1>1, <1>2, UpTo
<1>4. n \in I
  BY <1>3
<1>. QED BY <1>4 DEF I, HasFold

\* The set a fold has left to go through after a prefix.
LEMMA Prefix ==
  ASSUME NEW k \in Nat
  PROVE  Max(1..(k+1)) = k + 1 /\ (1..(k+1)) \ {k+1} = 1..k /\ 1..(k+1) # {}
<1>1. k + 1 \in 1..(k+1) /\ 1..(k+1) \in SUBSET (1..(k+1))
  OBVIOUS
<1>2. Max(1..(k+1)) = k + 1
  BY <1>1, MaxOfInterval
<1>3. \A x : x \in (1..(k+1)) \ {k+1} <=> x \in 1..k
  OBVIOUS
<1>4. (1..(k+1)) \ {k+1} = 1..k
  BY <1>3, Zenon
<1>5. 1..(k+1) # {}
  BY <1>1, Zenon
<1>. QED BY <1>2, <1>4, <1>5

--------------------------------------------------------------------------
(* Answers about one snapshot of the definitions never contradict each    *)
(* other.  First, the induction over a fold.                               *)

\* What holds of a fold at its end: States[i] are the states it may be in after i items.
IsFold(A, base, S, seq, g) == base \in A /\ seq \in Seq(S) /\ g \in [A -> [S -> A]]
Unfolds(A, base, seq, g, it) ==
  /\ it[{}] = base
  /\ \A s \in SUBSET DOMAIN seq : s # {} /\ it[s \ {Max(s)}] \in A => it[s] = g[it[s \ {Max(s)}]][seq[Max(s)]]
Keeps(A, base, seq, g, States) ==
  /\ base \in States[0]
  /\ \A i \in 0..(Len(seq) - 1) : \A acc \in A : acc \in States[i] => g[acc][seq[i+1]] \in States[i+1]

LEMMA FoldInvariant ==
  ASSUME NEW A, NEW base, NEW S, NEW seq, NEW g, NEW it, NEW States,
         IsFold(A, base, S, seq, g), Unfolds(A, base, seq, g, it), Keeps(A, base, seq, g, States)
  PROVE  it[DOMAIN seq] \in A /\ it[DOMAIN seq] \in States[Len(seq)]
<1>. USE DEF IsFold, Unfolds, Keeps
<1>. DEFINE n == Len(seq)
            I == {i \in 0..n : it[1..i] \in A /\ it[1..i] \in States[i]}
<1>1. n \in Nat /\ DOMAIN seq = 1..n
  OBVIOUS
<1>2. 0 \in I
  <2>1. 1..0 = {}
    OBVIOUS
  <2>2. it[1..0] = base
    BY <2>1
  <2>. QED BY <1>1, <2>2
<1>3. ASSUME NEW i \in 0..n, i < n, i \in I PROVE i + 1 \in I
  <2>1. i \in 0..(n-1) /\ i \in Nat /\ i + 1 \in 0..n /\ i + 1 \in DOMAIN seq
    BY <1>1, <1>3
  <2>2. Max(1..(i+1)) = i + 1 /\ (1..(i+1)) \ {i+1} = 1..i /\ 1..(i+1) # {}
    BY <2>1, Prefix
  <2>3. 1..(i+1) \in SUBSET DOMAIN seq
    BY <1>1, <2>1
  <2>4. it[1..i] \in A /\ it[1..i] \in States[i]
    BY <1>3
  <2>5. it[1..(i+1)] = g[it[1..i]][seq[i+1]]
    BY <2>2, <2>3, <2>4
  <2>6. g[it[1..i]] \in [S -> A] /\ seq[i+1] \in S
    BY <2>1, <2>4
  <2>7. it[1..(i+1)] \in A
    BY <2>5, <2>6
  <2>8. it[1..(i+1)] \in States[i+1]
    BY <2>1, <2>4, <2>5
  <2>. QED BY <2>1, <2>7, <2>8
<1>. HIDE DEF I
<1>4. \A i \in 0..n : i \in I
  BY <1>1, <1>2, <1>3, UpTo
<1>5. n \in 0..n
  BY <1>1
<1>6. n \in I
  BY <1>4, <1>5, Zenon
<1>7. it[1..n] \in A /\ it[1..n] \in States[n]
  BY <1>6 DEF I
<1>. QED BY <1>1, <1>7

--------------------------------------------------------------------------
(* What the answers have in common.                                        *)

\* Whom and what a filter is checked with, by what its condition is about.
Aggregations == {"person", "group", "unknown"}
Whom(c, a) == IF a = "person" THEN Who("person", c.device) ELSE Who("group", FALSE)
Properties(c, a) == IF a = "person" THEN c.person ELSE c.groupProperties
Checked(c, a) == [who |-> Whom(c, a), properties |-> Properties(c, a), aggregation |-> a]
TargetOf(flag, i, c) ==
  Target(flag, flag.conditions[i], Whom(c, flag.aggregation), Properties(c, flag.aggregation), c)

\* An interpretation says of every filter whether it holds, for each aggregation.
\* Under it a flag has one value.
EntryHolds(entry, holds) == holds # (entry.type # "group" /\ entry.negation)
ConditionHolds(flag, i, c, T) ==
  /\ ~TargetOf(flag, i, c).skip
  /\ \A j \in DOMAIN flag.conditions[i].filters :
       T[Effective(flag.conditions[i], flag)][flag.conditions[i].filters[j]]
ValueUnder(flag, c, T) ==
  FlagMeans(flag, Holdout(flag, Whom(c, flag.aggregation)) = Yes,
            [i \in DOMAIN flag.conditions |-> ConditionHolds(flag, i, c, T)],
            [i \in DOMAIN flag.conditions |-> TargetOf(flag, i, c).bucket])

\* What a filter means that is made of others.
Composite == {"flag", "group", "cohort"}
HoldsUnder(d, c, T, a, filter) ==
  IF filter.type = "flag"
  THEN filter.chain # <<>> /\ filter.key \in DOMAIN d.flags
       /\ DependencyHolds(filter.value, ValueUnder(d.flags[filter.key], c, T))
  ELSE filter.key \in DOMAIN d.groups
       /\ LET group == d.groups[filter.key]
          IN  GroupMeans(group, [i \in DOMAIN group.entries |-> EntryHolds(group.entries[i], T[a][group.entries[i]])])

\* T is an interpretation of the definitions that the properties of the call do not refute.
Meant(d, c, T, a, filter) ==
  IF filter.type \in Composite THEN T[a][filter] = HoldsUnder(d, c, T, a, filter)
  ELSE LET v == MatchProperty(filter, Properties(c, a), d.explicit)
       IN  Resolved(v) => v = Decided(T[a][filter])
Interprets(d, c, T) == \A a \in Aggregations, filter \in FiltersOf(d) : Meant(d, c, T, a, filter)
Interpretations(d) == [Aggregations -> [FiltersOf(d) -> BOOLEAN]]

\* The domains of verdicts and caches.
FlagValues(d) ==
  {"none", "true", "false", "match", "nomatch", "out", "holdout"} \cup UNION {d.flags[k].variants : k \in DOMAIN d.flags}
Verdicts_(d) ==
  [is : {"value", "inconclusive", "server", "failed"}, value : FlagValues(d), why : Reasons \cup {NoReason}]
\* A cache knows of a flag what it means, or that it could not be evaluated.
Caches(d, c, T) ==
  {cache \in UNION {[K -> FlagValues(d) \cup {"nil"}] : K \in SUBSET DOMAIN d.flags} :
     \A k \in DOMAIN cache : cache[k] \in {"nil", ValueUnder(d.flags[k], c, T)}}
Answers(d, c, T) == [verdict : Verdicts_(d), cache : Caches(d, c, T)]

\* A filter is decided as the interpretation has it, or is not decided.
Sound(d, c, T, filter) ==
  \A a \in Aggregations, cache \in Caches(d, c, T) :
    LET found == MatchFilter(d, filter, Checked(c, a), cache)
    IN  found \in Answers(d, c, T) /\ (Resolved(found.verdict) => found.verdict = Decided(T[a][filter]))

LEMMA PickIsAReason ==
  ASSUME NEW current \in Reasons \cup {NoReason}, NEW next \in Reasons \cup {NoReason}
  PROVE  Pick(current, next) \in Reasons
<1>1. Named(next) \in Reasons
  BY DEF Named, Reasons, Place
<1>. QED BY <1>1 DEF Pick, Earlier

LEMMA VerdictsAreTyped ==
  ASSUME NEW d, NEW why \in Reasons \cup {NoReason}, NEW v \in Verdicts_(d)
  PROVE  /\ Inconclusive(why) \in Verdicts_(d) /\ Server(why) \in Verdicts_(d) /\ Failed \in Verdicts_(d)
         /\ Yes \in Verdicts_(d) /\ No \in Verdicts_(d)
         /\ \A value \in FlagValues(d) : Value(value) \in Verdicts_(d)
         /\ WithReason(v, why) \in Verdicts_(d)
         /\ WithReason(v, why).is = v.is
<1>1. Named(why) \in Reasons
  BY DEF Named, Reasons, Place
<1>2. NoReason \in Reasons \cup {NoReason}
  OBVIOUS
<1>3. \A is \in {"value", "inconclusive", "server", "failed"}, value \in FlagValues(d), w \in Reasons \cup {NoReason} :
        Verdict(is, value, w) \in Verdicts_(d)
  BY DEF Verdict, Verdicts_
<1>4. {"none", "true", "false"} \subseteq FlagValues(d)
  BY DEF FlagValues
<1>5. Inconclusive(why) \in Verdicts_(d) /\ Server(why) \in Verdicts_(d) /\ Failed \in Verdicts_(d)
      /\ Yes \in Verdicts_(d) /\ No \in Verdicts_(d)
  BY <1>1, <1>3, <1>4 DEF Inconclusive, Server, Failed, Yes, No, Value
<1>6. \A value \in FlagValues(d) : Value(value) \in Verdicts_(d)
  BY <1>3 DEF Value
<1>7. Pick(why, v.why) \in Reasons
  BY PickIsAReason DEF Verdicts_
<1>8. WithReason(v, why) \in Verdicts_(d) /\ WithReason(v, why).is = v.is
  BY <1>7 DEF WithReason, Verdicts_
<1>. QED BY <1>5, <1>6, <1>8

--------------------------------------------------------------------------
(* A cohort.                                                               *)

GroupStates(d, c, T) ==
  [stop : BOOLEAN, verdict : Verdicts_(d), pending : Reasons \cup {NoReason}, cache : Caches(d, c, T)]

LEMMA EntryIsSound ==
  ASSUME NEW entry, NEW b \in BOOLEAN
  PROVE  EntryHolds(entry, b) \in BOOLEAN /\ Entry(entry, Decided(b)) = Decided(EntryHolds(entry, b))
<1>1. Decided(b) = Yes <=> b
  BY DEF Decided, Yes, No, Value, Verdict
<1>2. Resolved(Decided(b))
  BY DEF Resolved, Decided, Yes, No, Value, Verdict
<1>. QED BY <1>1, <1>2 DEF Entry, EntryHolds

LEMMA AfterEntryIsSound ==
  ASSUME NEW d, NEW c, NEW T, NEW group, NEW entry, NEW b \in BOOLEAN,
         NEW acc \in GroupStates(d, c, T), ~acc.stop,
         NEW found \in Answers(d, c, T), Resolved(found.verdict) => found.verdict = Decided(b)
  PROVE  LET next == AfterEntry(group, entry, acc, found)
         IN  /\ next \in GroupStates(d, c, T)
             /\ next.stop /\ Resolved(next.verdict) =>
                  next.verdict = Decided(group.join # "AND") /\ EntryHolds(entry, b) = (group.join # "AND")
             /\ ~next.stop /\ next.pending = NoReason =>
                  acc.pending = NoReason /\ EntryHolds(entry, b) = (group.join = "AND")
<1>. DEFINE v == Entry(entry, found.verdict)
            cached == [acc EXCEPT !.cache = found.cache]
            next == AfterEntry(group, entry, acc, found)
<1>1. v \in Verdicts_(d) /\ (Resolved(v) => v = Decided(EntryHolds(entry, b))) /\ EntryHolds(entry, b) \in BOOLEAN
  <2>1. CASE Resolved(found.verdict)
    <3>1. v = Decided(EntryHolds(entry, b)) /\ EntryHolds(entry, b) \in BOOLEAN
      BY <2>1, EntryIsSound
    <3>2. Yes \in Verdicts_(d) /\ No \in Verdicts_(d)
      BY VerdictsAreTyped DEF Answers
    <3>. QED BY <3>1, <3>2 DEF Decided
  <2>2. CASE ~Resolved(found.verdict)
    BY <2>2, EntryIsSound DEF Entry, Answers
  <2>. QED BY <2>1, <2>2
<1>2. cached \in GroupStates(d, c, T) /\ ~cached.stop /\ cached.pending = acc.pending
  BY DEF GroupStates, Answers
<1>3. v.why \in Reasons \cup {NoReason} /\ acc.pending \in Reasons \cup {NoReason}
  BY <1>1 DEF Verdicts_, GroupStates
<1>0. \A is : Decided(is).is = "value"
  BY DEF Decided, Yes, No, Value, Verdict
<1>. HIDE DEF v, cached
<1>4. CASE v.is = "inconclusive"
  <2>1. next = [cached EXCEPT !.pending = Pick(acc.pending, v.why)]
    BY <1>0, <1>2, <1>4 DEF AfterEntry, v, cached
  <2>2. Pick(acc.pending, v.why) \in Reasons
    BY <1>3, PickIsAReason
  <2>3. NoReason \notin Reasons
    BY DEF NoReason, Reasons, Place
  <2>. QED BY <1>2, <2>1, <2>2, <2>3 DEF GroupStates
<1>5. CASE v.is = "server"
  <2>1. next = [cached EXCEPT !.stop = TRUE, !.verdict = WithReason(v, acc.pending)]
    BY <1>0, <1>5 DEF AfterEntry, v, cached
  <2>2. WithReason(v, acc.pending) \in Verdicts_(d) /\ WithReason(v, acc.pending).is = "server"
    BY <1>1, <1>3, <1>5, VerdictsAreTyped
  <2>3. ~Resolved(WithReason(v, acc.pending))
    BY <2>2 DEF Resolved
  <2>. QED BY <1>2, <2>1, <2>2, <2>3 DEF GroupStates
<1>6. CASE v.is = "failed" \/ v = Decided(group.join # "AND")
  <2>1. v.is \notin {"inconclusive", "server"}
    BY <1>6 DEF Decided, Yes, No, Value, Verdict
  <2>2. next = [cached EXCEPT !.stop = TRUE, !.verdict = v]
    BY <1>6, <2>1 DEF AfterEntry, v, cached
  <2>3. next \in GroupStates(d, c, T) /\ next.stop /\ next.verdict = v
    BY <1>1, <1>2, <2>2 DEF GroupStates
  <2>4. ASSUME Resolved(v) PROVE v = Decided(group.join # "AND") /\ EntryHolds(entry, b) = (group.join # "AND")
    <3>1. v = Decided(group.join # "AND")
      BY <1>6, <2>4 DEF Resolved
    <3>2. v = Decided(EntryHolds(entry, b)) /\ EntryHolds(entry, b) \in BOOLEAN
      BY <1>1, <2>4
    <3>. QED BY <3>1, <3>2 DEF Decided, Yes, No, Value, Verdict
  <2>. QED BY <2>3, <2>4
<1>7. CASE v.is = "value" /\ v # Decided(group.join # "AND")
  <2>1. next = cached
    BY <1>7 DEF AfterEntry, v, cached
  <2>2. v = Decided(EntryHolds(entry, b)) /\ EntryHolds(entry, b) \in BOOLEAN
    BY <1>1, <1>7 DEF Resolved
  <2>3. EntryHolds(entry, b) = (group.join = "AND")
    BY <1>7, <2>2
  <2>. QED BY <1>2, <2>1, <2>3
<1>8. v.is \in {"value", "inconclusive", "server", "failed"}
  BY <1>1 DEF Verdicts_
<1>. QED BY <1>4, <1>5, <1>6, <1>7, <1>8

\* The recursion through cohorts and flags: what leads back into the evaluation is
\* MatchFilter itself, as in every configuration.
Recursion ==
  \A d \in Definitions : \A filter \in FiltersOf(d) : \A at, cache :
    Matching(d, filter, at, cache) = MatchFilter(d, filter, at, cache)

LEMMA GroupIsSound ==
  ASSUME Recursion, NEW d \in Definitions, NEW c, NEW T \in Interpretations(d), NEW a \in Aggregations,
         NEW group, IsSequence(group.entries), Range(group.entries) \subseteq FiltersOf(d),
         \A entry \in Range(group.entries) : Sound(d, c, T, entry),
         NEW cache \in Caches(d, c, T)
  PROVE  LET found == MatchGroup(d, group, Checked(c, a), cache)
             holds == [i \in DOMAIN group.entries |-> EntryHolds(group.entries[i], T[a][group.entries[i]])]
         IN  found \in Answers(d, c, T) /\ (Resolved(found.verdict) => found.verdict = Decided(GroupMeans(group, holds)))
<1>. DEFINE E == group.entries
            S == Range(E)
            at == Checked(c, a)
            holds == [i \in DOMAIN E |-> EntryHolds(E[i], T[a][E[i]])]
            Step(acc, entry) == IF acc.stop THEN acc
                                ELSE AfterEntry(group, entry, acc, Matching(d, entry, at, acc.cache))
            A == GroupStates(d, c, T)
            base == [stop |-> FALSE, verdict |-> No, pending |-> NoReason, cache |-> cache]
            g == [acc \in A |-> [entry \in S |-> Step(acc, entry)]]
            Stopped(acc) == Resolved(acc.verdict) => /\ acc.verdict = Decided(group.join # "AND")
                                                      /\ \E j \in DOMAIN E : holds[j] = (group.join # "AND")
            Runs(acc, i) == acc.pending = NoReason => \A j \in 1..i : holds[j] = (group.join = "AND")
            States == [i \in 0..Len(E) |-> {acc \in A : IF acc.stop THEN Stopped(acc) ELSE Runs(acc, i)}]
            Solves(it) == it = [s \in SUBSET DOMAIN E |-> IF s = {} THEN base ELSE Step(it[s \ {Max(s)}], E[Max(s)])]
<1>1. E \in Seq(S) /\ E \in [1..Len(E) -> S] /\ Len(E) \in Nat /\ DOMAIN E = 1..Len(E) /\ \A i \in DOMAIN E : E[i] \in S
  BY DEF IsSequence
<1>2. \A i \in DOMAIN E : T[a][E[i]] \in BOOLEAN
  BY <1>1 DEF Interpretations
<1>3. ASSUME NEW acc \in A, ~acc.stop, NEW i \in DOMAIN E
      PROVE  /\ Step(acc, E[i]) \in A
             /\ Step(acc, E[i]).stop /\ Resolved(Step(acc, E[i]).verdict) =>
                  Step(acc, E[i]).verdict = Decided(group.join # "AND") /\ holds[i] = (group.join # "AND")
             /\ ~Step(acc, E[i]).stop /\ Step(acc, E[i]).pending = NoReason =>
                  acc.pending = NoReason /\ holds[i] = (group.join = "AND")
  <2>. DEFINE found == MatchFilter(d, E[i], at, acc.cache)
  <2>1. Matching(d, E[i], at, acc.cache) = found
    BY <1>1 DEF Recursion
  <2>2. found \in Answers(d, c, T) /\ (Resolved(found.verdict) => found.verdict = Decided(T[a][E[i]]))
    <3>1. acc.cache \in Caches(d, c, T) /\ E[i] \in Range(group.entries)
      BY <1>1 DEF GroupStates
    <3>. QED BY <3>1 DEF Sound
  <2>. HIDE DEF found
  <2>3. Step(acc, E[i]) = AfterEntry(group, E[i], acc, found)
    BY <1>3, <2>1
  <2>4. holds[i] = EntryHolds(E[i], T[a][E[i]])
    OBVIOUS
  <2>. HIDE DEF holds, Step
  <2>. QED BY <1>2, <1>3, <2>2, <2>3, <2>4, AfterEntryIsSound
<1>. HIDE DEF Step, Stopped, Runs
<1>4. base \in A /\ Runs(base, 0) /\ ~base.stop
  <2>1. No \in Verdicts_(d)
    BY DEF No, Value, Verdict, Verdicts_, FlagValues
  <2>2. base \in A
    BY <2>1 DEF GroupStates
  <2>. QED BY <2>2 DEF Runs
<1>5. ASSUME NEW acc \in A, acc.stop, NEW entry PROVE Step(acc, entry) = acc
  BY <1>5 DEF Step
<1>6. \A acc \in A : acc.stop \in BOOLEAN
  BY DEF GroupStates
<1>7. \A acc \in A, entry \in S : Step(acc, entry) \in A
  <2>. SUFFICES ASSUME NEW acc \in A, NEW entry \in S PROVE Step(acc, entry) \in A
    OBVIOUS
  <2>1. PICK i \in DOMAIN E : entry = E[i]
    BY DEF Range
  <2>2. CASE acc.stop
    BY <1>5, <2>2
  <2>3. CASE ~acc.stop
    <3>. HIDE DEF A, E, S
    <3>. QED BY <1>3, <2>1, <2>3
  <2>. QED BY <1>6, <2>2, <2>3
<1>8. g \in [A -> [S -> A]] /\ \A acc \in A, entry \in S : g[acc][entry] = Step(acc, entry)
  BY <1>7
<1>9. ASSUME NEW i \in 0..(Len(E) - 1), NEW acc \in A, acc \in States[i]
      PROVE  g[acc][E[i+1]] \in States[i+1]
  <2>1. i + 1 \in DOMAIN E /\ i + 1 \in 0..Len(E) /\ i \in 0..Len(E) /\ E[i+1] \in S
    BY <1>1
  <2>. DEFINE next == Step(acc, E[i+1])
  <2>2. g[acc][E[i+1]] = next /\ next \in A
    BY <1>7, <1>8, <2>1
  <2>3. IF acc.stop THEN Stopped(acc) ELSE Runs(acc, i)
    BY <1>9, <2>1
  <2>4. IF next.stop THEN Stopped(next) ELSE Runs(next, i + 1)
    <3>1. CASE acc.stop
      BY <1>5, <2>3, <3>1
    <3>2. CASE ~acc.stop
      <4>1. next.stop => Stopped(next)
        BY <1>3, <2>1, <3>2 DEF Stopped
      <4>2. ASSUME ~next.stop, next.pending = NoReason PROVE \A j \in 1..(i+1) : holds[j] = (group.join = "AND")
        <5>1. acc.pending = NoReason /\ holds[i+1] = (group.join = "AND")
          BY <1>3, <2>1, <3>2, <4>2
        <5>2. \A j \in 1..i : holds[j] = (group.join = "AND")
          BY <2>3, <3>2, <5>1 DEF Runs
        <5>3. \A j \in 1..(i+1) : j = i + 1 \/ j \in 1..i
          OBVIOUS
        <5>. QED BY <5>1, <5>2, <5>3
      <4>. QED BY <4>1, <4>2 DEF Runs
    <3>. QED BY <3>1, <3>2
  <2>. QED BY <2>1, <2>2, <2>4
<1>10. base \in States[0]
  BY <1>1, <1>4
<1>. HIDE DEF E, S, A, base, g, States
<1>11. PICK end : MatchGroup(d, group, at, cache) = GroupVerdict(group, end) /\ end \in A /\ end \in States[Len(E)]
  <2>1. MatchGroup(d, group, at, cache) = GroupVerdict(group, (CHOOSE it : Solves(it))[DOMAIN E])
    BY DEF MatchGroup, FoldLeft, MapThenFoldSet, E, base, Step, at
  <2>2. HasFold(A, base, S, Len(E), E, g)
    BY <1>1, <1>4, <1>8, FoldExists
  <2>3. PICK it \in [SUBSET (1..Len(E)) -> A] :
          \A s \in SUBSET (1..Len(E)) : it[s] = IF s = {} THEN base ELSE g[it[s \ {Max(s)}]][E[Max(s)]]
    BY <2>2 DEF HasFold
  <2>4. ASSUME NEW s \in SUBSET (1..Len(E)), s # {}
        PROVE  g[it[s \ {Max(s)}]][E[Max(s)]] = Step(it[s \ {Max(s)}], E[Max(s)])
    <3>1. Max(s) \in s
      BY <1>1, <2>4, MaxIn
    <3>2. s \ {Max(s)} \in SUBSET (1..Len(E)) /\ E[Max(s)] \in S
      BY <1>1, <3>1
    <3>. QED BY <1>8, <2>3, <3>2
  <2>5. \E f : Solves(f)
    <3>1. \A s \in SUBSET DOMAIN E : it[s] = IF s = {} THEN base ELSE Step(it[s \ {Max(s)}], E[Max(s)])
      BY <1>1, <2>3, <2>4
    <3>2. Solves(it)
      BY <1>1, <2>3, <3>1
    <3>. QED BY <3>2
  <2>6. PICK f : Solves(f) /\ MatchGroup(d, group, at, cache) = GroupVerdict(group, f[DOMAIN E])
    BY <2>1, <2>5
  <2>7. f[{}] = base
    BY <2>6
  <2>8. ASSUME NEW s \in SUBSET DOMAIN E, s # {}, f[s \ {Max(s)}] \in A
        PROVE  f[s] = g[f[s \ {Max(s)}]][E[Max(s)]]
    <3>1. Max(s) \in s
      BY <1>1, <2>8, MaxIn
    <3>2. E[Max(s)] \in S /\ f[s] = Step(f[s \ {Max(s)}], E[Max(s)])
      BY <1>1, <2>6, <2>8, <3>1
    <3>. QED BY <1>8, <2>8, <3>2
  <2>. HIDE DEF Solves
  <2>9. f[DOMAIN E] \in A /\ f[DOMAIN E] \in States[Len(E)]
    <3>1. IsFold(A, base, S, E, g)
      BY <1>1, <1>4, <1>8 DEF IsFold
    <3>2. Unfolds(A, base, E, g, f)
      BY <2>7, <2>8 DEF Unfolds
    <3>3. Keeps(A, base, E, g, States)
      BY <1>9, <1>10 DEF Keeps
    <3>. QED BY <3>1, <3>2, <3>3, FoldInvariant
  <2>. QED BY <2>6, <2>9
<1>12. IF end.stop THEN Stopped(end) ELSE Runs(end, Len(E))
  BY <1>1, <1>11 DEF States
<1>. DEFINE found == GroupVerdict(group, end)
<1>13. found.verdict = (IF E = <<>> THEN Yes
                        ELSE IF end.stop THEN end.verdict
                        ELSE IF end.pending # NoReason THEN Inconclusive(end.pending)
                        ELSE Decided(group.join = "AND"))
       /\ found.cache = end.cache /\ found = [verdict |-> found.verdict, cache |-> found.cache]
  BY DEF GroupVerdict, Found, E
<1>14. end.stop \in BOOLEAN /\ end.pending \in Reasons \cup {NoReason} /\ end.verdict \in Verdicts_(d)
       /\ end.cache \in Caches(d, c, T)
  BY <1>11 DEF A, GroupStates
<1>. HIDE DEF found
<1>15. found \in Answers(d, c, T)
  <2>1. \A b \in BOOLEAN : Decided(b) \in Verdicts_(d)
    BY <1>14, VerdictsAreTyped DEF Decided
  <2>2. Inconclusive(end.pending) \in Verdicts_(d) /\ Yes \in Verdicts_(d)
    BY <1>14, VerdictsAreTyped
  <2>3. found.verdict \in Verdicts_(d)
    BY <1>13, <1>14, <2>1, <2>2
  <2>. QED BY <1>13, <1>14, <2>3 DEF Answers
<1>16. ASSUME Resolved(found.verdict) PROVE found.verdict = Decided(GroupMeans(group, holds))
  <2>1. \A j \in DOMAIN E : holds[j] \in BOOLEAN
    BY <1>2, EntryIsSound DEF E
  <2>2. CASE E = <<>>
    <3>1. GroupMeans(group, holds) = TRUE
      BY <2>2 DEF GroupMeans, E
    <3>. QED BY <1>13, <2>2, <3>1 DEF Decided
  <2>3. CASE E # <<>> /\ end.stop
    <3>1. found.verdict = Decided(group.join # "AND") /\ \E j \in DOMAIN E : holds[j] = (group.join # "AND")
      BY <1>12, <1>13, <1>16, <2>3 DEF Stopped
    <3>2. GroupMeans(group, holds) = (group.join # "AND")
      BY <2>1, <2>3, <3>1 DEF GroupMeans, E
    <3>. QED BY <3>1, <3>2
  <2>4. CASE E # <<>> /\ ~end.stop
    <3>1. ~Resolved(Inconclusive(end.pending))
      BY DEF Resolved, Inconclusive, Verdict
    <3>2. end.pending = NoReason /\ found.verdict = Decided(group.join = "AND")
      BY <1>13, <1>16, <2>4, <3>1
    <3>3. \A j \in DOMAIN E : holds[j] = (group.join = "AND")
      BY <1>1, <1>12, <2>4, <3>2 DEF Runs
    <3>4. 1 \in DOMAIN E
      BY <1>1, <2>4
    <3>5. GroupMeans(group, holds) = (group.join = "AND")
      BY <2>1, <2>4, <3>3, <3>4 DEF GroupMeans, E
    <3>. QED BY <3>2, <3>5
  <2>. QED BY <2>2, <2>3, <2>4
<1>. QED BY <1>11, <1>15, <1>16 DEF E, at, found

--------------------------------------------------------------------------
(* A condition.                                                            *)

ConditionStates(d, c, T) ==
  [stop : BOOLEAN, verdict : Verdicts_(d), pending : Reasons \cup {NoReason},
   server : {No} \cup {v \in Verdicts_(d) : v.is = "server"}, cache : Caches(d, c, T)]

LEMMA AfterFilterIsSound ==
  ASSUME NEW d, NEW c, NEW T, NEW b \in BOOLEAN, NEW acc \in ConditionStates(d, c, T), ~acc.stop,
         NEW found \in Answers(d, c, T), Resolved(found.verdict) => found.verdict = Decided(b)
  PROVE  LET next == AfterFilter(acc, found)
         IN  /\ next \in ConditionStates(d, c, T)
             /\ next.stop /\ Resolved(next.verdict) => next.verdict = Value("nomatch") /\ ~b
             /\ ~next.stop /\ next.pending = NoReason => acc.pending = NoReason /\ b
<1>. DEFINE v == found.verdict
            cached == [acc EXCEPT !.cache = found.cache]
            next == AfterFilter(acc, found)
<1>1. v \in Verdicts_(d) /\ (Resolved(v) => v = Decided(b))
  BY DEF Answers
<1>2. cached \in ConditionStates(d, c, T) /\ ~cached.stop /\ cached.pending = acc.pending
      /\ cached.server = acc.server
  BY DEF ConditionStates, Answers
<1>3. v.why \in Reasons \cup {NoReason} /\ acc.pending \in Reasons \cup {NoReason}
  BY <1>1 DEF Verdicts_, ConditionStates
<1>4. Pick(acc.pending, v.why) \in Reasons /\ NoReason \notin Reasons
  BY <1>3, PickIsAReason DEF NoReason, Reasons, Place
<1>. HIDE DEF v, cached
<1>5. CASE v.is = "server"
  <2>1. next = [cached EXCEPT !.server = IF acc.pending = NoReason THEN v ELSE acc.server,
                              !.pending = Pick(acc.pending, v.why)]
    BY <1>2, <1>5 DEF AfterFilter, v, cached
  <2>. DEFINE server == IF acc.pending = NoReason THEN v ELSE acc.server
              pending == Pick(acc.pending, v.why)
  <2>2. server \in {No} \cup {w \in Verdicts_(d) : w.is = "server"}
    BY <1>1, <1>5 DEF ConditionStates
  <2>3. pending \in Reasons
    BY <1>4
  <2>. HIDE DEF server, pending
  <2>4. next = [cached EXCEPT !.server = server, !.pending = pending]
    BY <2>1 DEF server, pending
  <2>. HIDE DEF next
  <2>5. next \in ConditionStates(d, c, T) /\ next.stop = cached.stop /\ next.pending = pending
    BY <1>2, <2>2, <2>3, <2>4 DEF ConditionStates
  <2>. QED BY <1>2, <1>4, <2>3, <2>5 DEF next
<1>6. CASE v.is = "inconclusive"
  <2>1. next = [cached EXCEPT !.pending = Pick(acc.pending, v.why)]
    BY <1>2, <1>6 DEF AfterFilter, v, cached
  <2>. QED BY <1>2, <1>4, <2>1 DEF ConditionStates
<1>7. CASE v.is = "failed"
  <2>1. next = IF acc.pending # NoReason THEN cached ELSE [cached EXCEPT !.stop = TRUE, !.verdict = v]
    BY <1>7 DEF AfterFilter, v, cached
  <2>2. ~Resolved(v)
    BY <1>7 DEF Resolved
  <2>. HIDE DEF next
  <2>3. CASE acc.pending # NoReason
    BY <1>2, <2>1, <2>3 DEF next
  <2>4. CASE acc.pending = NoReason
    <3>1. next \in ConditionStates(d, c, T) /\ next.stop /\ next.verdict = v
      BY <1>1, <1>2, <2>1, <2>4 DEF ConditionStates
    <3>. QED BY <2>2, <3>1 DEF next
  <2>. QED BY <2>3, <2>4
<1>8. CASE v.is = "value"
  <2>1. next = IF v = Yes THEN cached ELSE [cached EXCEPT !.stop = TRUE, !.verdict = Value("nomatch")]
    BY <1>8 DEF AfterFilter, v, cached
  <2>2. v = Decided(b)
    BY <1>1, <1>8 DEF Resolved
  <2>3. v = Yes <=> b
    BY <2>2 DEF Decided, Yes, No, Value, Verdict
  <2>4. Value("nomatch") \in Verdicts_(d)
    BY <1>1, <1>3, VerdictsAreTyped DEF FlagValues
  <2>. HIDE DEF next
  <2>5. CASE v = Yes
    BY <1>2, <2>1, <2>3, <2>5 DEF next
  <2>6. CASE v # Yes
    <3>1. next \in ConditionStates(d, c, T) /\ next.stop /\ next.verdict = Value("nomatch")
      BY <1>2, <2>1, <2>4, <2>6 DEF ConditionStates
    <3>. QED BY <2>3, <2>6, <3>1 DEF next
  <2>. QED BY <2>5, <2>6
<1>9. v.is \in {"value", "inconclusive", "server", "failed"}
  BY <1>1 DEF Verdicts_
<1>. QED BY <1>5, <1>6, <1>7, <1>8, <1>9

AllHold(condition, T, a) == \A j \in DOMAIN condition.filters : T[a][condition.filters[j]]

LEMMA ConditionIsSound ==
  ASSUME Recursion, NEW d \in Definitions, NEW c, NEW T \in Interpretations(d), NEW a \in Aggregations,
         NEW condition, IsSequence(condition.filters), Range(condition.filters) \subseteq FiltersOf(d),
         \A filter \in Range(condition.filters) : Sound(d, c, T, filter),
         NEW bucket, NEW cache \in Caches(d, c, T)
  PROVE  LET found == MatchCondition(d, condition, Checked(c, a), bucket, cache)
         IN  /\ found \in Answers(d, c, T)
             /\ Resolved(found.verdict) =>
                  IF AllHold(condition, T, a)
                  THEN found.verdict = Value(IF bucket \in condition.admits THEN "match" ELSE "out")
                  ELSE found.verdict = Value("nomatch")
<1>. DEFINE E == condition.filters
            S == Range(E)
            at == Checked(c, a)
            holds == [i \in DOMAIN E |-> T[a][E[i]]]
            Step(acc, filter) == IF acc.stop THEN acc
                                 ELSE AfterFilter(acc, Matching(d, filter, at, acc.cache))
            A == ConditionStates(d, c, T)
            base == [stop |-> FALSE, verdict |-> No, pending |-> NoReason, server |-> No, cache |-> cache]
            g == [acc \in A |-> [filter \in S |-> Step(acc, filter)]]
            Stopped(acc) == Resolved(acc.verdict) => acc.verdict = Value("nomatch") /\ \E j \in DOMAIN E : ~holds[j]
            Runs(acc, i) == acc.pending = NoReason => \A j \in 1..i : holds[j]
            States == [i \in 0..Len(E) |-> {acc \in A : IF acc.stop THEN Stopped(acc) ELSE Runs(acc, i)}]
            Solves(it) == it = [s \in SUBSET DOMAIN E |-> IF s = {} THEN base ELSE Step(it[s \ {Max(s)}], E[Max(s)])]
<1>1. E \in Seq(S) /\ E \in [1..Len(E) -> S] /\ Len(E) \in Nat /\ DOMAIN E = 1..Len(E) /\ \A i \in DOMAIN E : E[i] \in S
  BY DEF IsSequence
<1>2. \A i \in DOMAIN E : T[a][E[i]] \in BOOLEAN
  BY <1>1 DEF Interpretations
<1>3. ASSUME NEW acc \in A, ~acc.stop, NEW i \in DOMAIN E
      PROVE  /\ Step(acc, E[i]) \in A
             /\ Step(acc, E[i]).stop /\ Resolved(Step(acc, E[i]).verdict) =>
                  Step(acc, E[i]).verdict = Value("nomatch") /\ ~holds[i]
             /\ ~Step(acc, E[i]).stop /\ Step(acc, E[i]).pending = NoReason => acc.pending = NoReason /\ holds[i]
  <2>. DEFINE found == MatchFilter(d, E[i], at, acc.cache)
  <2>1. Matching(d, E[i], at, acc.cache) = found
    BY <1>1 DEF Recursion
  <2>2. found \in Answers(d, c, T) /\ (Resolved(found.verdict) => found.verdict = Decided(T[a][E[i]]))
    <3>1. acc.cache \in Caches(d, c, T) /\ E[i] \in Range(condition.filters)
      BY <1>1 DEF ConditionStates
    <3>. QED BY <3>1 DEF Sound
  <2>. HIDE DEF found
  <2>3. Step(acc, E[i]) = AfterFilter(acc, found)
    BY <1>3, <2>1
  <2>4. holds[i] = T[a][E[i]]
    OBVIOUS
  <2>. HIDE DEF holds, Step
  <2>. QED BY <1>2, <1>3, <2>2, <2>3, <2>4, AfterFilterIsSound
<1>. HIDE DEF Step, Stopped, Runs
<1>4. base \in A /\ Runs(base, 0) /\ ~base.stop
  <2>1. No \in Verdicts_(d)
    BY DEF No, Value, Verdict, Verdicts_, FlagValues
  <2>2. base \in A
    BY <2>1 DEF ConditionStates
  <2>. QED BY <2>2 DEF Runs
<1>5. ASSUME NEW acc \in A, acc.stop, NEW filter PROVE Step(acc, filter) = acc
  BY <1>5 DEF Step
<1>6. \A acc \in A : acc.stop \in BOOLEAN
  BY DEF ConditionStates
<1>7. \A acc \in A, filter \in S : Step(acc, filter) \in A
  <2>1. \A filter \in S : \E i \in DOMAIN E : filter = E[i]
    BY DEF Range
  <2>. QED BY <1>3, <1>5, <1>6, <2>1
<1>8. g \in [A -> [S -> A]] /\ \A acc \in A, filter \in S : g[acc][filter] = Step(acc, filter)
  BY <1>7
<1>9. ASSUME NEW i \in 0..(Len(E) - 1), NEW acc \in A, acc \in States[i]
      PROVE  g[acc][E[i+1]] \in States[i+1]
  <2>1. i + 1 \in DOMAIN E /\ i + 1 \in 0..Len(E) /\ i \in 0..Len(E) /\ E[i+1] \in S
    BY <1>1
  <2>. DEFINE next == Step(acc, E[i+1])
  <2>2. g[acc][E[i+1]] = next /\ next \in A
    BY <1>7, <1>8, <2>1
  <2>3. IF acc.stop THEN Stopped(acc) ELSE Runs(acc, i)
    BY <1>9, <2>1
  <2>4. IF next.stop THEN Stopped(next) ELSE Runs(next, i + 1)
    <3>1. CASE acc.stop
      BY <1>5, <2>3, <3>1
    <3>2. CASE ~acc.stop
      <4>1. next.stop => Stopped(next)
        BY <1>3, <2>1, <3>2 DEF Stopped
      <4>2. ASSUME ~next.stop, next.pending = NoReason PROVE \A j \in 1..(i+1) : holds[j]
        <5>1. acc.pending = NoReason /\ holds[i+1]
          BY <1>3, <2>1, <3>2, <4>2
        <5>2. \A j \in 1..i : holds[j]
          BY <2>3, <3>2, <5>1 DEF Runs
        <5>3. \A j \in 1..(i+1) : j = i + 1 \/ j \in 1..i
          OBVIOUS
        <5>. QED BY <5>1, <5>2, <5>3
      <4>. QED BY <4>1, <4>2 DEF Runs
    <3>. QED BY <3>1, <3>2
  <2>. QED BY <2>1, <2>2, <2>4
<1>10. base \in States[0]
  BY <1>1, <1>4
<1>. HIDE DEF E, S, A, base, g, States
<1>11. PICK end : MatchCondition(d, condition, at, bucket, cache) = ConditionVerdict(condition, bucket, end)
                  /\ end \in A /\ end \in States[Len(E)]
  <2>1. MatchCondition(d, condition, at, bucket, cache) =
          ConditionVerdict(condition, bucket, (CHOOSE it : Solves(it))[DOMAIN E])
    BY DEF MatchCondition, FoldLeft, MapThenFoldSet, E, base, Step, at
  <2>2. HasFold(A, base, S, Len(E), E, g)
    BY <1>1, <1>4, <1>8, FoldExists
  <2>3. PICK it \in [SUBSET (1..Len(E)) -> A] :
          \A s \in SUBSET (1..Len(E)) : it[s] = IF s = {} THEN base ELSE g[it[s \ {Max(s)}]][E[Max(s)]]
    BY <2>2 DEF HasFold
  <2>4. ASSUME NEW s \in SUBSET (1..Len(E)), s # {}
        PROVE  g[it[s \ {Max(s)}]][E[Max(s)]] = Step(it[s \ {Max(s)}], E[Max(s)])
    <3>1. Max(s) \in s
      BY <1>1, <2>4, MaxIn
    <3>2. s \ {Max(s)} \in SUBSET (1..Len(E)) /\ E[Max(s)] \in S
      BY <1>1, <3>1
    <3>. QED BY <1>8, <2>3, <3>2
  <2>5. \E f : Solves(f)
    <3>1. \A s \in SUBSET DOMAIN E : it[s] = IF s = {} THEN base ELSE Step(it[s \ {Max(s)}], E[Max(s)])
      BY <1>1, <2>3, <2>4
    <3>2. Solves(it)
      BY <1>1, <2>3, <3>1
    <3>. QED BY <3>2
  <2>6. PICK f : Solves(f)
                 /\ MatchCondition(d, condition, at, bucket, cache) = ConditionVerdict(condition, bucket, f[DOMAIN E])
    BY <2>1, <2>5
  <2>7. f[{}] = base
    BY <2>6
  <2>8. ASSUME NEW s \in SUBSET DOMAIN E, s # {}, f[s \ {Max(s)}] \in A
        PROVE  f[s] = g[f[s \ {Max(s)}]][E[Max(s)]]
    <3>1. Max(s) \in s
      BY <1>1, <2>8, MaxIn
    <3>2. E[Max(s)] \in S /\ f[s] = Step(f[s \ {Max(s)}], E[Max(s)])
      BY <1>1, <2>6, <2>8, <3>1
    <3>. QED BY <1>8, <2>8, <3>2
  <2>. HIDE DEF Solves
  <2>9. f[DOMAIN E] \in A /\ f[DOMAIN E] \in States[Len(E)]
    <3>1. IsFold(A, base, S, E, g)
      BY <1>1, <1>4, <1>8 DEF IsFold
    <3>2. Unfolds(A, base, E, g, f)
      BY <2>7, <2>8 DEF Unfolds
    <3>3. Keeps(A, base, E, g, States)
      BY <1>9, <1>10 DEF Keeps
    <3>. QED BY <3>1, <3>2, <3>3, FoldInvariant
  <2>. QED BY <2>6, <2>9
<1>12. IF end.stop THEN Stopped(end) ELSE Runs(end, Len(E))
  BY <1>1, <1>11 DEF States
<1>. DEFINE found == ConditionVerdict(condition, bucket, end)
            rollout == Value(IF bucket \in condition.admits THEN "match" ELSE "out")
<1>13. found.verdict = (IF end.stop THEN end.verdict
                        ELSE IF end.server # No THEN WithReason(end.server, end.pending)
                        ELSE IF end.pending # NoReason THEN Inconclusive(end.pending)
                        ELSE rollout)
       /\ found.cache = end.cache /\ found = [verdict |-> found.verdict, cache |-> found.cache]
  BY DEF ConditionVerdict, Found
<1>14. end.stop \in BOOLEAN /\ end.pending \in Reasons \cup {NoReason} /\ end.verdict \in Verdicts_(d)
       /\ end.cache \in Caches(d, c, T)
       /\ (end.server # No => end.server \in Verdicts_(d) /\ end.server.is = "server")
  BY <1>11 DEF A, ConditionStates
<1>. HIDE DEF found, rollout
<1>15. rollout \in Verdicts_(d) /\ Inconclusive(end.pending) \in Verdicts_(d)
  <2>1. \A value \in FlagValues(d) : Value(value) \in Verdicts_(d)
    BY <1>14, VerdictsAreTyped
  <2>2. "match" \in FlagValues(d) /\ "out" \in FlagValues(d)
    BY DEF FlagValues
  <2>. QED BY <1>14, <2>1, <2>2, VerdictsAreTyped DEF rollout
<1>16. end.server # No => WithReason(end.server, end.pending) \in Verdicts_(d)
                          /\ WithReason(end.server, end.pending).is = "server"
  BY <1>14, VerdictsAreTyped
<1>17. found \in Answers(d, c, T)
  BY <1>13, <1>14, <1>15, <1>16 DEF Answers
<1>18. ASSUME Resolved(found.verdict)
       PROVE  IF AllHold(condition, T, a) THEN found.verdict = rollout ELSE found.verdict = Value("nomatch")
  <2>1. AllHold(condition, T, a) <=> \A j \in DOMAIN E : holds[j]
    BY DEF AllHold, E
  <2>2. CASE end.stop
    BY <1>12, <1>13, <1>18, <2>1, <2>2 DEF Stopped
  <2>3. CASE ~end.stop
    <3>1. ~Resolved(Inconclusive(end.pending)) /\ (end.server # No => ~Resolved(WithReason(end.server, end.pending)))
      BY <1>16 DEF Resolved, Inconclusive, Verdict
    <3>2. end.pending = NoReason /\ found.verdict = rollout
      BY <1>13, <1>18, <2>3, <3>1
    <3>3. \A j \in DOMAIN E : holds[j]
      BY <1>1, <1>12, <2>3, <3>2 DEF Runs
    <3>. QED BY <2>1, <3>2, <3>3
  <2>. QED BY <2>2, <2>3
<1>. QED BY <1>11, <1>17, <1>18 DEF E, at, found, rollout

--------------------------------------------------------------------------
(* A flag.                                                                 *)

FlagStates(d, c, T) ==
  [stop : BOOLEAN, verdict : Verdicts_(d), pending : Reasons \cup {NoReason}, cache : Caches(d, c, T)]
Buckets == {"person", "device", "group"}

LEMMA DefinitionReasonIsAReason ==
  ASSUME NEW d, NEW flag
  PROVE  DefinitionReason(d, flag) \in Reasons \cup {NoReason}
BY DEF DefinitionReason, Reasons, Place, NoReason

LEMMA MatchedIsAValue ==
  ASSUME NEW d, NEW k \in DOMAIN d.flags, WellFormedFlag(d.flags[k]), NEW condition, NEW bucket \in Buckets
  PROVE  /\ Matched(d.flags[k], condition, bucket) \in FlagValues(d)
         /\ Matched(d.flags[k], condition, bucket) # "false"
         /\ d.flags[k].variants = {} => Matched(d.flags[k], condition, bucket) = "true"
<1>. DEFINE flag == d.flags[k]
<1>1. flag.variants \cap {"true", "false"} = {} /\ flag.buckets[bucket] \in flag.variants \cup {"true"}
  BY DEF WellFormedFlag, Buckets
<1>2. flag.variants \subseteq UNION {d.flags[q].variants : q \in DOMAIN d.flags}
  OBVIOUS
<1>3. flag.variants \subseteq FlagValues(d) /\ "true" \in FlagValues(d)
  BY <1>2 DEF FlagValues
<1>4. Matched(flag, condition, bucket) \in flag.variants \cup {"true"}
  BY <1>1 DEF Matched
<1>. QED BY <1>1, <1>3, <1>4

LEMMA AfterConditionIsSound ==
  ASSUME NEW d, NEW c, NEW T, NEW k \in DOMAIN d.flags, WellFormedFlag(d.flags[k]), ~d.flags[k].earlyExit,
         NEW condition, NEW bucket \in Buckets, NEW about,
         NEW acc \in FlagStates(d, c, T), ~acc.stop,
         NEW found \in Answers(d, c, T),
         Resolved(found.verdict) =>
           IF AllHold(condition, T, about) THEN found.verdict = Value(IF bucket \in condition.admits THEN "match" ELSE "out")
           ELSE found.verdict = Value("nomatch")
  PROVE  LET next == AfterCondition(d, d.flags[k], condition, bucket, acc, found)
         IN  /\ next \in FlagStates(d, c, T)
             /\ next.stop /\ Resolved(next.verdict) =>
                  /\ AllHold(condition, T, about) /\ bucket \in condition.admits
                  /\ next.verdict = Value(Matched(d.flags[k], condition, bucket))
             /\ ~next.stop /\ next.pending = NoReason =>
                  acc.pending = NoReason /\ ~(AllHold(condition, T, about) /\ bucket \in condition.admits)
<1>. DEFINE flag == d.flags[k]
            v == found.verdict
            cached == [acc EXCEPT !.cache = found.cache]
            next == AfterCondition(d, flag, condition, bucket, acc, found)
            definition == DefinitionReason(d, flag)
            matched == Matched(flag, condition, bucket)
<1>1. v \in Verdicts_(d)
  BY DEF Answers
<1>2. cached \in FlagStates(d, c, T) /\ ~cached.stop /\ cached.pending = acc.pending
  BY DEF FlagStates, Answers
<1>3. v.why \in Reasons \cup {NoReason} /\ acc.pending \in Reasons \cup {NoReason}
  BY <1>1 DEF Verdicts_, FlagStates
<1>4. Pick(acc.pending, v.why) \in Reasons /\ NoReason \notin Reasons
  BY <1>3, PickIsAReason DEF NoReason, Reasons, Place
<1>5. matched \in FlagValues(d)
  BY MatchedIsAValue
<1>. HIDE DEF v, cached, definition, matched, next
<1>6. CASE v.is = "server"
  <2>. DEFINE why == IF definition = NoReason THEN acc.pending ELSE Pick(acc.pending, definition)
  <2>1. next = [cached EXCEPT !.stop = TRUE, !.verdict = WithReason(v, why)]
    BY <1>6 DEF AfterCondition, v, cached, next, definition
  <2>2. why \in Reasons \cup {NoReason}
    <3>1. definition \in Reasons \cup {NoReason}
      BY DefinitionReasonIsAReason DEF definition
    <3>. QED BY <1>3, <3>1, PickIsAReason
  <2>. HIDE DEF why
  <2>3. WithReason(v, why) \in Verdicts_(d) /\ WithReason(v, why).is = "server"
    BY <1>1, <1>6, <2>2, VerdictsAreTyped
  <2>4. ~Resolved(WithReason(v, why))
    BY <2>3 DEF Resolved
  <2>. QED BY <1>2, <2>1, <2>3, <2>4 DEF FlagStates, next
<1>7. CASE v.is = "inconclusive"
  <2>1. next = [cached EXCEPT !.pending = Pick(acc.pending, v.why)]
    BY <1>2, <1>7 DEF AfterCondition, v, cached, next
  <2>. QED BY <1>2, <1>4, <2>1 DEF FlagStates, next
<1>8. CASE v.is = "failed"
  <2>1. next = [cached EXCEPT !.stop = TRUE, !.verdict = v]
    BY <1>8 DEF AfterCondition, v, cached, next
  <2>. QED BY <1>1, <1>2, <1>8, <2>1 DEF FlagStates, Resolved, next
<1>9. CASE v.is = "value" /\ AllHold(condition, T, about) /\ bucket \in condition.admits
  <2>1. v = Value("match")
    BY <1>9 DEF Resolved, v
  <2>2. v.value = "match"
    BY <2>1 DEF Value, Verdict
  <2>3. next = [cached EXCEPT !.stop = TRUE, !.verdict = Value(matched)]
    BY <1>9, <2>2 DEF AfterCondition, v, cached, next, matched
  <2>4. Value(matched) \in Verdicts_(d)
    BY <1>1, <1>3, <1>5, VerdictsAreTyped
  <2>5. next \in FlagStates(d, c, T) /\ next.stop /\ next.verdict = Value(matched)
    BY <1>2, <2>3, <2>4 DEF FlagStates
  <2>. QED BY <1>9, <2>5 DEF next, matched
<1>10. CASE v.is = "value" /\ ~(AllHold(condition, T, about) /\ bucket \in condition.admits)
  <2>1. v \in {Value("out"), Value("nomatch")}
    BY <1>10 DEF Resolved, v
  <2>2. v.value \in {"out", "nomatch"}
    BY <2>1 DEF Value, Verdict
  <2>3. next = cached
    BY <1>10, <2>2 DEF AfterCondition, v, cached, next
  <2>. QED BY <1>2, <1>10, <2>3 DEF next
<1>11. v.is \in {"value", "inconclusive", "server", "failed"}
  BY <1>1 DEF Verdicts_
<1>. QED BY <1>6, <1>7, <1>8, <1>9, <1>10, <1>11

\* A condition is checked for its own aggregation, or for nobody.
IsChecked(flag, i, c) ==
  LET target == TargetOf(flag, i, c)
      about == Effective(flag.conditions[i], flag)
      dependent == IF about = "person" THEN Whom(c, flag.aggregation) ELSE Who(target.bucket, FALSE)
  IN  /\ target.skip \in BOOLEAN /\ target.why \in {NoReason, "missing_context"}
      /\ target.bucket \in Buckets /\ about \in Aggregations
      /\ ~target.skip =>
           [who |-> dependent, properties |-> target.properties, aggregation |-> about] = Checked(c, about)

LEMMA TargetsAreChecked ==
  ASSUME NEW flag, WellFormedFlag(flag), NEW i \in DOMAIN flag.conditions, NEW c, c.device \in BOOLEAN,
         flag.aggregation # "unknown" \/ Effective(flag.conditions[i], flag) = flag.aggregation
  PROVE  IsChecked(flag, i, c)
<1>. USE DEF IsChecked
<1>. DEFINE condition == flag.conditions[i]
            about == Effective(condition, flag)
            who == Whom(c, flag.aggregation)
            target == TargetOf(flag, i, c)
            bucket == BucketingId(flag, who)
<1>1. condition.aggregation \in {"inherit", "group", "unknown"} /\ flag.aggregation \in Aggregations
      /\ flag.device \in BOOLEAN
  BY DEF WellFormedFlag, Aggregations
<1>2. about \in Aggregations /\ (about # flag.aggregation => about \in {"group", "unknown"})
  BY <1>1 DEF Effective, Aggregations
<1>3. bucket \in Buckets /\ (flag.aggregation # "person" => bucket = "group")
  BY <1>1 DEF BucketingId, Whom, Who, Buckets
<1>4. target = Target(flag, condition, who, Properties(c, flag.aggregation), c)
  BY DEF TargetOf
<1>. HIDE DEF condition, target, bucket, who, about
<1>5. CASE about = flag.aggregation
  <2>1. target = [skip |-> FALSE, why |-> NoReason, properties |-> Properties(c, flag.aggregation), bucket |-> bucket]
    BY <1>4, <1>5 DEF Target, bucket, about
  <2>2. about # "person" => Who(bucket, FALSE) = Whom(c, about)
    BY <1>3, <1>5 DEF Whom
  <2>3. target.skip = FALSE /\ target.why = NoReason /\ target.bucket = bucket
        /\ target.properties = Properties(c, about)
    BY <1>5, <2>1
  <2>4. (IF about = "person" THEN who ELSE Who(target.bucket, FALSE)) = Whom(c, about)
    BY <1>5, <2>2, <2>3 DEF who
  <2>. QED BY <1>2, <1>3, <2>3, <2>4 DEF Checked, about, target, who, condition
<1>6. CASE about = "unknown" /\ flag.aggregation # "unknown"
  <2>1. target = [[skip |-> FALSE, why |-> NoReason, properties |-> Properties(c, flag.aggregation), bucket |-> bucket]
                    EXCEPT !.skip = TRUE, !.why = NoReason]
    BY <1>4, <1>6 DEF Target, bucket, about
  <2>. QED BY <1>2, <1>3, <2>1 DEF about, target, condition
<1>7. CASE about = "group" /\ about # flag.aggregation
  <2>. DEFINE own == [skip |-> FALSE, why |-> NoReason, properties |-> Properties(c, flag.aggregation), bucket |-> bucket]
  <2>1. target = CASE c.group = "absent" -> [own EXCEPT !.skip = TRUE, !.why = NoReason]
                   [] c.group # "absent" /\ ~c.passed -> [own EXCEPT !.skip = TRUE, !.why = "missing_context"]
                   [] c.group = "odd" /\ c.passed -> [own EXCEPT !.skip = TRUE, !.why = NoReason]
                   [] OTHER -> [own EXCEPT !.properties = c.groupProperties, !.bucket = "group"]
    BY <1>4, <1>7 DEF Target, bucket, about
  <2>2. \/ target = [own EXCEPT !.skip = TRUE, !.why = NoReason]
        \/ target = [own EXCEPT !.skip = TRUE, !.why = "missing_context"]
        \/ target = [own EXCEPT !.properties = c.groupProperties, !.bucket = "group"]
    BY <2>1
  <2>3. Checked(c, about) = [who |-> Who("group", FALSE), properties |-> c.groupProperties, aggregation |-> about]
    BY <1>7 DEF Checked, Whom, Properties
  <2>4. target.skip \in BOOLEAN /\ target.why \in {NoReason, "missing_context"} /\ target.bucket \in Buckets
        /\ (~target.skip => target.bucket = "group" /\ target.properties = c.groupProperties)
    BY <1>3, <2>2 DEF Buckets
  <2>. QED BY <1>2, <1>7, <2>3, <2>4 DEF about, target, condition
<1>. QED BY <1>2, <1>5, <1>6, <1>7 

\* A condition settles a flag that does not exit early, when it holds and lets the
\* bucketing value in.
Settling(flag, i, c, T) ==
  ConditionHolds(flag, i, c, T) /\ TargetOf(flag, i, c).bucket \in flag.conditions[i].admits

\* A condition is about the flag, or about somebody the call may name.
Addressed(flag) ==
  \A i \in DOMAIN flag.conditions :
    flag.aggregation # "unknown" \/ Effective(flag.conditions[i], flag) = flag.aggregation

LEMMA CheckConditionIsSound ==
  ASSUME Recursion, NEW d \in Definitions, NEW c, c.device \in BOOLEAN, NEW T \in Interpretations(d),
         NEW k \in DOMAIN d.flags, ~d.flags[k].earlyExit, Addressed(d.flags[k]),
         \A filter \in FiltersOfFlag(d.flags[k]) : Sound(d, c, T, filter),
         NEW i \in DOMAIN d.flags[k].conditions, NEW acc \in FlagStates(d, c, T), ~acc.stop
  PROVE  LET flag == d.flags[k]
             condition == flag.conditions[i]
             target == TargetOf(flag, i, c)
             next == CheckCondition(d, flag, condition, Whom(c, flag.aggregation), target, acc)
         IN  /\ next \in FlagStates(d, c, T)
             /\ next.stop /\ Resolved(next.verdict) =>
                  Settling(flag, i, c, T) /\ next.verdict = Value(Matched(flag, condition, target.bucket))
             /\ ~next.stop /\ next.pending = NoReason => acc.pending = NoReason /\ ~Settling(flag, i, c, T)
<1>. DEFINE flag == d.flags[k]
            condition == flag.conditions[i]
            target == TargetOf(flag, i, c)
            about == Effective(condition, flag)
            who == Whom(c, flag.aggregation)
            dependent == IF about = "person" THEN who ELSE Who(target.bucket, FALSE)
            next == CheckCondition(d, flag, condition, who, target, acc)
<1>0. WellFormedFlag(flag)
  BY DefinitionsAssumption
<1>1. /\ target.skip \in BOOLEAN /\ target.why \in {NoReason, "missing_context"}
      /\ target.bucket \in Buckets /\ about \in Aggregations
      /\ ~target.skip =>
           [who |-> dependent, properties |-> target.properties, aggregation |-> about] = Checked(c, about)
  <2>1. i \in DOMAIN flag.conditions
        /\ (flag.aggregation # "unknown" \/ Effective(flag.conditions[i], flag) = flag.aggregation)
    BY DEF Addressed
  <2>. HIDE DEF flag
  <2>2. IsChecked(flag, i, c)
    BY <1>0, <2>1, TargetsAreChecked
  <2>. QED BY <2>2 DEF IsChecked
<1>2. CASE target.skip
  <2>1. next = IF target.why = NoReason THEN acc ELSE [acc EXCEPT !.pending = Pick(acc.pending, target.why)]
    BY <1>2 DEF CheckCondition
  <2>2. acc.pending \in Reasons \cup {NoReason} /\ target.why \in Reasons \cup {NoReason}
    BY <1>1 DEF FlagStates, Reasons, Place
  <2>3. Pick(acc.pending, target.why) \in Reasons /\ NoReason \notin Reasons
    BY <2>2, PickIsAReason DEF NoReason, Reasons, Place
  <2>4. ~Settling(flag, i, c, T)
    BY <1>2 DEF Settling, ConditionHolds
  <2>. HIDE DEF flag, condition, target, who, next
  <2>5. next \in FlagStates(d, c, T) /\ ~next.stop /\ (next.pending = NoReason => acc.pending = NoReason)
    BY <2>1, <2>2, <2>3 DEF FlagStates
  <2>. QED BY <2>4, <2>5 DEF flag, condition, target, who, next
<1>3. CASE ~target.skip
  <2>. DEFINE found == MatchCondition(d, condition, Checked(c, about), target.bucket, acc.cache)
  <2>1. next = AfterCondition(d, flag, condition, target.bucket, acc, found)
    BY <1>1, <1>3 DEF CheckCondition
  <2>2. IsSequence(condition.filters) /\ Range(condition.filters) \subseteq FiltersOfFlag(flag)
    BY <1>0 DEF WellFormedFlag, FiltersOfFlag
  <2>3. FiltersOfFlag(flag) \subseteq FiltersOf(d)
    BY DEF FiltersOf
  <2>4. acc.cache \in Caches(d, c, T)
    BY DEF FlagStates
  <2>5. /\ found \in Answers(d, c, T)
        /\ Resolved(found.verdict) =>
             IF AllHold(condition, T, about) THEN found.verdict = Value(IF target.bucket \in condition.admits THEN "match" ELSE "out")
             ELSE found.verdict = Value("nomatch")
    <3>. HIDE DEF condition, target, about
    <3>. QED BY <1>1, <2>2, <2>3, <2>4, ConditionIsSound
  <2>6. Settling(flag, i, c, T) <=> AllHold(condition, T, about) /\ target.bucket \in condition.admits
    BY <1>3 DEF Settling, ConditionHolds, AllHold
  <2>. DEFINE bucket == target.bucket
              after == AfterCondition(d, flag, condition, bucket, acc, found)
  <2>. HIDE DEF condition, target, about, found, bucket
  <2>8. bucket \in Buckets
    BY <1>1 DEF bucket
  <2>9. Resolved(found.verdict) =>
          IF AllHold(condition, T, about) THEN found.verdict = Value(IF bucket \in condition.admits THEN "match" ELSE "out")
          ELSE found.verdict = Value("nomatch")
    BY <2>5 DEF bucket
  <2>10. /\ after \in FlagStates(d, c, T)
         /\ after.stop /\ Resolved(after.verdict) =>
              /\ AllHold(condition, T, about) /\ bucket \in condition.admits
              /\ after.verdict = Value(Matched(d.flags[k], condition, bucket))
         /\ ~after.stop /\ after.pending = NoReason =>
              acc.pending = NoReason /\ ~(AllHold(condition, T, about) /\ bucket \in condition.admits)
    BY <1>0, <2>5, <2>8, <2>9, AfterConditionIsSound
  <2>11. next = after
    BY <2>1 DEF bucket
  <2>. HIDE DEF next, after
  <2>. QED BY <2>6, <2>10, <2>11 DEF condition, target, bucket, next
<1>. QED BY <1>1, <1>2, <1>3

\* What local evaluation answers of a flag that does not exit early, if anything.
Settled(flag, c, T, v) ==
  LET held == Holdout(flag, Whom(c, flag.aggregation)) = Yes
  IN  \/ held /\ v = Value("holdout")
      \/ /\ ~held /\ v = Value("false")
         /\ \A i \in DOMAIN flag.conditions : ~Settling(flag, i, c, T)
      \/ /\ ~held
         /\ \E i \in DOMAIN flag.conditions :
              Settling(flag, i, c, T) /\ v = Value(Matched(flag, flag.conditions[i], TargetOf(flag, i, c).bucket))

LEMMA FlagIsSound ==
  ASSUME Recursion, NEW d \in Definitions, NEW c, c.device \in BOOLEAN, NEW T \in Interpretations(d),
         NEW k \in DOMAIN d.flags, ~d.flags[k].earlyExit, Addressed(d.flags[k]),
         \A filter \in FiltersOfFlag(d.flags[k]) : Sound(d, c, T, filter),
         NEW passed,
         \A i \in DOMAIN d.flags[k].conditions :
           Target(d.flags[k], d.flags[k].conditions[i], Whom(c, d.flags[k].aggregation),
                  Properties(c, d.flags[k].aggregation), passed) = TargetOf(d.flags[k], i, c),
         NEW cache \in Caches(d, c, T)
  PROVE  LET flag == d.flags[k]
             found == MatchFlag(d, flag, Whom(c, flag.aggregation), Properties(c, flag.aggregation), passed, cache)
         IN  found \in Answers(d, c, T) /\ (Resolved(found.verdict) => Settled(flag, c, T, found.verdict))
<1>. DEFINE flag == d.flags[k]
            who == Whom(c, flag.aggregation)
            properties == Properties(c, flag.aggregation)
            held == Holdout(flag, who)
            match == MatchFlag(d, flag, who, properties, passed, cache)
            E == flag.conditions
            S == Range(E)
            Step(acc, condition) ==
              IF acc.stop THEN acc
              ELSE CheckCondition(d, flag, condition, who, Target(flag, condition, who, properties, passed), acc)
            A == FlagStates(d, c, T)
            base == [stop |-> FALSE, verdict |-> No, pending |-> NoReason, cache |-> cache]
            g == [acc \in A |-> [condition \in S |-> Step(acc, condition)]]
            Stopped(acc) == Resolved(acc.verdict) =>
                              \E i \in DOMAIN E : /\ Settling(flag, i, c, T)
                                                 /\ acc.verdict = Value(Matched(flag, E[i], TargetOf(flag, i, c).bucket))
            Runs(acc, i) == acc.pending = NoReason => \A j \in 1..i : ~Settling(flag, j, c, T)
            States == [i \in 0..Len(E) |-> {acc \in A : IF acc.stop THEN Stopped(acc) ELSE Runs(acc, i)}]
            Solves(it) == it = [s \in SUBSET DOMAIN E |-> IF s = {} THEN base ELSE Step(it[s \ {Max(s)}], E[Max(s)])]
<1>0. WellFormedFlag(flag)
  BY DefinitionsAssumption
<1>1. E \in Seq(S) /\ E \in [1..Len(E) -> S] /\ Len(E) \in Nat /\ DOMAIN E = 1..Len(E) /\ \A i \in DOMAIN E : E[i] \in S
  BY <1>0 DEF WellFormedFlag, IsSequence
<1>3. ASSUME NEW acc \in A, ~acc.stop, NEW i \in DOMAIN E
      PROVE  /\ Step(acc, E[i]) \in A
             /\ Step(acc, E[i]).stop => Stopped(Step(acc, E[i]))
             /\ ~Step(acc, E[i]).stop /\ Step(acc, E[i]).pending = NoReason =>
                  acc.pending = NoReason /\ ~Settling(flag, i, c, T)
  <2>1. Step(acc, E[i]) = CheckCondition(d, flag, E[i], who, TargetOf(flag, i, c), acc)
    BY <1>3
  <2>. DEFINE next == Step(acc, E[i])
  <2>2. /\ next \in A
        /\ next.stop /\ Resolved(next.verdict) =>
             Settling(flag, i, c, T) /\ next.verdict = Value(Matched(flag, E[i], TargetOf(flag, i, c).bucket))
        /\ ~next.stop /\ next.pending = NoReason => acc.pending = NoReason /\ ~Settling(flag, i, c, T)
    <3>. HIDE DEF Step
    <3>. QED BY <1>3, <2>1, CheckConditionIsSound
  <2>. HIDE DEF Step
  <2>. QED BY <2>2
<1>. HIDE DEF Step, Stopped, Runs
<1>4. base \in A /\ Runs(base, 0) /\ ~base.stop
  <2>1. No \in Verdicts_(d)
    BY DEF No, Value, Verdict, Verdicts_, FlagValues
  <2>2. base \in A
    BY <2>1 DEF FlagStates
  <2>. QED BY <2>2 DEF Runs
<1>5. ASSUME NEW acc \in A, acc.stop, NEW condition PROVE Step(acc, condition) = acc
  BY <1>5 DEF Step
<1>6. \A acc \in A : acc.stop \in BOOLEAN
  BY DEF FlagStates
<1>7. \A acc \in A, condition \in S : Step(acc, condition) \in A
  <2>. SUFFICES ASSUME NEW acc \in A, NEW condition \in S PROVE Step(acc, condition) \in A
    OBVIOUS
  <2>1. PICK i \in DOMAIN E : condition = E[i]
    BY DEF Range
  <2>2. CASE acc.stop
    BY <1>5, <2>2
  <2>3. CASE ~acc.stop
    <3>. HIDE DEF A, E, S
    <3>. QED BY <1>3, <2>1, <2>3
  <2>. QED BY <1>6, <2>2, <2>3
<1>8. g \in [A -> [S -> A]] /\ \A acc \in A, condition \in S : g[acc][condition] = Step(acc, condition)
  BY <1>7
<1>9. ASSUME NEW i \in 0..(Len(E) - 1), NEW acc \in A, acc \in States[i]
      PROVE  g[acc][E[i+1]] \in States[i+1]
  <2>1. i + 1 \in DOMAIN E /\ i + 1 \in 0..Len(E) /\ i \in 0..Len(E) /\ E[i+1] \in S
    BY <1>1
  <2>. DEFINE next == Step(acc, E[i+1])
  <2>2. g[acc][E[i+1]] = next /\ next \in A
    BY <1>7, <1>8, <2>1
  <2>3. IF acc.stop THEN Stopped(acc) ELSE Runs(acc, i)
    BY <1>9, <2>1
  <2>4. IF next.stop THEN Stopped(next) ELSE Runs(next, i + 1)
    <3>1. CASE acc.stop
      BY <1>5, <2>3, <3>1
    <3>2. CASE ~acc.stop
      <4>1. next.stop => Stopped(next)
        BY <1>3, <2>1, <3>2
      <4>2. ASSUME ~next.stop, next.pending = NoReason PROVE \A j \in 1..(i+1) : ~Settling(flag, j, c, T)
        <5>1. acc.pending = NoReason /\ ~Settling(flag, i + 1, c, T)
          BY <1>3, <2>1, <3>2, <4>2
        <5>2. \A j \in 1..i : ~Settling(flag, j, c, T)
          BY <2>3, <3>2, <5>1 DEF Runs
        <5>3. \A j \in 1..(i+1) : j = i + 1 \/ j \in 1..i
          OBVIOUS
        <5>. QED BY <5>1, <5>2, <5>3
      <4>. QED BY <4>1, <4>2 DEF Runs
    <3>. QED BY <3>1, <3>2
  <2>. QED BY <2>1, <2>2, <2>4
<1>10. base \in States[0]
  BY <1>1, <1>4
<1>11. CASE held = Yes
  <2>0. Yes.is # "inconclusive"
    BY DEF Yes, Value, Verdict
  <2>1. match = Found(Value("holdout"), cache)
    BY <1>11, <2>0 DEF MatchFlag
  <2>2. Value("holdout") \in Verdicts_(d)
    BY DEF Value, Verdict, Verdicts_, FlagValues
  <2>. QED BY <1>11, <2>1, <2>2 DEF Found, Answers, Settled
<1>12. CASE held # Yes /\ held.is = "inconclusive"
  <2>. DEFINE why == Pick(DefinitionReason(d, flag), "missing_context")
  <2>1. match = Found(Inconclusive(why), cache)
    BY <1>12 DEF MatchFlag
  <2>2. why \in Reasons
    BY DefinitionReasonIsAReason, PickIsAReason DEF Reasons, Place
  <2>. HIDE DEF why
  <2>3. Inconclusive(why) \in Verdicts_(d) /\ ~Resolved(Inconclusive(why))
    BY <2>2 DEF Inconclusive, Verdict, Verdicts_, FlagValues, Named, Reasons, Place, Resolved
  <2>. QED BY <2>1, <2>3 DEF Found, Answers
<1>13. CASE held # Yes /\ held.is # "inconclusive"
  <2>. HIDE DEF E, S, A, base, g, States
  <2>0. PICK end : match = FlagVerdict(end) /\ end \in A /\ end \in States[Len(E)]
    <3>1. match = FlagVerdict((CHOOSE it : Solves(it))[DOMAIN E])
      BY <1>13 DEF MatchFlag, FoldLeft, MapThenFoldSet, E, base, Step
    <3>. HIDE DEF match
    <3>2. HasFold(A, base, S, Len(E), E, g)
      BY <1>1, <1>4, <1>8, FoldExists
    <3>3. PICK it \in [SUBSET (1..Len(E)) -> A] :
            \A s \in SUBSET (1..Len(E)) : it[s] = IF s = {} THEN base ELSE g[it[s \ {Max(s)}]][E[Max(s)]]
      BY <3>2 DEF HasFold
    <3>4. ASSUME NEW s \in SUBSET (1..Len(E)), s # {}
          PROVE  g[it[s \ {Max(s)}]][E[Max(s)]] = Step(it[s \ {Max(s)}], E[Max(s)])
      <4>1. Max(s) \in s
        BY <1>1, <3>4, MaxIn
      <4>2. s \ {Max(s)} \in SUBSET (1..Len(E)) /\ E[Max(s)] \in S
        BY <1>1, <4>1
      <4>. QED BY <1>8, <3>3, <4>2
    <3>5. \E f : Solves(f)
      <4>1. \A s \in SUBSET DOMAIN E : it[s] = IF s = {} THEN base ELSE Step(it[s \ {Max(s)}], E[Max(s)])
        BY <1>1, <3>3, <3>4
      <4>2. Solves(it)
        BY <1>1, <3>3, <4>1
      <4>. QED BY <4>2
    <3>6. PICK f : Solves(f) /\ match = FlagVerdict(f[DOMAIN E])
      BY <3>1, <3>5
    <3>7. f[{}] = base
      BY <3>6
    <3>8. ASSUME NEW s \in SUBSET DOMAIN E, s # {}, f[s \ {Max(s)}] \in A
          PROVE  f[s] = g[f[s \ {Max(s)}]][E[Max(s)]]
      <4>1. Max(s) \in s
        BY <1>1, <3>8, MaxIn
      <4>2. E[Max(s)] \in S /\ f[s] = Step(f[s \ {Max(s)}], E[Max(s)])
        BY <1>1, <3>6, <3>8, <4>1
      <4>. QED BY <1>8, <3>8, <4>2
    <3>. HIDE DEF Solves
    <3>9. f[DOMAIN E] \in A /\ f[DOMAIN E] \in States[Len(E)]
      <4>1. IsFold(A, base, S, E, g)
        BY <1>1, <1>4, <1>8 DEF IsFold
      <4>2. Unfolds(A, base, E, g, f)
        BY <3>7, <3>8 DEF Unfolds
      <4>3. Keeps(A, base, E, g, States)
        BY <1>9, <1>10 DEF Keeps
      <4>. QED BY <4>1, <4>2, <4>3, FoldInvariant
    <3>. QED BY <3>6, <3>9
  <2>1. IF end.stop THEN Stopped(end) ELSE Runs(end, Len(E))
    BY <1>1, <2>0 DEF States
  <2>2. match.verdict = (IF end.stop THEN end.verdict
                         ELSE IF end.pending # NoReason THEN Inconclusive(end.pending) ELSE Value("false"))
        /\ match.cache = end.cache /\ match = [verdict |-> match.verdict, cache |-> match.cache]
    BY <2>0 DEF FlagVerdict, Found
  <2>3. end.stop \in BOOLEAN /\ end.pending \in Reasons \cup {NoReason} /\ end.verdict \in Verdicts_(d)
        /\ end.cache \in Caches(d, c, T)
    BY <2>0 DEF A, FlagStates
  <2>. HIDE DEF match
  <2>4. match \in Answers(d, c, T)
    <3>1. Inconclusive(end.pending) \in Verdicts_(d) /\ Value("false") \in Verdicts_(d)
      BY <2>3, VerdictsAreTyped DEF FlagValues
    <3>. QED BY <2>2, <2>3, <3>1 DEF Answers
  <2>5. ASSUME Resolved(match.verdict) PROVE Settled(flag, c, T, match.verdict)
    <3>1. CASE end.stop
      BY <1>13, <2>1, <2>2, <2>5, <3>1 DEF Stopped, Settled, E
    <3>2. CASE ~end.stop
      <4>1. ~Resolved(Inconclusive(end.pending))
        BY DEF Resolved, Inconclusive, Verdict
      <4>2. end.pending = NoReason /\ match.verdict = Value("false")
        BY <2>2, <2>5, <3>2, <4>1
      <4>3. \A j \in DOMAIN E : ~Settling(flag, j, c, T)
        BY <1>1, <2>1, <3>2, <4>2 DEF Runs
      <4>. QED BY <1>13, <4>2, <4>3 DEF Settled, E
    <3>. QED BY <3>1, <3>2
  <2>. QED BY <2>4, <2>5 DEF match
<1>. QED BY <1>11, <1>12, <1>13

\* The answer is what the flag means when it can only be on or off, and in any case
\* "false" is answered when and only when the flag means it.
LEMMA SettledIsMeant ==
  ASSUME NEW d \in Definitions, NEW c, c.device \in BOOLEAN, NEW T,
         NEW k \in DOMAIN d.flags, d.flags[k].active, ~d.flags[k].earlyExit, Addressed(d.flags[k]),
         NEW v, Settled(d.flags[k], c, T, v)
  PROVE  /\ v = Value("false") <=> ValueUnder(d.flags[k], c, T) = "false"
         /\ d.flags[k].variants = {} => v = Value(ValueUnder(d.flags[k], c, T))
<1>. DEFINE flag == d.flags[k]
            E == flag.conditions
            held == Holdout(flag, Whom(c, flag.aggregation)) = Yes
            holds == [i \in DOMAIN E |-> ConditionHolds(flag, i, c, T)]
            buckets == [i \in DOMAIN E |-> TargetOf(flag, i, c).bucket]
            settling == {i \in DOMAIN E : Settling(flag, i, c, T)}
            first == CHOOSE i \in settling : \A j \in settling : i <= j
            means == [i \in DOMAIN E |-> Matched(flag, E[i], buckets[i])]
<1>0. WellFormedFlag(flag)
  BY DefinitionsAssumption
<1>1. \A i \in DOMAIN E : means[i] # "false" /\ (flag.variants = {} => means[i] = "true")
  <2>1. ASSUME NEW i \in DOMAIN E PROVE buckets[i] \in Buckets
    <3>1. flag.aggregation # "unknown" \/ Effective(flag.conditions[i], flag) = flag.aggregation
      BY DEF Addressed
    <3>2. i \in DOMAIN flag.conditions
      OBVIOUS
    <3>. HIDE DEF flag
    <3>3. IsChecked(flag, i, c)
      BY <1>0, <3>1, <3>2, TargetsAreChecked
    <3>. QED BY <3>2, <3>3 DEF IsChecked
  <2>. HIDE DEF buckets, E
  <2>. QED BY <1>0, <2>1, MatchedIsAValue
<1>2. settling # {} => first \in settling
  <2>1. settling \subseteq Nat
    BY <1>0 DEF WellFormedFlag, IsSequence
  <2>2. ASSUME settling # {} PROVE \E i \in settling : \A j \in settling : i <= j
    <3>. HIDE DEF settling
    <3>. QED BY <2>1, <2>2, HasLeast
  <2>. QED BY <2>2
<1>3. settling \subseteq DOMAIN E
  OBVIOUS
<1>4. ValueUnder(flag, c, T) = IF held THEN "holdout" ELSE IF settling = {} THEN "false" ELSE means[first]
  <2>1. ValueUnder(flag, c, T) = FlagMeans(flag, held, holds, buckets)
    BY DEF ValueUnder
  <2>. DEFINE settles == {i \in DOMAIN flag.conditions : holds[i] /\ (buckets[i] \in flag.conditions[i].admits \/ flag.earlyExit)}
              f == CHOOSE i \in settles : \A j \in settles : i <= j
              decided == IF settles = {} \/ ~(buckets[f] \in flag.conditions[f].admits) THEN "false"
                         ELSE Matched(flag, flag.conditions[f], buckets[f])
  <2>2. settles = settling
    BY DEF Settling
  <2>3. settling # {} => buckets[first] \in flag.conditions[first].admits /\ first \in DOMAIN E
    BY <1>2 DEF Settling
  <2>4. \A i \in DOMAIN E : means[i] = Matched(flag, flag.conditions[i], buckets[i])
    OBVIOUS
  <2>. HIDE DEF holds, buckets, held
  <2>5. FlagMeans(flag, held, holds, buckets) =
          CASE ~flag.active -> "false" [] flag.active /\ held -> "holdout" [] OTHER -> decided
    BY Zenon DEF FlagMeans
  <2>6. f = first
    BY <2>2, Zenon
  <2>. HIDE DEF settles, settling, first, means, f
  <2>7. decided = IF settling = {} THEN "false" ELSE means[first]
    BY <2>2, <2>3, <2>4, <2>6
  <2>. HIDE DEF decided
  <2>8. FlagMeans(flag, held, holds, buckets) = IF held THEN "holdout" ELSE decided
    BY <2>5
  <2>. QED BY <2>1, <2>7, <2>8
<1>5. \/ held /\ v = Value("holdout")
      \/ ~held /\ v = Value("false") /\ settling = {}
      \/ ~held /\ \E i \in settling : v = Value(means[i])
  BY DEF Settled
<1>6. \A x, y : Value(x) = Value(y) => x = y
  BY DEF Value, Verdict
<1>. HIDE DEF flag, E, held, settling, first, means
<1>7. CASE held
  BY <1>4, <1>5, <1>6, <1>7 DEF flag
<1>8. CASE ~held /\ settling = {}
  BY <1>4, <1>5, <1>6, <1>8 DEF flag
<1>9. CASE ~held /\ settling # {}
  <2>1. PICK i \in settling : v = Value(means[i])
    BY <1>5, <1>9, Zenon
  <2>2. means[i] # "false" /\ (flag.variants = {} => means[i] = "true")
    BY <1>1, <1>3, <2>1
  <2>3. ValueUnder(flag, c, T) = means[first]
    BY <1>4, <1>9
  <2>4. first \in DOMAIN E
    BY <1>2, <1>3, <1>9
  <2>5. means[first] # "false" /\ (flag.variants = {} => means[first] = "true")
    BY <1>1, <2>4
  <2>. QED BY <1>6, <2>1, <2>2, <2>3, <2>5 DEF flag
<1>. QED BY <1>7, <1>8, <1>9

--------------------------------------------------------------------------
(* A flag that another depends on.                                         *)

LEMMA RememberedIsKnown ==
  ASSUME NEW d, NEW c, NEW T, NEW cache \in Caches(d, c, T), NEW k \in DOMAIN d.flags,
         NEW value \in FlagValues(d) \cup {"nil"}, value \in {"nil", ValueUnder(d.flags[k], c, T)}
  PROVE  Remember(cache, k, value) \in Caches(d, c, T)
<1>. DEFINE X == FlagValues(d) \cup {"nil"}
            more == Remember(cache, k, value)
<1>1. PICK K \in SUBSET DOMAIN d.flags : cache \in [K -> X]
  BY DEF Caches
<1>2. \A q \in K : cache[q] \in {"nil", ValueUnder(d.flags[q], c, T)}
  BY <1>1 DEF Caches
<1>. HIDE DEF X
<1>3. value \in X
  BY DEF X
<1>4. more \in [K \cup {k} -> X] /\ K \cup {k} \in SUBSET DOMAIN d.flags
  BY <1>1, <1>3 DEF Remember
<1>5. \A q \in DOMAIN more : more[q] \in {"nil", ValueUnder(d.flags[q], c, T)}
  BY <1>1, <1>2 DEF Remember
<1>. HIDE DEF more
<1>6. more \in UNION {[M -> X] : M \in SUBSET DOMAIN d.flags}
  BY <1>4
<1>. QED BY <1>5, <1>6 DEF Caches, X, more

LEMMA InactiveIsOff ==
  ASSUME NEW flag, ~flag.active, NEW c, NEW T
  PROVE  ValueUnder(flag, c, T) = "false"
BY DEF ValueUnder, FlagMeans

\* The definitions a chain may name, for a condition about a.
LEMMA ChainsAreChecked ==
  ASSUME NEW d, NEW filter, NEW a
  PROVE  LET error == DependencyError(d, filter, a)
         IN  /\ error \in {Yes, Inconclusive("unsupported_definition"), Server("unsupported_definition")}
             /\ error = Yes => /\ filter.chain # <<>>
                              /\ \A i \in DOMAIN filter.chain :
                                   filter.chain[i] \in DOMAIN d.flags /\ ~ForeignTo(d, filter.chain[i], a)
<1>. DEFINE chain == filter.chain
            Wrong(key) == key \notin DOMAIN d.flags \/ ForeignTo(d, key, a)
            first == CHOOSE i \in DOMAIN chain : Wrong(chain[i]) /\ \A j \in 1..(i - 1) : ~Wrong(chain[j])
            wrong == IF chain[first] \notin DOMAIN d.flags
                     THEN Inconclusive("unsupported_definition") ELSE Server("unsupported_definition")
<1>1. Inconclusive("unsupported_definition") # Yes /\ Server("unsupported_definition") # Yes
  BY DEF Inconclusive, Server, Yes, Value, Verdict
<1>2. ChainError(d, chain, a) = CASE \A i \in DOMAIN chain : ~Wrong(chain[i]) -> Yes
                                  [] \E i \in DOMAIN chain : Wrong(chain[i]) -> wrong
  BY DEF ChainError
<1>3. wrong \in {Inconclusive("unsupported_definition"), Server("unsupported_definition")}
  OBVIOUS
<1>. HIDE DEF wrong, Wrong
<1>4. ChainError(d, chain, a) \in {Yes, Inconclusive("unsupported_definition"), Server("unsupported_definition")}
  <2>1. CASE \A i \in DOMAIN chain : ~Wrong(chain[i])
    BY <1>2, <2>1
  <2>2. CASE \E i \in DOMAIN chain : Wrong(chain[i])
    BY <1>2, <1>3, <2>2
  <2>. QED BY <2>1, <2>2
<1>5. ASSUME ChainError(d, chain, a) = Yes PROVE \A i \in DOMAIN chain : ~Wrong(chain[i])
  <2>1. CASE \E i \in DOMAIN chain : Wrong(chain[i])
    BY <1>1, <1>2, <1>3, <1>5, <2>1
  <2>. QED BY <2>1
<1>6. DependencyError(d, filter, a) = IF filter.value.kind = "null" \/ filter.op # "flag_evaluates_to" \/ chain = <<>>
                                      THEN Inconclusive("unsupported_definition") ELSE ChainError(d, chain, a)
  BY DEF DependencyError
<1>. QED BY <1>1, <1>4, <1>5, <1>6 DEF Wrong

\* Where a chain has got to: it stops at what cannot be evaluated.
ChainStates(d, c, T) == {found \in Answers(d, c, T) : found.verdict = Yes \/ ~Resolved(found.verdict)}

IsPlain(flag) == ~flag.earlyExit /\ flag.variants = {}

LEMMA DependencyIsSound ==
  ASSUME Recursion, NEW d \in Definitions, NEW c, c.device \in BOOLEAN, NEW T \in Interpretations(d),
         NEW a \in Aggregations, NEW k \in DOMAIN d.flags, ~ForeignTo(d, k, a),
         d.flags[k].active => IsPlain(d.flags[k]),
         \A filter \in FiltersOfFlag(d.flags[k]) : Sound(d, c, T, filter),
         NEW cache \in Caches(d, c, T)
  PROVE  EvaluateDependency(d, k, Checked(c, a), cache) \in ChainStates(d, c, T)
<1>. DEFINE dep == d.flags[k]
            at == Checked(c, a)
            passed == Call(at.properties, "absent", FALSE, NoCache, at.who.device)
            found == EvaluateDependency(d, k, at, cache)
            match == MatchFlag(d, dep, at.who, at.properties, passed, cache)
<1>0. WellFormedFlag(dep)
  BY DefinitionsAssumption
<1>1. Yes \in Verdicts_(d) /\ Inconclusive("unresolved_dependency") \in Verdicts_(d)
      /\ Server("unresolved_dependency") \in Verdicts_(d)
      /\ ~Resolved(Inconclusive("unresolved_dependency")) /\ ~Resolved(Server("unresolved_dependency"))
  BY DEF Yes, Inconclusive, Server, Named, Value, Verdict, Verdicts_, FlagValues, Reasons, Place, NoReason, Resolved
<1>2. \A v \in Verdicts_(d), kept \in Caches(d, c, T) :
        v = Yes \/ ~Resolved(v) => Found(v, kept) \in ChainStates(d, c, T)
  BY DEF Found, Answers, ChainStates
<1>3. dep.active \in BOOLEAN
  BY <1>0 DEF WellFormedFlag
<1>4. \A kept \in Caches(d, c, T) : Remember(kept, k, "nil") \in Caches(d, c, T)
  BY RememberedIsKnown
<1>5. CASE ~dep.active
  <2>1. found = Found(Yes, Remember(cache, k, "false"))
    BY <1>5 DEF EvaluateDependency
  <2>2. ValueUnder(dep, c, T) = "false"
    BY <1>5, InactiveIsOff
  <2>3. Remember(cache, k, "false") \in Caches(d, c, T)
    BY <2>2, RememberedIsKnown DEF FlagValues
  <2>. QED BY <1>1, <1>2, <2>1, <2>3
<1>6. CASE dep.active /\ dep.continuity
  <2>1. found = Found(Inconclusive("unresolved_dependency"), Remember(cache, k, "nil"))
    BY <1>6 DEF EvaluateDependency
  <2>. QED BY <1>1, <1>2, <1>4, <2>1
<1>7. CASE dep.active /\ ~dep.continuity
  <2>1. found = Depended(k, match)
    BY <1>7 DEF EvaluateDependency
  <2>2. dep.aggregation = a /\ \A i \in DOMAIN dep.conditions : dep.conditions[i].aggregation \in {"inherit", a}
    BY <1>7 DEF ForeignTo
  <2>3. \A i \in DOMAIN dep.conditions : Effective(dep.conditions[i], dep) = dep.aggregation
    BY <2>2 DEF Effective
  <2>4. Addressed(dep)
    BY <2>3 DEF Addressed
  <2>5. at.who = Whom(c, dep.aggregation) /\ at.properties = Properties(c, dep.aggregation)
    BY <2>2 DEF Checked
  <2>6. ASSUME NEW i \in DOMAIN dep.conditions
        PROVE  Target(dep, dep.conditions[i], Whom(c, dep.aggregation), Properties(c, dep.aggregation), passed)
                 = TargetOf(dep, i, c)
    BY <2>3 DEF Target, TargetOf
  <2>7. match \in Answers(d, c, T) /\ (Resolved(match.verdict) => Settled(dep, c, T, match.verdict))
    <3>. HIDE DEF passed, at
    <3>. QED BY <1>7, <2>4, <2>5, <2>6, FlagIsSound DEF IsPlain
  <2>8. match.verdict.is = "value" => match.verdict = Value(ValueUnder(dep, c, T))
    <3>. DEFINE v == match.verdict
    <3>1. ASSUME v.is = "value" PROVE Settled(dep, c, T, v)
      BY <2>7, <3>1 DEF Resolved
    <3>2. dep.active /\ ~dep.earlyExit /\ dep.variants = {}
      BY <1>7 DEF IsPlain
    <3>. HIDE DEF match, v
    <3>3. Settled(dep, c, T, v) => v = Value(ValueUnder(dep, c, T))
      BY <2>4, <3>2, SettledIsMeant
    <3>. QED BY <3>1, <3>3 DEF v
  <2>. HIDE DEF match, found, dep
  <2>9. match.verdict \in Verdicts_(d) /\ match.cache \in Caches(d, c, T)
    BY <2>7 DEF Answers
  <2>10. CASE match.verdict.is = "value"
    <3>1. found = Found(Yes, Remember(match.cache, k, match.verdict.value))
      BY <2>1, <2>10 DEF Depended
    <3>2. match.verdict.value \in FlagValues(d)
      BY <2>9 DEF Verdicts_
    <3>3. match.verdict.value = ValueUnder(d.flags[k], c, T)
      BY <2>8, <2>10 DEF Value, Verdict, dep
    <3>4. Remember(match.cache, k, match.verdict.value) \in Caches(d, c, T)
      BY <2>9, <3>2, <3>3, RememberedIsKnown
    <3>. QED BY <1>1, <1>2, <3>1, <3>4 DEF found
  <2>11. CASE match.verdict.is = "server"
    <3>1. found = Found(Server("unresolved_dependency"), match.cache)
      BY <2>1, <2>11 DEF Depended
    <3>. QED BY <1>1, <1>2, <2>9, <3>1 DEF found
  <2>12. CASE match.verdict.is \notin {"value", "server"}
    <3>1. found = Found(Inconclusive("unresolved_dependency"), Remember(match.cache, k, "nil"))
      BY <2>1, <2>12 DEF Depended
    <3>. QED BY <1>1, <1>2, <1>4, <2>9, <3>1 DEF found
  <2>. QED BY <2>10, <2>11, <2>12
<1>. QED BY <1>5, <1>6, <1>7

\* Within a flag's chain: the answer of the filter, once the chain is evaluated.
LEMMA ChainIsSound ==
  ASSUME Recursion, NEW d \in Definitions, NEW c, c.device \in BOOLEAN, NEW T \in Interpretations(d),
         NEW a \in Aggregations, NEW filter \in FiltersOf(d), filter.type = "flag",
         \A k \in Range(filter.chain) \cap DOMAIN d.flags :
           /\ d.flags[k].active => IsPlain(d.flags[k])
           /\ \A other \in FiltersOfFlag(d.flags[k]) : Sound(d, c, T, other),
         NEW cache \in Caches(d, c, T)
  PROVE  LET found == MatchDependency(d, filter, Checked(c, a), cache)
         IN  found \in Answers(d, c, T)
             /\ (Resolved(found.verdict) => found.verdict = Decided(HoldsUnder(d, c, T, a, filter)))
<1>. DEFINE at == Checked(c, a)
            error == DependencyError(d, filter, a)
            match == MatchDependency(d, filter, at, cache)
            E == filter.chain
            S == Range(E)
            Step(found, key) == IF found.verdict # Yes \/ key \in DOMAIN found.cache THEN found
                                ELSE EvaluateDependency(d, key, at, found.cache)
            A == ChainStates(d, c, T)
            base == Found(Yes, cache)
            g == [found \in A |-> [key \in S |-> Step(found, key)]]
            States == [i \in 0..Len(E) |-> A]
            Solves(it) == it = [s \in SUBSET DOMAIN E |-> IF s = {} THEN base ELSE Step(it[s \ {Max(s)}], E[Max(s)])]
<1>0. IsSequence(E)
  BY DefinitionsAssumption DEF WellFormedFilter
<1>1. E \in Seq(S) /\ E \in [1..Len(E) -> S] /\ Len(E) \in Nat /\ DOMAIN E = 1..Len(E) /\ \A i \in DOMAIN E : E[i] \in S
  BY <1>0 DEF IsSequence
<1>2. at.aggregation = a
  BY DEF Checked
<1>3. error \in {Yes, Inconclusive("unsupported_definition"), Server("unsupported_definition")}
      /\ (error = Yes => E # <<>> /\ \A i \in DOMAIN E : E[i] \in DOMAIN d.flags /\ ~ForeignTo(d, E[i], a))
  BY ChainsAreChecked
<1>4. CASE error # Yes
  <2>1. match = Found(error, cache)
    BY <1>2, <1>4 DEF MatchDependency
  <2>2. error \in Verdicts_(d) /\ ~Resolved(error)
    BY <1>3, <1>4 DEF Inconclusive, Server, Named, Verdict, Verdicts_, FlagValues, Reasons, Place, Resolved
  <2>. HIDE DEF error, match
  <2>. QED BY <2>1, <2>2 DEF Found, Answers, match
<1>5. CASE error = Yes
  <2>1. \A found \in A, key \in S : Step(found, key) \in A
    <3>. SUFFICES ASSUME NEW found \in A, NEW key \in S PROVE Step(found, key) \in A
      OBVIOUS
    <3>1. CASE found.verdict # Yes \/ key \in DOMAIN found.cache
      BY <3>1
    <3>2. CASE ~(found.verdict # Yes \/ key \in DOMAIN found.cache)
      <4>1. key \in DOMAIN d.flags /\ ~ForeignTo(d, key, a)
        BY <1>3, <1>5 DEF Range
      <4>2. found.cache \in Caches(d, c, T)
        BY DEF ChainStates, Answers
      <4>3. Step(found, key) = EvaluateDependency(d, key, at, found.cache)
        BY <3>2
      <4>4. (d.flags[key].active => IsPlain(d.flags[key])) /\ \A other \in FiltersOfFlag(d.flags[key]) : Sound(d, c, T, other)
        BY <4>1
      <4>. HIDE DEF Step
      <4>. QED BY <4>1, <4>2, <4>3, <4>4, DependencyIsSound
    <3>. QED BY <3>1, <3>2
  <2>2. base \in A
    BY VerdictsAreTyped DEF ChainStates, Answers, Found, Yes, Value, Verdict, Verdicts_, FlagValues
  <2>. HIDE DEF Step
  <2>3. g \in [A -> [S -> A]] /\ \A found \in A, key \in S : g[found][key] = Step(found, key)
    BY <2>1
  <2>4. ASSUME NEW i \in 0..(Len(E) - 1), NEW acc \in A, acc \in States[i]
        PROVE  g[acc][E[i+1]] \in States[i+1]
    <3>1. i + 1 \in DOMAIN E /\ i + 1 \in 0..Len(E) /\ E[i+1] \in S
      BY <1>1
    <3>. QED BY <2>1, <2>3, <3>1
  <2>5. base \in States[0]
    BY <1>1, <2>2
  <2>. HIDE DEF E, S, A, base, g, States
  <2>6. PICK end : match = DependencyVerdict(filter, end) /\ end \in A
    <3>1. match = DependencyVerdict(filter, (CHOOSE it : Solves(it))[DOMAIN E])
      BY <1>2, <1>5 DEF MatchDependency, FoldLeft, MapThenFoldSet, E, base, Step
    <3>. HIDE DEF match
    <3>2. HasFold(A, base, S, Len(E), E, g)
      BY <1>1, <2>2, <2>3, FoldExists
    <3>3. PICK it \in [SUBSET (1..Len(E)) -> A] :
            \A s \in SUBSET (1..Len(E)) : it[s] = IF s = {} THEN base ELSE g[it[s \ {Max(s)}]][E[Max(s)]]
      BY <3>2 DEF HasFold
    <3>4. ASSUME NEW s \in SUBSET (1..Len(E)), s # {}
          PROVE  g[it[s \ {Max(s)}]][E[Max(s)]] = Step(it[s \ {Max(s)}], E[Max(s)])
      <4>1. Max(s) \in s
        BY <1>1, <3>4, MaxIn
      <4>2. s \ {Max(s)} \in SUBSET (1..Len(E)) /\ E[Max(s)] \in S
        BY <1>1, <4>1
      <4>. QED BY <2>3, <3>3, <4>2
    <3>5. \E f : Solves(f)
      <4>1. \A s \in SUBSET DOMAIN E : it[s] = IF s = {} THEN base ELSE Step(it[s \ {Max(s)}], E[Max(s)])
        BY <1>1, <3>3, <3>4
      <4>2. Solves(it)
        BY <1>1, <3>3, <4>1
      <4>. QED BY <4>2
    <3>6. PICK f : Solves(f) /\ match = DependencyVerdict(filter, f[DOMAIN E])
      BY <3>1, <3>5
    <3>7. f[{}] = base
      BY <3>6
    <3>8. ASSUME NEW s \in SUBSET DOMAIN E, s # {}, f[s \ {Max(s)}] \in A
          PROVE  f[s] = g[f[s \ {Max(s)}]][E[Max(s)]]
      <4>1. Max(s) \in s
        BY <1>1, <3>8, MaxIn
      <4>2. E[Max(s)] \in S /\ f[s] = Step(f[s \ {Max(s)}], E[Max(s)])
        BY <1>1, <3>6, <3>8, <4>1
      <4>. QED BY <2>3, <3>8, <4>2
    <3>. HIDE DEF Solves
    <3>9. f[DOMAIN E] \in A
      <4>1. IsFold(A, base, S, E, g)
        BY <1>1, <2>2, <2>3 DEF IsFold
      <4>2. Unfolds(A, base, E, g, f)
        BY <3>7, <3>8 DEF Unfolds
      <4>3. Keeps(A, base, E, g, States)
        BY <2>4, <2>5 DEF Keeps
      <4>. QED BY <4>1, <4>2, <4>3, FoldInvariant
    <3>. QED BY <3>6, <3>9
  <2>7. end \in Answers(d, c, T) /\ (end.verdict = Yes \/ ~Resolved(end.verdict))
    BY <2>6 DEF A, ChainStates
  <2>8. end.verdict \in Verdicts_(d) /\ end.cache \in Caches(d, c, T)
    BY <2>7 DEF Answers
  <2>9. \A why \in Reasons : Inconclusive(why) \in Verdicts_(d) /\ ~Resolved(Inconclusive(why))
    BY VerdictsAreTyped, <2>8 DEF Resolved, Inconclusive, Verdict
  <2>10. {"unsupported_definition", "unresolved_dependency"} \subseteq Reasons
    BY DEF Reasons, Place
  <2>11. \A v \in Verdicts_(d) : Found(v, end.cache) \in Answers(d, c, T) /\ Found(v, end.cache).verdict = v
    BY <2>8 DEF Found, Answers
  <2>. HIDE DEF match
  <2>12. CASE end.verdict # Yes
    BY <2>6, <2>7, <2>12 DEF DependencyVerdict, match
  <2>13. CASE end.verdict = Yes /\ filter.key \notin DOMAIN end.cache
    BY <2>6, <2>9, <2>10, <2>11, <2>13 DEF DependencyVerdict, match
  <2>14. CASE end.verdict = Yes /\ filter.key \in DOMAIN end.cache
    <3>. DEFINE actual == end.cache[filter.key]
                v == IF actual = "nil" THEN Inconclusive("unresolved_dependency")
                     ELSE Decided(DependencyHolds(filter.value, actual))
    <3>1. match = Found(v, end.cache)
      BY <2>6, <2>14 DEF DependencyVerdict
    <3>2. filter.key \in DOMAIN d.flags /\ actual \in {"nil", ValueUnder(d.flags[filter.key], c, T)}
      BY <2>8, <2>14 DEF Caches
    <3>. HIDE DEF actual
    <3>3. CASE actual = "nil"
      BY <2>9, <2>10, <2>11, <3>1, <3>3 DEF match
    <3>4. CASE actual # "nil"
      <4>1. actual = ValueUnder(d.flags[filter.key], c, T)
        BY <3>2, <3>4
      <4>2. HoldsUnder(d, c, T, a, filter) = DependencyHolds(filter.value, actual)
        BY <1>3, <1>5, <3>2, <4>1 DEF HoldsUnder, E, DependencyHolds
      <4>3. v \in Verdicts_(d)
        BY <2>8, <3>4, VerdictsAreTyped DEF Decided, Reasons, Place, NoReason
      <4>. QED BY <2>11, <3>1, <3>4, <4>2, <4>3 DEF match
    <3>. QED BY <3>3, <3>4
  <2>. QED BY <2>12, <2>13, <2>14
<1>. QED BY <1>4, <1>5

--------------------------------------------------------------------------
(* Every filter, by how deep it nests.                                     *)

PropertyAnswers ==
  {Yes, No, Failed, Inconclusive("missing_context"), Inconclusive("unsupported_definition"),
   Server("unsupported_definition")}

LEMMA ExactAnswers ==
  ASSUME NEW value, NEW actual, NEW explicit
  PROVE  LET exact == ExactMatch(value, actual, explicit)
         IN  exact \in PropertyAnswers /\ Negated(exact) \in PropertyAnswers
<1>. DEFINE exact == ExactMatch(value, actual, explicit)
<1>1. \A b : Decided(b) \in {Yes, No}
  BY DEF Decided
<1>2. exact \in {Yes, No, Inconclusive("unsupported_definition")}
  <2>1. CASE ~explicit /\ TruthyOrFalsy(value)
    BY <1>1, <2>1 DEF ExactMatch
  <2>2. CASE (explicit \/ ~TruthyOrFalsy(value)) /\ value.kind = "list" /\ value.items = <<>>
    BY <1>1, <2>2 DEF ExactMatch
  <2>3. CASE (explicit \/ ~TruthyOrFalsy(value)) /\ value.kind = "list" /\ value.items # <<>>
    BY <1>1, <2>3 DEF ExactMatch
  <2>4. CASE (explicit \/ ~TruthyOrFalsy(value)) /\ value.kind # "list"
    BY <1>1, <2>4 DEF ExactMatch
  <2>. QED BY <2>1, <2>2, <2>3, <2>4
<1>. HIDE DEF exact
<1>3. Negated(exact) \in {Yes, No, exact}
  BY <1>1 DEF Negated
<1>. QED BY <1>2, <1>3 DEF PropertyAnswers, exact

\* Of a property, what is decided is yes or no.
LEMMA PropertiesAnswerThese ==
  ASSUME NEW filter, NEW properties, NEW explicit
  PROVE  MatchProperty(filter, properties, explicit) \in PropertyAnswers
<1>. DEFINE v == MatchPropertyValue(filter, properties, explicit)
            actual == properties[filter.key]
            op == filter.op
<1>0. DOMAIN TextOperators = {"icontains", "not_icontains", "starts_with", "not_starts_with", "ends_with", "not_ends_with"}
  BY DEF TextOperators
<1>1. \A b : Decided(b) \in PropertyAnswers
  BY DEF Decided, PropertyAnswers
<1>2. v \in PropertyAnswers
  <2>1. CASE filter.key \notin DOMAIN properties
    BY <2>1 DEF MatchPropertyValue, PropertyAnswers
  <2>2. CASE filter.key \in DOMAIN properties
    <3>1. CASE op \in {"is_not_set", "is_set"}
      BY <1>0, <2>2, <3>1 DEF MatchPropertyValue, Ranges, Comparisons, PropertyAnswers
    <3>2. CASE op \in {"exact", "is_not"}
      <4>1. CASE op = "exact"
        BY <1>0, <2>2, <4>1, ExactAnswers DEF MatchPropertyValue, Ranges, Comparisons
      <4>2. CASE op = "is_not"
        BY <1>0, <2>2, <4>2, ExactAnswers DEF MatchPropertyValue, Ranges, Comparisons
      <4>. QED BY <3>2, <4>1, <4>2
    <3>3. CASE op \in DOMAIN TextOperators
      <4>. DEFINE holds == TextMatch(op, filter.value, actual)
                  b == IF op \in {"icontains", "starts_with", "ends_with"} THEN holds ELSE ~holds
      <4>1. v = Decided(b)
        BY <1>0, <2>2, <3>3 DEF MatchPropertyValue, Ranges, Comparisons
      <4>. HIDE DEF b
      <4>. QED BY <1>1, <4>1
    <3>4. CASE op \in {"regex", "not_regex"}
      <4>1. RegexMatch(op, filter.value, actual) \in PropertyAnswers
        <5>. DEFINE matched == <<Shown(filter.value), Shown(actual)>> \in RegexMatches
                    b == IF op = "regex" THEN matched ELSE ~matched
        <5>1. RegexMatch(op, filter.value, actual) \in {Server("unsupported_definition"), No, Decided(b)}
          BY DEF RegexMatch
        <5>. HIDE DEF b
        <5>. QED BY <1>1, <5>1 DEF PropertyAnswers
      <4>2. v = RegexMatch(op, filter.value, actual)
        BY <1>0, <2>2, <3>4 DEF MatchPropertyValue, Ranges, Comparisons
      <4>. QED BY <4>1, <4>2
    <3>5. CASE op \in {"gt", "gte", "lt", "lte"}
      <4>1. OrderMatch(op, filter.value, actual) \in PropertyAnswers
        <5>. DEFINE x == Magnitude(actual)
                    y == Magnitude(filter.value)
                    b == CASE op = "gt" -> x > y [] op = "gte" -> x >= y [] op = "lt" -> x < y [] OTHER -> x <= y
        <5>1. OrderMatch(op, filter.value, actual) \in {Failed, Decided(b)}
          BY DEF OrderMatch
        <5>. HIDE DEF b
        <5>. QED BY <1>1, <5>1 DEF PropertyAnswers
      <4>2. v = OrderMatch(op, filter.value, actual)
        BY <1>0, <2>2, <3>5 DEF MatchPropertyValue, Ranges, Comparisons
      <4>. QED BY <4>1, <4>2
    <3>6. CASE op \in {"is_date_before", "is_date_after"}
      <4>1. DateMatch(op, filter.value, actual) \in PropertyAnswers
        <5>. DEFINE x == Instant(actual)
                    y == Instant(filter.value)
                    b == IF op = "is_date_before" THEN x < y ELSE x > y
        <5>1. DateMatch(op, filter.value, actual) \in {Failed, Decided(b)}
          BY DEF DateMatch
        <5>. HIDE DEF b
        <5>. QED BY <1>1, <5>1 DEF PropertyAnswers
      <4>2. v = DateMatch(op, filter.value, actual)
        BY <1>0, <2>2, <3>6 DEF MatchPropertyValue, Ranges, Comparisons
      <4>. QED BY <4>1, <4>2
    <3>7. CASE op \in Ranges \cup Comparisons
      <4>1. SemverMatch(op, filter.value, actual) \in PropertyAnswers
        <5>. DEFINE b == SemverHolds(op, ParseSemver(VersionOf[actual.text]), VersionOf[filter.value.text])
        <5>1. SemverMatch(op, filter.value, actual)
                \in {Inconclusive("missing_context"), Inconclusive("unsupported_definition"), Decided(b)}
          BY DEF SemverMatch
        <5>. HIDE DEF b
        <5>. QED BY <1>1, <5>1 DEF PropertyAnswers
      <4>2. v = SemverMatch(op, filter.value, actual)
        BY <1>0, <2>2, <3>7 DEF MatchPropertyValue, Ranges, Comparisons
      <4>. QED BY <4>1, <4>2
    <3>8. CASE op \notin Operators
      BY <1>0, <2>2, <3>8 DEF MatchPropertyValue, Operators, Propertyless, Ranges, Comparisons, PropertyAnswers
    <3>. QED BY <3>1, <3>2, <3>3, <3>4, <3>5, <3>6, <3>7, <3>8 DEF Operators, Propertyless
  <2>. QED BY <2>1, <2>2
<1>. HIDE DEF v
<1>3. Inconclusive("unsupported_definition") \in PropertyAnswers
  BY DEF PropertyAnswers
<1>. QED BY <1>2, <1>3 DEF MatchProperty, Blamed, v

LEMMA PropertyFilterIsSound ==
  ASSUME NEW d \in Definitions, NEW c, NEW T \in Interpretations(d), Interprets(d, c, T),
         NEW filter \in FiltersOf(d), filter.type \notin Composite
  PROVE  Sound(d, c, T, filter)
<1>. SUFFICES ASSUME NEW a \in Aggregations, NEW cache \in Caches(d, c, T)
              PROVE  LET found == MatchFilter(d, filter, Checked(c, a), cache)
                     IN  found \in Answers(d, c, T)
                         /\ (Resolved(found.verdict) => found.verdict = Decided(T[a][filter]))
  BY DEF Sound
<1>. DEFINE v == MatchProperty(filter, Properties(c, a), d.explicit)
<1>1. MatchFilter(d, filter, Checked(c, a), cache) = Found(v, cache)
  BY DEF MatchFilter, Composite, Checked
<1>2. v \in PropertyAnswers
  BY PropertiesAnswerThese
<1>3. Resolved(v) => v = Decided(T[a][filter])
  BY DEF Interprets, Meant
<1>. HIDE DEF v
<1>4. v \in Verdicts_(d)
  BY <1>2 DEF PropertyAnswers, Yes, No, Failed, Inconclusive, Server, Named, Value, Verdict, Verdicts_, FlagValues,
       Reasons, Place, NoReason
<1>. QED BY <1>1, <1>3, <1>4 DEF Found, Answers

\* The filters that the flag leads to through its conditions: none is deeper than
\* the deepest of them, so none of their chains can name the flag.
Below(d) == {filter \in FiltersOf(d) : \E top \in FiltersOfFlag(d.flags[Flag]) : Depth(filter) <= Depth(top)}

LEMMA BelowLeadsBelow ==
  ASSUME NEW d \in Definitions, NEW filter \in Below(d)
  PROVE  /\ \A other \in LeadsTo(d, filter) : other \in Below(d) /\ Depth(other) < Depth(filter)
         /\ filter.type = "flag" => Flag \notin Range(filter.chain)
<1>. DEFINE tops == FiltersOfFlag(d.flags[Flag])
<1>0. Flag \in DOMAIN d.flags
  BY DefinitionsAssumption
<1>1. PICK top \in tops : Depth(filter) <= Depth(top)
  BY DEF Below
<1>2. filter \in FiltersOf(d) /\ tops \subseteq FiltersOf(d)
  BY <1>0 DEF Below, FiltersOf
<1>3. LeadsTo(d, filter) \subseteq FiltersOf(d)
  BY DEF LeadsTo, FiltersOf
<1>. HIDE DEF tops
<1>4. \A f \in FiltersOf(d) : Depth(f) \in Nat
  BY DepthAssumption
<1>5. \A other \in LeadsTo(d, filter) : Depth(other) < Depth(filter)
  BY <1>2, DepthAssumption
<1>6. ASSUME NEW other \in LeadsTo(d, filter) PROVE other \in Below(d) /\ Depth(other) < Depth(filter)
  <2>1. Depth(other) \in Nat /\ Depth(filter) \in Nat /\ Depth(top) \in Nat
    BY <1>2, <1>3, <1>4
  <2>2. Depth(other) <= Depth(top)
    BY <1>1, <1>5, <2>1
  <2>. QED BY <1>3, <1>5, <2>2 DEF Below, tops
<1>7. ASSUME filter.type = "flag", Flag \in Range(filter.chain) PROVE FALSE
  <2>1. IsSequence(filter.chain)
    BY <1>2, <1>7, DefinitionsAssumption DEF WellFormedFilter
  <2>2. filter.chain # <<>>
    BY <1>7, <2>1 DEF Range
  <2>3. LeadsTo(d, filter) = UNION {FiltersOfFlag(d.flags[k]) : k \in (Range(filter.chain) \cup {filter.key}) \cap DOMAIN d.flags}
    BY <1>7, <2>2 DEF LeadsTo
  <2>4. top \in LeadsTo(d, filter)
    BY <1>0, <1>7, <2>3 DEF tops
  <2>5. Depth(top) < Depth(filter)
    BY <1>5, <2>4
  <2>. QED BY <1>1, <1>2, <1>4, <2>5
<1>. QED BY <1>6, <1>7

LEMMA FilterIsSound ==
  ASSUME Recursion, NEW d \in Definitions, NEW c, c.device \in BOOLEAN, NEW T \in Interpretations(d),
         Interprets(d, c, T),
         \A k \in DOMAIN d.flags : k # Flag /\ d.flags[k].active => IsPlain(d.flags[k]),
         NEW filter \in Below(d), \A other \in LeadsTo(d, filter) : Sound(d, c, T, other)
  PROVE  Sound(d, c, T, filter)
<1>0. filter \in FiltersOf(d) /\ (filter.type = "flag" => Flag \notin Range(filter.chain))
  BY BelowLeadsBelow DEF Below
<1>1. CASE filter.type \notin Composite
  BY <1>0, <1>1, PropertyFilterIsSound
<1>2. ASSUME filter.type \in Composite, NEW a \in Aggregations, NEW cache \in Caches(d, c, T)
      PROVE  LET found == MatchFilter(d, filter, Checked(c, a), cache)
             IN  found \in Answers(d, c, T)
                 /\ (Resolved(found.verdict) => found.verdict = Decided(T[a][filter]))
  <2>. DEFINE found == MatchFilter(d, filter, Checked(c, a), cache)
  <2>0. T[a][filter] = HoldsUnder(d, c, T, a, filter)
    BY <1>0, <1>2 DEF Interprets, Meant
  <2>1. CASE filter.type = "flag"
    <3>1. found = MatchDependency(d, filter, Checked(c, a), cache)
      BY <2>1 DEF MatchFilter
    <3>2. ASSUME NEW k \in Range(filter.chain) \cap DOMAIN d.flags
          PROVE  /\ d.flags[k].active => IsPlain(d.flags[k])
                 /\ \A other \in FiltersOfFlag(d.flags[k]) : Sound(d, c, T, other)
      <4>1. k # Flag
        BY <1>0, <2>1
      <4>2. IsSequence(filter.chain)
        BY <1>0, <2>1, DefinitionsAssumption DEF WellFormedFilter
      <4>3. filter.chain # <<>>
        BY <4>2 DEF Range
      <4>4. LeadsTo(d, filter) = UNION {FiltersOfFlag(d.flags[q]) : q \in (Range(filter.chain) \cup {filter.key}) \cap DOMAIN d.flags}
        BY <2>1, <4>3 DEF LeadsTo
      <4>5. FiltersOfFlag(d.flags[k]) \subseteq LeadsTo(d, filter)
        BY <4>4
      <4>. QED BY <4>1, <4>5
    <3>. HIDE DEF found
    <3>3. found \in Answers(d, c, T)
          /\ (Resolved(found.verdict) => found.verdict = Decided(HoldsUnder(d, c, T, a, filter)))
      BY <1>0, <2>1, <3>1, <3>2, ChainIsSound
    <3>. QED BY <2>0, <3>3 DEF found
  <2>2. CASE filter.type \in {"group", "cohort"} /\ filter.key \notin DOMAIN d.groups
    <3>1. found = Found(Server("unsupported_definition"), cache)
      BY <2>2 DEF MatchFilter
    <3>2. Server("unsupported_definition") \in Verdicts_(d) /\ ~Resolved(Server("unsupported_definition"))
      BY DEF Server, Named, Verdict, Verdicts_, FlagValues, Reasons, Place, NoReason, Resolved
    <3>. HIDE DEF found
    <3>. QED BY <3>1, <3>2 DEF Found, Answers, found
  <2>3. CASE filter.type \in {"group", "cohort"} /\ filter.key \in DOMAIN d.groups
    <3>. DEFINE group == d.groups[filter.key]
                holds == [i \in DOMAIN group.entries |-> EntryHolds(group.entries[i], T[a][group.entries[i]])]
    <3>1. found = MatchGroup(d, group, Checked(c, a), cache)
      BY <2>3 DEF MatchFilter
    <3>2. IsSequence(group.entries)
      BY <2>3, DefinitionsAssumption
    <3>3. Range(group.entries) = LeadsTo(d, filter)
      BY <2>3 DEF LeadsTo
    <3>4. Range(group.entries) \subseteq FiltersOf(d)
      BY <2>3 DEF FiltersOf
    <3>5. HoldsUnder(d, c, T, a, filter) = GroupMeans(group, holds)
      <4>1. filter.type # "flag" /\ filter.key \in DOMAIN d.groups
        BY <2>3
      <4>2. GroupMeans(group, holds) \in BOOLEAN
        BY DEF GroupMeans
      <4>3. HoldsUnder(d, c, T, a, filter) <=> GroupMeans(group, holds)
        BY <4>1, Zenon DEF HoldsUnder
      <4>4. HoldsUnder(d, c, T, a, filter) \in BOOLEAN
        BY <4>1 DEF HoldsUnder
      <4>. HIDE DEF holds, group
      <4>. QED BY <4>2, <4>3, <4>4
    <3>6. \A entry \in Range(group.entries) : Sound(d, c, T, entry)
      BY <3>3
    <3>. HIDE DEF found, group
    <3>7. found \in Answers(d, c, T) /\ (Resolved(found.verdict) => found.verdict = Decided(GroupMeans(group, holds)))
      BY <3>1, <3>2, <3>4, <3>6, GroupIsSound
    <3>. HIDE DEF holds
    <3>. QED BY <2>0, <3>5, <3>7 DEF found
  <2>. QED BY <1>2, <2>1, <2>2, <2>3 DEF Composite
<1>. QED BY <1>1, <1>2 DEF Sound

LEMMA FiltersAreSound ==
  ASSUME Recursion, NEW d \in Definitions, NEW c, c.device \in BOOLEAN, NEW T \in Interpretations(d),
         Interprets(d, c, T),
         \A k \in DOMAIN d.flags : k # Flag /\ d.flags[k].active => IsPlain(d.flags[k])
  PROVE  \A filter \in FiltersOfFlag(d.flags[Flag]) : Sound(d, c, T, filter)
<1>. DEFINE I == {n \in 0..(MaxDepth + 1) : \A filter \in Below(d) : Depth(filter) < n => Sound(d, c, T, filter)}
<1>0. MaxDepth + 1 \in Nat
  BY DepthAssumption
<1>1. \A filter \in Below(d) : Depth(filter) \in 0..MaxDepth
  BY DepthAssumption DEF Below
<1>2. 0 \in I
  BY <1>0, <1>1
<1>3. ASSUME NEW n \in 0..(MaxDepth + 1), n < MaxDepth + 1, n \in I PROVE n + 1 \in I
  <2>1. n + 1 \in 0..(MaxDepth + 1)
    BY <1>0, <1>3
  <2>2. ASSUME NEW filter \in Below(d), Depth(filter) < n + 1 PROVE Sound(d, c, T, filter)
    <3>1. ASSUME NEW other \in LeadsTo(d, filter) PROVE Sound(d, c, T, other)
      <4>1. other \in Below(d) /\ Depth(other) < Depth(filter)
        BY BelowLeadsBelow
      <4>2. Depth(other) < n
        BY <1>0, <1>1, <2>2, <4>1
      <4>. QED BY <1>3, <4>1, <4>2
    <3>. HIDE DEF I
    <3>. QED BY <3>1, FilterIsSound
  <2>. QED BY <2>1, <2>2
<1>. HIDE DEF I
<1>4. MaxDepth + 1 \in I
  <2>1. \A n \in 0..(MaxDepth + 1) : n \in I
    BY <1>0, <1>2, <1>3, UpTo
  <2>. QED BY <1>0, <2>1
<1>5. \A filter \in Below(d) : Depth(filter) < MaxDepth + 1 => Sound(d, c, T, filter)
  BY <1>4 DEF I
<1>6. ASSUME NEW filter \in FiltersOfFlag(d.flags[Flag]) PROVE filter \in Below(d)
  <2>1. Flag \in DOMAIN d.flags
    BY DefinitionsAssumption
  <2>2. filter \in FiltersOf(d)
    BY <2>1 DEF FiltersOf
  <2>3. Depth(filter) <= Depth(filter)
    BY <2>2, DepthAssumption
  <2>. QED BY <2>2, <2>3 DEF Below
<1>7. ASSUME NEW filter \in FiltersOfFlag(d.flags[Flag]) PROVE Sound(d, c, T, filter)
  <2>1. filter \in Below(d)
    BY <1>6
  <2>2. Depth(filter) < MaxDepth + 1
    BY <1>0, <1>1, <2>1, DepthAssumption
  <2>. QED BY <1>5, <2>1, <2>2
<1>. QED BY <1>7

--------------------------------------------------------------------------
(* There is an interpretation for every call.                              *)

LEMMA MeaningsAreBoolean ==
  ASSUME NEW d, NEW c, NEW T, NEW a, NEW filter
  PROVE  HoldsUnder(d, c, T, a, filter) \in BOOLEAN
<1>1. \A group, holds : GroupMeans(group, holds) \in BOOLEAN
  BY DEF GroupMeans
<1>2. \A expected, actual : DependencyHolds(expected, actual) \in BOOLEAN
  BY DEF DependencyHolds
<1>3. CASE filter.type = "flag"
  <2>. DEFINE b == DependencyHolds(filter.value, ValueUnder(d.flags[filter.key], c, T))
  <2>1. b \in BOOLEAN
    BY <1>2
  <2>2. HoldsUnder(d, c, T, a, filter) = (filter.chain # <<>> /\ filter.key \in DOMAIN d.flags /\ b)
    BY <1>3, Zenon DEF HoldsUnder
  <2>. HIDE DEF b
  <2>. QED BY <2>1, <2>2
<1>4. CASE filter.type # "flag"
  <2>. DEFINE group == d.groups[filter.key]
              b == GroupMeans(group, [i \in DOMAIN group.entries |-> EntryHolds(group.entries[i], T[a][group.entries[i]])])
  <2>1. b \in BOOLEAN
    BY <1>1
  <2>2. HoldsUnder(d, c, T, a, filter) = (filter.key \in DOMAIN d.groups /\ b)
    BY <1>4, Zenon DEF HoldsUnder
  <2>. HIDE DEF b
  <2>. QED BY <2>1, <2>2
<1>. QED BY <1>3, <1>4

\* What a flag means depends on its own filters only.
LEMMA ValueDependsOnFilters ==
  ASSUME NEW d \in Definitions, NEW c, NEW T, NEW U, NEW k \in DOMAIN d.flags,
         \A a \in Aggregations, filter \in FiltersOfFlag(d.flags[k]) : T[a][filter] = U[a][filter]
  PROVE  ValueUnder(d.flags[k], c, T) = ValueUnder(d.flags[k], c, U)
<1>. DEFINE flag == d.flags[k]
            first == [i \in DOMAIN flag.conditions |-> ConditionHolds(flag, i, c, T)]
            second == [i \in DOMAIN flag.conditions |-> ConditionHolds(flag, i, c, U)]
<1>0. WellFormedFlag(flag)
  BY DefinitionsAssumption
<1>1. ASSUME NEW i \in DOMAIN flag.conditions
      PROVE  ConditionHolds(flag, i, c, T) = ConditionHolds(flag, i, c, U)
  <2>1. Effective(flag.conditions[i], flag) \in Aggregations
    BY <1>0 DEF WellFormedFlag, Effective, Aggregations
  <2>2. \A j \in DOMAIN flag.conditions[i].filters : flag.conditions[i].filters[j] \in FiltersOfFlag(flag)
    <3>1. Range(flag.conditions[i].filters) \subseteq FiltersOfFlag(flag)
      BY DEF FiltersOfFlag
    <3>2. \A j \in DOMAIN flag.conditions[i].filters : flag.conditions[i].filters[j] \in Range(flag.conditions[i].filters)
      BY DEF Range
    <3>. QED BY <3>1, <3>2
  <2>3. \A j \in DOMAIN flag.conditions[i].filters :
          T[Effective(flag.conditions[i], flag)][flag.conditions[i].filters[j]]
            = U[Effective(flag.conditions[i], flag)][flag.conditions[i].filters[j]]
    BY <2>1, <2>2
  <2>. HIDE DEF flag
  <2>. QED BY <2>3 DEF ConditionHolds
<1>2. first = second
  BY <1>1
<1>3. ValueUnder(flag, c, T) = FlagMeans(flag, Holdout(flag, Whom(c, flag.aggregation)) = Yes, first,
                                         [i \in DOMAIN flag.conditions |-> TargetOf(flag, i, c).bucket])
  BY Zenon DEF ValueUnder
<1>4. ValueUnder(flag, c, U) = FlagMeans(flag, Holdout(flag, Whom(c, flag.aggregation)) = Yes, second,
                                         [i \in DOMAIN flag.conditions |-> TargetOf(flag, i, c).bucket])
  BY Zenon DEF ValueUnder
<1>. HIDE DEF first, second, flag
<1>5. ValueUnder(flag, c, T) = ValueUnder(flag, c, U)
  BY <1>2, <1>3, <1>4
<1>. QED BY <1>5 DEF flag

\* What a filter means depends on those it leads to only.
LEMMA MeaningDependsOnLeads ==
  ASSUME NEW d \in Definitions, NEW c, NEW T, NEW U, NEW a \in Aggregations,
         NEW filter, filter.type \in Composite,
         \A b \in Aggregations, other \in LeadsTo(d, filter) : T[b][other] = U[b][other]
  PROVE  HoldsUnder(d, c, T, a, filter) = HoldsUnder(d, c, U, a, filter)
<1>1. CASE filter.type = "flag" /\ filter.chain # <<>> /\ filter.key \in DOMAIN d.flags
  <2>1. LeadsTo(d, filter) = UNION {FiltersOfFlag(d.flags[k]) : k \in (Range(filter.chain) \cup {filter.key}) \cap DOMAIN d.flags}
    BY <1>1 DEF LeadsTo
  <2>2. FiltersOfFlag(d.flags[filter.key]) \subseteq LeadsTo(d, filter)
    BY <1>1, <2>1
  <2>3. ValueUnder(d.flags[filter.key], c, T) = ValueUnder(d.flags[filter.key], c, U)
    <3>. DEFINE k == filter.key
    <3>1. k \in DOMAIN d.flags
      BY <1>1
    <3>2. \A b \in Aggregations, other \in FiltersOfFlag(d.flags[k]) : T[b][other] = U[b][other]
      BY <2>2
    <3>. HIDE DEF k
    <3>3. ValueUnder(d.flags[k], c, T) = ValueUnder(d.flags[k], c, U)
      BY <3>1, <3>2, ValueDependsOnFilters
    <3>. QED BY <3>3 DEF k
  <2>. QED BY <1>1, <2>3 DEF HoldsUnder
<1>2. CASE filter.type = "flag" /\ ~(filter.chain # <<>> /\ filter.key \in DOMAIN d.flags)
  BY <1>2 DEF HoldsUnder
<1>3. CASE filter.type # "flag" /\ filter.key \in DOMAIN d.groups
  <2>. DEFINE group == d.groups[filter.key]
              first == [i \in DOMAIN group.entries |-> EntryHolds(group.entries[i], T[a][group.entries[i]])]
              second == [i \in DOMAIN group.entries |-> EntryHolds(group.entries[i], U[a][group.entries[i]])]
  <2>1. LeadsTo(d, filter) = Range(group.entries)
    BY <1>3 DEF LeadsTo, Composite
  <2>2. \A i \in DOMAIN group.entries : T[a][group.entries[i]] = U[a][group.entries[i]]
    BY <2>1 DEF Range
  <2>3. first = second
    BY <2>2
  <2>4. HoldsUnder(d, c, T, a, filter) <=> GroupMeans(group, first)
    BY <1>3, Zenon DEF HoldsUnder
  <2>5. HoldsUnder(d, c, U, a, filter) <=> GroupMeans(group, second)
    BY <1>3, Zenon DEF HoldsUnder
  <2>. HIDE DEF first, second, group
  <2>6. HoldsUnder(d, c, T, a, filter) \in BOOLEAN /\ HoldsUnder(d, c, U, a, filter) \in BOOLEAN
    BY MeaningsAreBoolean
  <2>. QED BY <2>3, <2>4, <2>5, <2>6
<1>4. CASE filter.type # "flag" /\ filter.key \notin DOMAIN d.groups
  BY <1>4 DEF HoldsUnder
<1>. QED BY <1>1, <1>2, <1>3, <1>4

LEMMA MeantDependsOnLeads ==
  ASSUME NEW d \in Definitions, NEW c, NEW T, NEW U, NEW a \in Aggregations, NEW filter,
         T[a][filter] = U[a][filter],
         \A b \in Aggregations, other \in LeadsTo(d, filter) : T[b][other] = U[b][other],
         Meant(d, c, T, a, filter)
  PROVE  Meant(d, c, U, a, filter)
<1>1. CASE filter.type \in Composite
  <2>1. HoldsUnder(d, c, T, a, filter) = HoldsUnder(d, c, U, a, filter)
    BY <1>1, MeaningDependsOnLeads
  <2>. QED BY <1>1, <2>1 DEF Meant
<1>2. CASE filter.type \notin Composite
  BY <1>2 DEF Meant
<1>. QED BY <1>1, <1>2

LEMMA InterpretationExists ==
  ASSUME NEW d \in Definitions, NEW c
  PROVE  \E T \in Interpretations(d) : Interprets(d, c, T)
<1>. DEFINE Partial(T, n) == \A a \in Aggregations, filter \in FiltersOf(d) : Depth(filter) < n => Meant(d, c, T, a, filter)
            I == {n \in 0..(MaxDepth + 1) : \E T \in Interpretations(d) : Partial(T, n)}
<1>0. MaxDepth + 1 \in Nat /\ \A filter \in FiltersOf(d) : Depth(filter) \in 0..MaxDepth
  BY DepthAssumption
<1>1. 0 \in I
  <2>1. [a \in Aggregations |-> [filter \in FiltersOf(d) |-> FALSE]] \in Interpretations(d)
    BY DEF Interpretations
  <2>2. \A T : Partial(T, 0)
    BY <1>0
  <2>. QED BY <1>0, <2>1, <2>2
<1>2. ASSUME NEW n \in 0..(MaxDepth + 1), n < MaxDepth + 1, n \in I PROVE n + 1 \in I
  <2>1. PICK T \in Interpretations(d) : Partial(T, n)
    BY <1>2
  <2>. DEFINE Next_(a, filter) == IF filter.type \in Composite THEN HoldsUnder(d, c, T, a, filter)
                                  ELSE MatchProperty(filter, Properties(c, a), d.explicit) = Yes
              U == [a \in Aggregations |-> [filter \in FiltersOf(d) |->
                      IF Depth(filter) = n THEN Next_(a, filter) ELSE T[a][filter]]]
  <2>2. \A a \in Aggregations, filter \in FiltersOf(d) : T[a][filter] \in BOOLEAN /\ Next_(a, filter) \in BOOLEAN
    <3>1. \A a \in Aggregations, filter \in FiltersOf(d) : T[a][filter] \in BOOLEAN
      BY DEF Interpretations
    <3>2. \A a \in Aggregations, filter \in FiltersOf(d) : HoldsUnder(d, c, T, a, filter) \in BOOLEAN
      BY MeaningsAreBoolean
    <3>. QED BY <3>1, <3>2
  <2>. HIDE DEF Next_
  <2>3. U \in Interpretations(d)
    BY <2>2 DEF Interpretations
  <2>4. \A a \in Aggregations, filter \in FiltersOf(d) :
          U[a][filter] = IF Depth(filter) = n THEN Next_(a, filter) ELSE T[a][filter]
    OBVIOUS
  <2>. HIDE DEF U
  <2>5. ASSUME NEW a \in Aggregations, NEW filter \in FiltersOf(d), Depth(filter) < n + 1
        PROVE  Meant(d, c, U, a, filter)
    <3>1. Depth(filter) \in Nat /\ n \in Nat
      BY <1>0
    <3>2. LeadsTo(d, filter) \subseteq FiltersOf(d)
      BY DEF LeadsTo, FiltersOf
    <3>3. ASSUME NEW b \in Aggregations, NEW other \in LeadsTo(d, filter) PROVE T[b][other] = U[b][other]
      <4>1. other \in FiltersOf(d) /\ Depth(other) \in Nat /\ Depth(other) < Depth(filter)
        BY <1>0, <3>2, DepthAssumption
      <4>2. Depth(other) # n
        BY <2>5, <3>1, <4>1
      <4>. QED BY <2>4, <4>1, <4>2
    <3>4. CASE Depth(filter) # n
      <4>1. Depth(filter) < n
        BY <2>5, <3>1, <3>4
      <4>2. Meant(d, c, T, a, filter)
        BY <2>1, <4>1
      <4>3. T[a][filter] = U[a][filter]
        BY <2>4, <3>4
      <4>. QED BY <3>3, <4>2, <4>3, MeantDependsOnLeads
    <3>5. CASE Depth(filter) = n /\ filter.type \in Composite
      <4>1. U[a][filter] = HoldsUnder(d, c, T, a, filter)
        BY <2>4, <3>5 DEF Next_
      <4>2. HoldsUnder(d, c, T, a, filter) = HoldsUnder(d, c, U, a, filter)
        BY <3>3, <3>5, MeaningDependsOnLeads
      <4>. QED BY <3>5, <4>1, <4>2 DEF Meant
    <3>6. CASE Depth(filter) = n /\ filter.type \notin Composite
      <4>. DEFINE v == MatchProperty(filter, Properties(c, a), d.explicit)
      <4>1. U[a][filter] = (v = Yes)
        BY <2>4, <3>6 DEF Next_
      <4>2. v \in PropertyAnswers
        BY PropertiesAnswerThese
      <4>. HIDE DEF v
      <4>3. Resolved(v) => v \in {Yes, No}
        BY <4>2, Open DEF PropertyAnswers, Resolved, Failed, Verdict
      <4>4. Resolved(v) => v = Decided(U[a][filter])
        BY <4>1, <4>3 DEF Decided
      <4>. QED BY <3>6, <4>4 DEF Meant, v
    <3>. QED BY <3>4, <3>5, <3>6
  <2>6. n + 1 \in 0..(MaxDepth + 1)
    BY <1>0, <1>2
  <2>. QED BY <2>3, <2>5, <2>6
<1>. HIDE DEF I
<1>3. MaxDepth + 1 \in I
  <2>1. \A n \in 0..(MaxDepth + 1) : n \in I
    BY <1>0, <1>1, <1>2, UpTo
  <2>. QED BY <1>0, <2>1
<1>4. PICK T \in Interpretations(d) : Partial(T, MaxDepth + 1)
  BY <1>3 DEF I
<1>5. ASSUME NEW a \in Aggregations, NEW filter \in FiltersOf(d) PROVE Meant(d, c, T, a, filter)
  <2>1. Depth(filter) < MaxDepth + 1
    BY <1>0, DepthAssumption
  <2>. QED BY <1>4, <2>1
<1>6. Interprets(d, c, T)
  BY <1>5 DEF Interprets
<1>. QED BY <1>6

--------------------------------------------------------------------------
(* Two answers about the same definitions.                                 *)

\* A call that passes more meets the same targets.
LEMMA LaterTargets ==
  ASSUME NEW c, NEW later, Passes(c, later), NEW flag, NEW i
  PROVE  /\ TargetOf(flag, i, c).skip = TargetOf(flag, i, later).skip
         /\ TargetOf(flag, i, c).bucket = TargetOf(flag, i, later).bucket
         /\ \A a : Whom(c, a) = Whom(later, a)
<1>. DEFINE aggregation == Effective(flag.conditions[i], flag)
            who == Whom(c, flag.aggregation)
            Own(properties) == [skip |-> FALSE, why |-> NoReason, properties |-> properties, bucket |-> BucketingId(flag, who)]
<1>1. c.device = later.device /\ c.group = later.group /\ c.passed = later.passed
  BY DEF Passes
<1>2. \A a : Whom(c, a) = Whom(later, a)
  BY <1>1 DEF Whom
<1>. HIDE DEF who
<1>3. ASSUME NEW x, x.group = c.group, x.passed = c.passed, NEW properties
      PROVE  LET target == Target(flag, flag.conditions[i], who, properties, x)
             IN  /\ target.skip = IF aggregation = flag.aggregation THEN FALSE
                                  ELSE IF aggregation = "unknown" /\ flag.aggregation # "unknown" THEN TRUE
                                  ELSE c.group = "absent" \/ ~c.passed \/ c.group = "odd"
                 /\ target.bucket = IF aggregation = flag.aggregation \/ (aggregation = "unknown" /\ flag.aggregation # "unknown")
                                       \/ c.group = "absent" \/ ~c.passed \/ c.group = "odd"
                                    THEN BucketingId(flag, who) ELSE "group"
  <2>. HIDE DEF aggregation
  <2>1. CASE aggregation = flag.aggregation
    BY <2>1 DEF Target, aggregation
  <2>2. CASE aggregation # flag.aggregation /\ aggregation = "unknown" /\ flag.aggregation # "unknown"
    BY <2>2 DEF Target, aggregation
  <2>3. CASE aggregation # flag.aggregation /\ ~(aggregation = "unknown" /\ flag.aggregation # "unknown")
    <3>1. CASE x.group = "absent"
      BY <1>3, <2>3, <3>1 DEF Target, aggregation
    <3>2. CASE x.group # "absent" /\ ~x.passed
      BY <1>3, <2>3, <3>2 DEF Target, aggregation
    <3>3. CASE x.group = "odd" /\ x.passed
      BY <1>3, <2>3, <3>3 DEF Target, aggregation
    <3>4. CASE x.group \notin {"absent", "odd"} /\ x.passed
      BY <1>3, <2>3, <3>4 DEF Target, aggregation
    <3>. QED BY <3>1, <3>2, <3>3, <3>4
  <2>. QED BY <2>1, <2>2, <2>3
<1>4. /\ TargetOf(flag, i, c) = Target(flag, flag.conditions[i], who, Properties(c, flag.aggregation), c)
      /\ TargetOf(flag, i, later) = Target(flag, flag.conditions[i], who, Properties(later, flag.aggregation), later)
  BY <1>2 DEF TargetOf, who
<1>. HIDE DEF aggregation
<1>. QED BY <1>1, <1>2, <1>3, <1>4

LEMMA LaterMeansTheSame ==
  ASSUME NEW d, NEW c, NEW later, Passes(c, later), NEW T, NEW flag
  PROVE  ValueUnder(flag, c, T) = ValueUnder(flag, later, T)
<1>1. Whom(c, flag.aggregation) = Whom(later, flag.aggregation)
  BY LaterTargets
<1>2. \A i : TargetOf(flag, i, c).skip = TargetOf(flag, i, later).skip
             /\ TargetOf(flag, i, c).bucket = TargetOf(flag, i, later).bucket
  BY LaterTargets
<1>3. \A i : ConditionHolds(flag, i, c, T) = ConditionHolds(flag, i, later, T)
  BY <1>2 DEF ConditionHolds
<1>4. [i \in DOMAIN flag.conditions |-> ConditionHolds(flag, i, c, T)]
        = [i \in DOMAIN flag.conditions |-> ConditionHolds(flag, i, later, T)]
  BY <1>3
<1>5. [i \in DOMAIN flag.conditions |-> TargetOf(flag, i, c).bucket]
        = [i \in DOMAIN flag.conditions |-> TargetOf(flag, i, later).bucket]
  BY <1>2
<1>. QED BY <1>1, <1>4, <1>5, Zenon DEF ValueUnder

\* What is decided of a property stays decided when more are passed.
LEMMA LaterPropertiesAgree ==
  ASSUME NEW filter, NEW properties, NEW more,
         \A k \in DOMAIN properties : k \in DOMAIN more /\ more[k] = properties[k],
         NEW explicit, Resolved(MatchProperty(filter, properties, explicit))
  PROVE  MatchProperty(filter, more, explicit) = MatchProperty(filter, properties, explicit)
<1>1. filter.key \in DOMAIN properties
  <2>1. ASSUME filter.key \notin DOMAIN properties PROVE FALSE
    <3>1. MatchPropertyValue(filter, properties, explicit) = Inconclusive("missing_context")
      BY <2>1 DEF MatchPropertyValue
    <3>2. ~Resolved(MatchProperty(filter, properties, explicit))
      BY <3>1, Open DEF MatchProperty, Blamed, Resolved
    <3>. QED BY <3>2
  <2>. QED BY <2>1
<1>2. filter.key \in DOMAIN more /\ more[filter.key] = properties[filter.key]
  BY <1>1
<1>3. MatchPropertyValue(filter, more, explicit) = MatchPropertyValue(filter, properties, explicit)
  BY <1>1, <1>2 DEF MatchPropertyValue
<1>. QED BY <1>3 DEF MatchProperty

LEMMA EarlierInterprets ==
  ASSUME NEW d, NEW c, NEW later, Passes(c, later), NEW T, Interprets(d, later, T)
  PROVE  Interprets(d, c, T)
<1>. SUFFICES ASSUME NEW a \in Aggregations, NEW filter \in FiltersOf(d) PROVE Meant(d, c, T, a, filter)
  BY DEF Interprets
<1>0. Meant(d, later, T, a, filter)
  BY DEF Interprets
<1>1. CASE filter.type \in Composite
  <2>1. HoldsUnder(d, c, T, a, filter) = HoldsUnder(d, later, T, a, filter)
    <3>1. ValueUnder(d.flags[filter.key], c, T) = ValueUnder(d.flags[filter.key], later, T)
      BY LaterMeansTheSame
    <3>. QED BY <3>1 DEF HoldsUnder
  <2>. QED BY <1>0, <1>1, <2>1 DEF Meant
<1>2. CASE filter.type \notin Composite
  <2>. DEFINE properties == Properties(c, a)
              more == Properties(later, a)
  <2>1. \A k \in DOMAIN properties : k \in DOMAIN more /\ more[k] = properties[k]
    BY DEF Passes, Properties
  <2>. HIDE DEF properties, more
  <2>2. Resolved(MatchProperty(filter, properties, d.explicit)) =>
          MatchProperty(filter, more, d.explicit) = MatchProperty(filter, properties, d.explicit)
    BY <2>1, LaterPropertiesAgree
  <2>. QED BY <1>0, <1>2, <2>2 DEF Meant, properties, more
<1>. QED BY <1>1, <1>2

\* What is answered of a flag that does not exit early is what it means.
THEOREM LocalAnswersAreMeant ==
  ASSUME Recursion, NEW d \in Definitions, NEW c, c.device \in BOOLEAN, NEW T \in Interpretations(d),
         Interprets(d, c, T),
         \A k \in DOMAIN d.flags : k # Flag /\ d.flags[k].active => IsPlain(d.flags[k]),
         d.flags[Flag].active, ~d.flags[Flag].earlyExit, Resolved(Evaluate(d, c))
  PROVE  /\ Evaluate(d, c) = Value("false") <=> ValueUnder(d.flags[Flag], c, T) = "false"
         /\ d.flags[Flag].variants = {} => Evaluate(d, c) = Value(ValueUnder(d.flags[Flag], c, T))
<1>. DEFINE flag == d.flags[Flag]
            who == Whom(c, flag.aggregation)
            properties == Properties(c, flag.aggregation)
            match == MatchFlag(d, flag, who, properties, c, NoCache)
            v == Evaluate(d, c)
<1>0. Flag \in DOMAIN d.flags /\ WellFormedFlag(flag)
  BY DefinitionsAssumption
<1>1. \A why : ~Resolved(Inconclusive(why))
  BY Open DEF Resolved
<1>2. ~Resolved(Failed)
  BY DEF Resolved, Failed, Verdict
<1>3. ~flag.continuity /\ flag.aggregation # "unknown" /\ ~(flag.aggregation = "group" /\ c.group \in {"absent", "odd"})
  <2>1. CASE flag.continuity
    BY <1>1, <2>1 DEF Evaluate, ComputeFlagLocally
  <2>2. CASE ~flag.continuity /\ flag.aggregation = "group" /\ c.group = "absent"
    BY <1>1, <2>2 DEF Evaluate, ComputeFlagLocally
  <2>3. CASE ~flag.continuity /\ flag.aggregation = "group" /\ c.group = "odd"
    BY <1>2, <2>3 DEF Evaluate, ComputeFlagLocally
  <2>4. CASE ~flag.continuity /\ flag.aggregation = "unknown"
    BY <1>2, <2>4 DEF Evaluate, ComputeFlagLocally
  <2>. QED BY <2>1, <2>2, <2>3, <2>4
<1>4. v = match.verdict
  BY <1>3 DEF Evaluate, ComputeFlagLocally, Whom, Properties
<1>5. NoCache \in Caches(d, c, T)
  BY DEF NoCache, Caches
<1>6. Addressed(flag)
  BY <1>3 DEF Addressed
<1>7. \A filter \in FiltersOfFlag(flag) : Sound(d, c, T, filter)
  BY FiltersAreSound
<1>8. \A i \in DOMAIN flag.conditions : Target(flag, flag.conditions[i], who, properties, c) = TargetOf(flag, i, c)
  BY DEF TargetOf
<1>9. Resolved(match.verdict) => Settled(flag, c, T, match.verdict)
  BY <1>0, <1>5, <1>6, <1>7, <1>8, FlagIsSound
<1>10. Settled(flag, c, T, v)
  BY <1>4, <1>9
<1>. HIDE DEF v
<1>11. /\ v = Value("false") <=> ValueUnder(flag, c, T) = "false"
       /\ flag.variants = {} => v = Value(ValueUnder(flag, c, T))
  <2>1. v = Value("false") <=> ValueUnder(flag, c, T) = "false"
    BY <1>0, <1>6, <1>10, SettledIsMeant
  <2>2. ASSUME flag.variants = {} PROVE v = Value(ValueUnder(flag, c, T))
    BY <1>0, <1>6, <1>10, <2>2, SettledIsMeant
  <2>. QED BY <2>1, <2>2
<1>. QED BY <1>11 DEF v

\* A later call, which passes more properties, is given the same answer, if any, by a
\* flag that can only be on or off, and by any flag that was off; flags that exit early
\* are left out, as are flags with variants or early exits among those it depends on.
LEMMA LaterAnswersAgree ==
  ASSUME Recursion, NEW d \in Definitions, NEW c, c.device \in BOOLEAN, NEW later, Passes(c, later),
         Resolved(Evaluate(d, c)), Resolved(Evaluate(d, later)),
         \A k \in DOMAIN d.flags : k # Flag /\ d.flags[k].active => IsPlain(d.flags[k]),
         \/ IsPlain(d.flags[Flag])
         \/ Evaluate(d, c) = Value("false") /\ ~d.flags[Flag].earlyExit
  PROVE  Evaluate(d, later) = Evaluate(d, c)
<1>. DEFINE flag == d.flags[Flag]
<1>0. WellFormedFlag(flag) /\ later.device \in BOOLEAN
  BY DefinitionsAssumption DEF Passes
<1>1. CASE ~flag.active
  BY <1>1 DEF Evaluate, ComputeFlagLocally
<1>2. CASE flag.active
  <2>1. PICK T \in Interpretations(d) : Interprets(d, later, T)
    BY InterpretationExists
  <2>2. Interprets(d, c, T)
    BY <2>1, EarlierInterprets
  <2>3. ~flag.earlyExit
    BY DEF IsPlain
  <2>4. /\ Evaluate(d, c) = Value("false") <=> ValueUnder(flag, c, T) = "false"
        /\ flag.variants = {} => Evaluate(d, c) = Value(ValueUnder(flag, c, T))
    BY <1>2, <2>2, <2>3, LocalAnswersAreMeant
  <2>5. /\ Evaluate(d, later) = Value("false") <=> ValueUnder(flag, later, T) = "false"
        /\ flag.variants = {} => Evaluate(d, later) = Value(ValueUnder(flag, later, T))
    BY <1>0, <1>2, <2>1, <2>3, LocalAnswersAreMeant
  <2>6. ValueUnder(flag, c, T) = ValueUnder(flag, later, T)
    BY LaterMeansTheSame
  <2>. HIDE DEF flag
  <2>. QED BY <2>4, <2>5, <2>6 DEF IsPlain, flag
<1>. QED BY <1>0, <1>1, <1>2 DEF WellFormedFlag

\* Answers given locally never contradict each other, whatever later calls pass in
\* addition: FlagEvaluation checks it, as AnswersNeverContradict.  The hypothesis ties
\* the recursion of the evaluation, as every configuration does.
THEOREM AnswersStay ==
  ASSUME Recursion
  PROVE  EvaluationSpec => AnswersNeverContradict
<1>1. EvaluationInv /\ [EvaluationNext]_evaluationVars =>
        [/\ Resolved(verdict) /\ Resolved(verdict')
         /\ \A k \in ActiveFlags \ {Flag} : Plainly(k)
         /\ Plainly(Flag) \/ (verdict = Value("false") /\ ~defs.flags[Flag].earlyExit)
         => verdict' = verdict]_verdict
  <2>1. ASSUME EvaluationInv, EvaluationNext, Resolved(verdict), Resolved(verdict'),
               \A k \in ActiveFlags \ {Flag} : Plainly(k),
               Plainly(Flag) \/ (verdict = Value("false") /\ ~defs.flags[Flag].earlyExit)
        PROVE  verdict' = verdict
    <3>1. defs \in Definitions /\ call.device \in BOOLEAN /\ verdict = Evaluate(defs, call)
      BY <2>1 DEF EvaluationInv, CallOK
    <3>2. Passes(call, call') /\ verdict' = Evaluate(defs, call')
      BY <2>1, SuppliedCall DEF EvaluationNext
    <3>3. \A k \in DOMAIN defs.flags : k # Flag /\ defs.flags[k].active => IsPlain(defs.flags[k])
      BY <2>1 DEF ActiveFlags, Plainly, IsPlain
    <3>4. \/ IsPlain(defs.flags[Flag])
          \/ Evaluate(defs, call) = Value("false") /\ ~defs.flags[Flag].earlyExit
      BY <2>1, <3>1 DEF Plainly, IsPlain
    <3>5. Resolved(Evaluate(defs, call)) /\ Resolved(Evaluate(defs, call'))
      BY <2>1, <3>1, <3>2
    <3>. QED BY <3>1, <3>2, <3>3, <3>4, <3>5, LaterAnswersAgree
  <2>2. UNCHANGED evaluationVars => UNCHANGED verdict
    BY DEF evaluationVars
  <2>. QED BY <2>1, <2>2
<1>. QED BY <1>1, Evaluated, PTL DEF EvaluationSpec, AnswersNeverContradict

--------------------------------------------------------------------------
(* Ranges of semantic versions.  Whatever the width of an int, a range      *)
(* admits what the comments of the code promise, as long as no component of *)
(* its text is the largest int: the successor of that is the smallest.      *)

USE WidthAssumption, BadAssumption

\* A text that parses has the components of a version.
LEMMA ParsedIsTuple ==
  ASSUME NEW S, NEW text \in Seq(S), ParseSemver(text) # NoVersion
  PROVE  /\ ParseSemver(text) \in Tuples
         /\ (\A i \in DOMAIN text : text[i] # MaxInt) =>
              LET w == ParseSemver(text) IN w.major # MaxInt /\ w.minor # MaxInt /\ w.patch # MaxInt
<1>1. text # <<>> /\ \A i \in DOMAIN text : i <= 3 => text[i] \in Ints
  BY DEF ParseSemver
<1>2. Len(text) \in Nat /\ Len(text) > 0 /\ DOMAIN text = 1..Len(text)
  BY <1>1
<1>3. 0 \in Ints /\ 0 # MaxInt
  BY DEF Ints
<1>. DEFINE minor == IF Len(text) > 1 THEN text[2] ELSE 0
            patch == IF Len(text) > 2 THEN text[3] ELSE 0
<1>4. ParseSemver(text) = Tuple(text[1], minor, patch)
  BY <1>1 DEF ParseSemver
<1>5. text[1] \in Ints /\ minor \in Ints /\ patch \in Ints
  BY <1>1, <1>2, <1>3
<1>6. (\A i \in DOMAIN text : text[i] # MaxInt) => text[1] # MaxInt /\ minor # MaxInt /\ patch # MaxInt
  BY <1>2, <1>3
<1>. HIDE DEF minor, patch
<1>. QED BY <1>4, <1>5, <1>6 DEF Tuple, Tuples

\* compareTo is the order of versions, which is total.
LEMMA CompareToIsTheOrder ==
  ASSUME NEW v \in [major : Int, minor : Int, patch : Int], NEW w \in [major : Int, minor : Int, patch : Int]
  PROVE  /\ CompareTo(v, w) >= 0 <=> AtLeast(v, w)
         /\ CompareTo(v, w) < 0 <=> ~AtLeast(v, w)
<1>1. v.major \in Int /\ v.minor \in Int /\ v.patch \in Int /\ w.major \in Int /\ w.minor \in Int /\ w.patch \in Int
  OBVIOUS
<1>. QED BY <1>1 DEF CompareTo, AtLeast

LEMMA WithinIsBetween ==
  ASSUME NEW v \in Tuples, NEW lower \in Tuples, NEW upper \in [major : Int, minor : Int, patch : Int]
  PROVE  Within(v, Interval(lower, upper)) <=> AtLeast(v, lower) /\ ~AtLeast(v, upper)
<1>1. /\ v \in [major : Int, minor : Int, patch : Int]
      /\ lower \in [major : Int, minor : Int, patch : Int]
  BY DEF Tuples, Ints
<1>2. Interval(lower, upper).lower = lower /\ Interval(lower, upper).upper = upper
  BY DEF Interval
<1>. QED BY <1>1, <1>2, CompareToIsTheOrder DEF Within

\* "~X.Y.Z means >=X.Y.Z and <X.(Y+1).0" (computeTildeBounds).
THEOREM TildeRangesAdmitWhatTheySay ==
  ASSUME NEW S, NEW text \in Seq(S), ParseSemver(text) # NoVersion,
         \A i \in DOMAIN text : text[i] # MaxInt,
         NEW v \in Tuples
  PROVE  Within(v, TildeBounds(text)) <=> TildeAdmits(v, ParseSemver(text))
<1>. DEFINE w == ParseSemver(text)
            upper == Tuple(w.major, w.minor + 1, 0)
<1>1. w \in Tuples /\ w.minor # MaxInt
  BY ParsedIsTuple
<1>2. TildeBounds(text) = Interval(w, upper)
  BY <1>1 DEF TildeBounds, Successor
<1>. HIDE DEF w
<1>3. upper \in [major : Int, minor : Int, patch : Int]
  BY <1>1 DEF Tuple, Tuples, Ints
<1>4. Within(v, Interval(w, upper)) <=> AtLeast(v, w) /\ ~AtLeast(v, upper)
  BY <1>1, <1>3, WithinIsBetween
<1>5. AtLeast(v, w) => (~AtLeast(v, upper) <=> v.major = w.major /\ v.minor = w.minor)
  BY <1>1 DEF AtLeast, Tuple, Tuples, Ints
<1>. QED BY <1>2, <1>4, <1>5 DEF w, TildeAdmits

\* A ^ range keeps the first component that is not 0, and all before it
\* (computeCaretBounds).
THEOREM CaretRangesAdmitWhatTheySay ==
  ASSUME NEW S, NEW text \in Seq(S), ParseSemver(text) # NoVersion,
         \A i \in DOMAIN text : text[i] # MaxInt,
         NEW v \in Tuples
  PROVE  Within(v, CaretBounds(text)) <=> CaretAdmits(v, ParseSemver(text))
<1>. DEFINE w == ParseSemver(text)
            upper == IF w.major > 0 THEN Tuple(w.major + 1, 0, 0)
                     ELSE IF w.minor > 0 THEN Tuple(0, w.minor + 1, 0) ELSE Tuple(0, 0, w.patch + 1)
<1>1. w \in Tuples /\ w.major # MaxInt /\ w.minor # MaxInt /\ w.patch # MaxInt
  BY ParsedIsTuple
<1>. HIDE DEF w
<1>2. w.major \in Nat /\ w.minor \in Nat /\ w.patch \in Nat
  BY <1>1 DEF Tuples, Ints
<1>3. CaretBounds(text) = Interval(w, upper)
  <2>1. CASE w.major > 0
    BY <1>1, <1>2, <2>1 DEF CaretBounds, Successor, w
  <2>2. CASE w.major = 0 /\ w.minor > 0
    BY <1>1, <1>2, <2>2 DEF CaretBounds, Successor, w
  <2>3. CASE w.major = 0 /\ w.minor = 0
    BY <1>1, <1>2, <2>3 DEF CaretBounds, Successor, w
  <2>. QED BY <1>2, <2>1, <2>2, <2>3
<1>4. upper \in [major : Int, minor : Int, patch : Int]
  BY <1>2 DEF Tuple
<1>5. Within(v, Interval(w, upper)) <=> AtLeast(v, w) /\ ~AtLeast(v, upper)
  BY <1>1, <1>4, WithinIsBetween
<1>6. AtLeast(v, w) => (~AtLeast(v, upper) <=> CaretAdmits(v, w))
  <2>1. v.major \in Nat /\ v.minor \in Nat /\ v.patch \in Nat
    BY DEF Tuples, Ints
  <2>2. CASE w.major > 0
    BY <1>2, <2>1, <2>2 DEF AtLeast, CaretAdmits, Tuple
  <2>3. CASE w.major = 0 /\ w.minor > 0
    BY <1>2, <2>1, <2>3 DEF AtLeast, CaretAdmits, Tuple
  <2>4. CASE w.major = 0 /\ w.minor = 0
    BY <1>2, <2>1, <2>4 DEF AtLeast, CaretAdmits, Tuple
  <2>. QED BY <1>2, <2>2, <2>3, <2>4
<1>. QED BY <1>3, <1>5, <1>6 DEF w, CaretAdmits

\* A wildcard admits the versions that have the components it gives
\* (computeWildcardBounds).
THEOREM WildcardsAdmitWhatTheySay ==
  ASSUME NEW S, NEW parts \in Seq(S), PartsBounds(parts) # NoRange,
         \A i \in DOMAIN parts : parts[i] # MaxInt,
         NEW v \in Tuples
  PROVE  Within(v, PartsBounds(parts)) <=> WildcardAdmits(v, parts)
<1>1. parts # <<>> /\ \A i \in DOMAIN parts : i <= 3 => parts[i] \in Ints
  BY DEF PartsBounds
<1>2. Len(parts) \in Nat /\ Len(parts) > 0 /\ DOMAIN parts = 1..Len(parts)
  BY <1>1
<1>3. v.major \in Nat /\ v.minor \in Nat /\ v.patch \in Nat
  BY DEF Tuples, Ints
<1>4. Len(parts) >= 1 => parts[1] \in Ints /\ parts[1] # MaxInt
  BY <1>1, <1>2
<1>5. Len(parts) >= 2 => parts[2] \in Ints /\ parts[2] # MaxInt
  BY <1>1, <1>2
<1>6. Len(parts) >= 3 => parts[3] \in Ints /\ parts[3] # MaxInt
  BY <1>1, <1>2
<1>7. 0 \in Ints
  BY DEF Ints
<1>8. CASE Len(parts) = 1
  <2>. DEFINE a == parts[1]
              lower == Tuple(a, 0, 0)
              upper == Tuple(a + 1, 0, 0)
  <2>1. a \in Ints /\ a # MaxInt
    BY <1>4, <1>8
  <2>2. PartsBounds(parts) = Interval(lower, upper)
    BY <1>1, <1>8, <2>1 DEF PartsBounds, Successor
  <2>. HIDE DEF a
  <2>3. lower \in Tuples /\ upper \in [major : Int, minor : Int, patch : Int]
    BY <1>7, <2>1 DEF Tuple, Tuples, Ints
  <2>4. Within(v, Interval(lower, upper)) <=> AtLeast(v, lower) /\ ~AtLeast(v, upper)
    BY <2>3, WithinIsBetween
  <2>5. AtLeast(v, lower) /\ ~AtLeast(v, upper) <=> v.major = a
    BY <1>3, <2>1 DEF AtLeast, Tuple, Ints
  <2>. QED BY <1>8, <2>2, <2>4, <2>5 DEF a, WildcardAdmits
<1>9. CASE Len(parts) = 2
  <2>. DEFINE a == parts[1]
              b == parts[2]
              lower == Tuple(a, b, 0)
              upper == Tuple(a, b + 1, 0)
  <2>1. a \in Ints /\ b \in Ints /\ b # MaxInt
    BY <1>4, <1>5, <1>9
  <2>2. PartsBounds(parts) = Interval(lower, upper)
    BY <1>1, <1>9, <2>1 DEF PartsBounds, Successor
  <2>. HIDE DEF a, b
  <2>3. lower \in Tuples /\ upper \in [major : Int, minor : Int, patch : Int]
    BY <1>7, <2>1 DEF Tuple, Tuples, Ints
  <2>4. Within(v, Interval(lower, upper)) <=> AtLeast(v, lower) /\ ~AtLeast(v, upper)
    BY <2>3, WithinIsBetween
  <2>5. AtLeast(v, lower) /\ ~AtLeast(v, upper) <=> v.major = a /\ v.minor = b
    BY <1>3, <2>1 DEF AtLeast, Tuple, Ints
  <2>. QED BY <1>9, <2>2, <2>4, <2>5 DEF a, b, WildcardAdmits
<1>10. CASE Len(parts) > 2
  <2>. DEFINE a == parts[1]
              b == parts[2]
              c == parts[3]
              lower == Tuple(a, b, c)
              upper == Tuple(a, b, c + 1)
  <2>1. a \in Ints /\ b \in Ints /\ c \in Ints /\ c # MaxInt
    BY <1>2, <1>4, <1>5, <1>6, <1>10
  <2>2. Len(parts) # 1 /\ Len(parts) # 2
    BY <1>2, <1>10
  <2>3. PartsBounds(parts) = Interval(lower, upper)
    BY <1>1, <2>1, <2>2 DEF PartsBounds, Successor
  <2>. HIDE DEF a, b, c
  <2>4. lower \in Tuples /\ upper \in [major : Int, minor : Int, patch : Int]
    BY <2>1 DEF Tuple, Tuples, Ints
  <2>5. Within(v, Interval(lower, upper)) <=> AtLeast(v, lower) /\ ~AtLeast(v, upper)
    BY <2>4, WithinIsBetween
  <2>6. AtLeast(v, lower) /\ ~AtLeast(v, upper) <=> v.major = a /\ v.minor = b /\ v.patch = c
    BY <1>3, <2>1 DEF AtLeast, Tuple, Ints
  <2>. QED BY <1>2, <1>10, <2>3, <2>5, <2>6 DEF a, b, c, WildcardAdmits
<1>. QED BY <1>2, <1>8, <1>9, <1>10

\* A ~ range of the largest int overflows its bound, and admits nothing at all.
THEOREM OverflownRangesAdmitNothing ==
  ASSUME NEW S, NEW text \in Seq(S), ParseSemver(text) # NoVersion,
         ParseSemver(text).minor = MaxInt,
         NEW v \in Tuples
  PROVE  ~Within(v, TildeBounds(text))
<1>. DEFINE w == ParseSemver(text)
            upper == Tuple(w.major, -MaxInt - 1, 0)
<1>1. w \in Tuples
  BY ParsedIsTuple
<1>2. TildeBounds(text) = Interval(w, upper)
  BY <1>1 DEF TildeBounds, Successor
<1>. HIDE DEF w
<1>3. upper \in [major : Int, minor : Int, patch : Int]
  BY <1>1 DEF Tuple, Tuples, Ints
<1>4. Within(v, Interval(w, upper)) <=> AtLeast(v, w) /\ ~AtLeast(v, upper)
  BY <1>1, <1>3, WithinIsBetween
<1>5. ~(AtLeast(v, w) /\ ~AtLeast(v, upper))
  BY <1>1 DEF AtLeast, Tuple, Tuples, Ints
<1>. QED BY <1>2, <1>4, <1>5

--------------------------------------------------------------------------
(* The ranges that FlagEvaluation meets: what they admit stays true.        *)

LEMMA NonEmptyPartsRun ==
  ASSUME NEW S, NEW text \in Seq(S)
  PROVE  \E run \in [0..Len(text) -> Seq(S)] :
           /\ run[0] = <<>> /\ NonEmptyParts(text) = run[Len(text)]
           /\ \A i \in 0..(Len(text) - 1) :
                run[i+1] = IF text[i+1] = Blank THEN run[i] ELSE Append(run[i], text[i+1])
<1>. DEFINE n == Len(text)
            Step(parts, part) == IF part = Blank THEN parts ELSE Append(parts, part)
            g == [parts \in Seq(S) |-> [part \in S |-> Step(parts, part)]]
            Solves(it) == it = [s \in SUBSET DOMAIN text |->
                                  IF s = {} THEN <<>> ELSE Step(it[s \ {Max(s)}], text[Max(s)])]
<1>1. n \in Nat /\ DOMAIN text = 1..n /\ text \in [1..n -> S]
  OBVIOUS
<1>2. \A parts \in Seq(S), part \in S : Step(parts, part) \in Seq(S)
  OBVIOUS
<1>3. g \in [Seq(S) -> [S -> Seq(S)]] /\ \A parts \in Seq(S), part \in S : g[parts][part] = Step(parts, part)
  BY <1>2
<1>4. NonEmptyParts(text) = (CHOOSE it : Solves(it))[DOMAIN text]
  BY DEF NonEmptyParts, FoldLeft, MapThenFoldSet
<1>. HIDE DEF n, Step, g
<1>5. \E it : Solves(it)
  <2>1. <<>> \in Seq(S)
    OBVIOUS
  <2>2. PICK it \in [SUBSET (1..n) -> Seq(S)] :
          \A s \in SUBSET (1..n) : it[s] = IF s = {} THEN <<>> ELSE g[it[s \ {Max(s)}]][text[Max(s)]]
    <3>. HIDE DEF n, g
    <3>1. g \in [Seq(S) -> [S -> Seq(S)]]
      BY <1>3
    <3>2. HasFold(Seq(S), <<>>, S, n, text, g)
      BY <1>1, <3>1, <2>1, FoldExists
    <3>. QED BY <3>2 DEF HasFold
  <2>3. ASSUME NEW s \in SUBSET (1..n), s # {}
        PROVE  g[it[s \ {Max(s)}]][text[Max(s)]] = Step(it[s \ {Max(s)}], text[Max(s)])
    <3>1. Max(s) \in s
      BY <1>1, <2>3, MaxIn
    <3>2. s \ {Max(s)} \in SUBSET (1..n) /\ text[Max(s)] \in S
      BY <1>1, <3>1
    <3>. QED BY <1>3, <2>2, <3>2
  <2>4. \A s \in SUBSET (1..n) : it[s] = IF s = {} THEN <<>> ELSE Step(it[s \ {Max(s)}], text[Max(s)])
    BY <2>2, <2>3
  <2>5. Solves(it)
    BY <1>1, <2>2, <2>4
  <2>. QED BY <2>5
<1>6. PICK it : Solves(it) /\ NonEmptyParts(text) = it[1..n]
  BY <1>1, <1>4, <1>5
<1>7. it[{}] = <<>> /\ \A k \in 0..(n-1) : it[1..(k+1)] = Step(it[1..k], text[k+1])
  <2>1. it[{}] = <<>>
    BY <1>6
  <2>2. ASSUME NEW k \in 0..(n-1) PROVE it[1..(k+1)] = Step(it[1..k], text[k+1])
    <3>0. k \in Nat /\ k + 1 \in 1..n
      BY <1>1
    <3>1. Max(1..(k+1)) = k + 1 /\ (1..(k+1)) \ {k+1} = 1..k /\ 1..(k+1) # {}
      BY <3>0, Prefix
    <3>2. 1..(k+1) \in SUBSET DOMAIN text
      BY <1>1, <3>0
    <3>. QED BY <1>6, <3>1, <3>2
  <2>. QED BY <2>1, <2>2
<1>. DEFINE run == [i \in 0..n |-> it[1..i]]
<1>8. run[0] = <<>> /\ \A i \in 0..(n-1) : run[i+1] = Step(run[i], text[i+1])
  BY <1>1, <1>7
<1>9. \A i \in 0..n : i \in {j \in 0..n : run[j] \in Seq(S)}
  <2>. DEFINE I == {j \in 0..n : run[j] \in Seq(S)}
  <2>. HIDE DEF run
  <2>1. 0 \in I
    <3>1. <<>> \in Seq(S) /\ 0 \in 0..n
      BY <1>1
    <3>. QED BY <1>8, <3>1
  <2>2. ASSUME NEW i \in 0..n, i < n, i \in I PROVE i + 1 \in I
    <3>1. i \in 0..(n-1) /\ i + 1 \in 0..n /\ i + 1 \in 1..n
      BY <1>1, <2>2
    <3>2. text[i+1] \in S /\ run[i+1] = Step(run[i], text[i+1])
      BY <1>1, <1>8, <3>1
    <3>3. run[i+1] \in Seq(S)
      BY <1>2, <2>2, <3>2
    <3>. QED BY <3>1, <3>3
  <2>. HIDE DEF I
  <2>3. \A i \in 0..n : i \in I
    BY <1>1, <2>1, <2>2, UpTo
  <2>. QED BY <2>3 DEF I
<1>10. run \in [0..n -> Seq(S)]
  BY <1>9
<1>11. NonEmptyParts(text) = run[n]
  <2>1. n \in 0..n
    BY <1>1
  <2>2. run[n] = it[1..n]
    BY <2>1
  <2>. QED BY <1>6, <2>2
<1>. HIDE DEF run
<1>. QED BY <1>8, <1>10, <1>11 DEF n, Step

LEMMA NoPartIsAdded ==
  ASSUME NEW S, NEW text \in Seq(S), \A i \in DOMAIN text : text[i] # MaxInt
  PROVE  NonEmptyParts(text) \in Seq(S) /\ \A i \in DOMAIN NonEmptyParts(text) : NonEmptyParts(text)[i] # MaxInt
<1>. DEFINE R == {x \in S : x # MaxInt}
<1>1. text \in Seq(R)
  <2>1. text \in [1..Len(text) -> R] /\ Len(text) \in Nat
    OBVIOUS
  <2>. QED BY <2>1
<1>. HIDE DEF R
<1>2. Len(text) \in 0..Len(text) /\ Len(text) \in Nat
  BY <1>1
<1>3. NonEmptyParts(text) \in Seq(R)
  BY <1>1, <1>2, NonEmptyPartsRun
<1>. QED BY <1>3 DEF R

\* The versions a range of a flag lets in are those its comment names, however often
\* the application asks and whatever it passes in addition (computeTildeBounds,
\* computeCaretBounds, computeWildcardBounds).
THEOREM RangesStayTrue == EvaluationSpec => []RangesAdmitWhatTheySay
<1>1. EvaluationInv => RangesAdmitWhatTheySay
  <2>. SUFFICES ASSUME EvaluationInv, NEW filter \in PropertyFilters, filter.op \in Ranges,
                       Resolved(MatchProperty(filter, call.person, defs.explicit)),
                       \A i \in DOMAIN VersionOf[filter.value.text] : VersionOf[filter.value.text][i] # MaxInt
                PROVE  MatchProperty(filter, call.person, defs.explicit) = Yes <=>
                         CASE filter.op = "semver_tilde" ->
                                TildeAdmits(ParseSemver(VersionOf[call.person[filter.key].text]),
                                            ParseSemver(VersionOf[filter.value.text]))
                           [] filter.op = "semver_caret" ->
                                CaretAdmits(ParseSemver(VersionOf[call.person[filter.key].text]),
                                            ParseSemver(VersionOf[filter.value.text]))
                           [] OTHER -> WildcardAdmits(ParseSemver(VersionOf[call.person[filter.key].text]),
                                                      NonEmptyParts(VersionOf[filter.value.text]))
    BY DEF RangesAdmitWhatTheySay
  <2>. DEFINE actual == call.person[filter.key]
              given == VersionOf[filter.value.text]
              version == ParseSemver(VersionOf[actual.text])
  <2>1. MatchProperty(filter, call.person, defs.explicit) = MatchPropertyValue(filter, call.person, defs.explicit)
    BY DEF MatchProperty, Blamed, Resolved, Inconclusive, Verdict
  <2>2. filter.key \in DOMAIN call.person
    BY <2>1 DEF MatchPropertyValue, Resolved, Inconclusive, Verdict
  <2>3. MatchPropertyValue(filter, call.person, defs.explicit) = SemverMatch(filter.op, filter.value, actual)
    BY <2>2 DEF MatchPropertyValue, Ranges, TextOperators
  <2>4. /\ actual.kind = "text" /\ version # NoVersion /\ UsableVersion(filter.op, filter.value)
        /\ SemverMatch(filter.op, filter.value, actual) = Decided(Within(version, Range_(filter.op, given)))
    BY <2>1, <2>3 DEF SemverMatch, SemverHolds, Resolved, Inconclusive, Verdict
  <2>5. filter.value.kind = "text" /\ Range_(filter.op, given) # NoRange
    BY <2>4 DEF UsableVersion
  <2>6. IsSequence(given) /\ IsSequence(VersionOf[actual.text])
    <3>1. Decoded(filter.value) /\ Decoded(actual)
      BY <2>2, PropertyFiltersAreFilters DEF EvaluationInv, CallOK
    <3>2. filter.value.text \in Texts /\ actual.text \in Texts
      BY <2>4, <2>5, <3>1 DEF Decoded, Scalar
    <3>. QED BY <3>2, TextsAssumption
  <2>. HIDE DEF actual, given, version
  <2>7. version \in Tuples
    BY <2>4, <2>6, ParsedIsTuple DEF version, IsSequence
  <2>8. \A i \in DOMAIN given : given[i] # MaxInt
    BY DEF given
  <2>9. \A b \in BOOLEAN : Decided(b) = Yes <=> b
    BY DEF Decided, Yes, No, Value, Verdict
  <2>10. Within(version, Range_(filter.op, given)) \in BOOLEAN
    BY DEF Within
  <2>11. MatchProperty(filter, call.person, defs.explicit) = Yes <=> Within(version, Range_(filter.op, given))
    BY <2>1, <2>3, <2>4, <2>9, <2>10
  <2>12. CASE filter.op = "semver_tilde"
    <3>1. Range_(filter.op, given) = TildeBounds(given)
      BY <2>12 DEF Range_
    <3>2. ParseSemver(given) # NoVersion
      BY <2>5, <3>1 DEF TildeBounds
    <3>3. Within(version, TildeBounds(given)) <=> TildeAdmits(version, ParseSemver(given))
      BY <2>6, <2>7, <2>8, <3>2, TildeRangesAdmitWhatTheySay DEF IsSequence
    <3>. QED BY <2>11, <2>12, <3>1, <3>3 DEF actual, given, version
  <2>13. CASE filter.op = "semver_caret"
    <3>1. Range_(filter.op, given) = CaretBounds(given)
      BY <2>13 DEF Range_
    <3>2. ParseSemver(given) # NoVersion
      BY <2>5, <3>1 DEF CaretBounds
    <3>3. Within(version, CaretBounds(given)) <=> CaretAdmits(version, ParseSemver(given))
      BY <2>6, <2>7, <2>8, <3>2, CaretRangesAdmitWhatTheySay DEF IsSequence
    <3>. QED BY <2>11, <2>13, <3>1, <3>3 DEF actual, given, version
  <2>14. CASE filter.op = "semver_wildcard"
    <3>. DEFINE parts == NonEmptyParts(given)
    <3>1. Range_(filter.op, given) = PartsBounds(parts)
      BY <2>14 DEF Range_, WildcardBounds
    <3>2. given \in Seq(Range(given))
      BY <2>6 DEF IsSequence
    <3>3. parts \in Seq(Range(given)) /\ \A i \in DOMAIN parts : parts[i] # MaxInt
      BY <2>8, <3>2, NoPartIsAdded
    <3>. HIDE DEF parts
    <3>4. Within(version, PartsBounds(parts)) <=> WildcardAdmits(version, parts)
      BY <2>5, <2>7, <3>1, <3>3, WildcardsAdmitWhatTheySay
    <3>. QED BY <2>11, <2>14, <3>1, <3>4 DEF actual, given, version, parts
  <2>. QED BY <2>12, <2>13, <2>14 DEF Ranges
<1>. QED BY <1>1, Evaluated, PTL

--------------------------------------------------------------------------
(* FlagResolution: where a call is, and what its answer was made of.       *)

USE AttemptsAssumption, NoneAssumption, NoReplyAssumption

Places == {"idle", "called", "asking", "returned"}

\* The definitions a call can have selected.
Selected == Snapshots \cup {Cleared, None}

ResolutionTypeOK ==
  /\ hasPoller \in BOOLEAN /\ fetched \in BOOLEAN /\ cancelled \in BOOLEAN
  /\ loaded \in Selected /\ snap \in Selected
  /\ pc \in Places /\ request \in Requests
  /\ attempt \in 0..MaxAttempts
  /\ reply \in Replies \cup {NoReply}

\* A call that will ask again has an attempt left.
AttemptsLeft == pc # "returned" => attempt < MaxAttempts

\* Until the server has answered there is no reply.
ReplyIsLate == pc # "returned" => reply = NoReply

\* The server is asked for what the definitions the call selected leave open.
AskedForAReason == pc = "asking" => AsksServer(request, snap)

\* The three ways a call returns.
FromDefinitions == ~AsksServer(request, snap) /\ reply = NoReply /\ answer = LocalAnswer(request, snap)
FromFailure == AsksServer(request, snap) /\ reply = NoReply /\ answer = FailedAnswer(request, snap)
FromReply == AsksServer(request, snap) /\ reply \in Replies
             /\ answer = RemoteAnswer(request, snap, Unmarshal(reply))
AnswerHasASource == pc = "returned" => FromDefinitions \/ FromFailure \/ FromReply

ResolutionInv ==
  ResolutionTypeOK /\ AttemptsLeft /\ ReplyIsLate /\ AskedForAReason /\ AnswerHasASource

LEMMA ResolutionInvInit == ResolutionInit => ResolutionInv
<1>1. 0 \in 0..MaxAttempts /\ 0 < MaxAttempts
  OBVIOUS
<1>. QED
  BY <1>1 DEF ResolutionInit, ResolutionInv, ResolutionTypeOK, AttemptsLeft, ReplyIsLate,
              AskedForAReason, AnswerHasASource, Places, Selected

\* The poller replacing the definitions leaves a call that selected others alone.
callVars == <<hasPoller, pc, request, snap, attempt, cancelled, reply, answer>>
LEMMA CallUntouched ==
  ASSUME ResolutionInv, fetched' \in BOOLEAN, loaded' \in Selected, UNCHANGED callVars
  PROVE  ResolutionInv'
<1>. USE DEF ResolutionInv, callVars
<1>1. ResolutionTypeOK' /\ AttemptsLeft' /\ ReplyIsLate'
  BY DEF ResolutionTypeOK, AttemptsLeft, ReplyIsLate
<1>2. AsksServer(request, snap)' = AsksServer(request, snap)
  BY DEF AsksServer, ForNothing, Wanted, LocallyKnown, Known
<1>3. /\ LocalAnswer(request, snap)' = LocalAnswer(request, snap)
      /\ FailedAnswer(request, snap)' = FailedAnswer(request, snap)
      /\ RemoteAnswer(request, snap, Unmarshal(reply))' = RemoteAnswer(request, snap, Unmarshal(reply))
  BY DEF LocalAnswer, FailedAnswer, RemoteAnswer, LocalResult, Result, PollerResult, RemoteResult, SnapshotOf
<1>4. AskedForAReason'
  BY <1>2 DEF AskedForAReason
<1>5. AnswerHasASource'
  BY <1>2, <1>3 DEF AnswerHasASource, FromDefinitions, FromFailure, FromReply
<1>. QED BY <1>1, <1>4, <1>5

LEMMA ResolutionInvNext == ResolutionInv /\ [ResolutionNext]_resolutionVars => ResolutionInv'
<1>. SUFFICES ASSUME ResolutionInv, [ResolutionNext]_resolutionVars
              PROVE  ResolutionInv'
  OBVIOUS
<1>. USE DEF ResolutionInv
<1>1. CASE LoadDefinitions
  BY <1>1, CallUntouched DEF LoadDefinitions, Selected, callVars
<1>2. CASE FirstFetchFails
  BY <1>2, CallUntouched DEF FirstFetchFails, callVars, ResolutionTypeOK
<1>3. CASE Begin
  BY <1>3 DEF Begin, defsVars, ResolutionTypeOK, Places, AttemptsLeft, ReplyIsLate, AskedForAReason,
              AnswerHasASource
<1>4. CASE Cancel
  <2>1. AsksServer(request, snap)' = AsksServer(request, snap)
    BY <1>4 DEF Cancel, defsVars, AsksServer, ForNothing, Wanted, LocallyKnown, Known
  <2>2. ResolutionTypeOK' /\ AttemptsLeft' /\ ReplyIsLate' /\ AnswerHasASource'
    BY <1>4 DEF Cancel, defsVars, ResolutionTypeOK, AttemptsLeft, ReplyIsLate, AnswerHasASource
  <2>. QED BY <1>4, <2>1, <2>2 DEF Cancel, AskedForAReason
<1>5. CASE EvaluateLocally
  <2>1. ResolutionTypeOK' /\ AttemptsLeft' /\ ReplyIsLate'
    BY <1>5 DEF EvaluateLocally, defsVars, ResolutionTypeOK, Places, AttemptsLeft, ReplyIsLate
  <2>2. AsksServer(request, snap)' = AsksServer(request, loaded)
    BY <1>5 DEF EvaluateLocally, defsVars, AsksServer, ForNothing, Wanted, LocallyKnown, Known
  <2>3. LocalAnswer(request, snap)' = LocalAnswer(request, loaded)
    BY <1>5 DEF EvaluateLocally, defsVars, LocalAnswer, LocalResult, Result
  <2>4. reply' = NoReply
    BY <1>5 DEF EvaluateLocally, ReplyIsLate
  <2>5. AskedForAReason' /\ AnswerHasASource'
    BY <1>5, <2>2, <2>3, <2>4 DEF EvaluateLocally, AskedForAReason, AnswerHasASource, FromDefinitions
  <2>. QED BY <2>1, <2>5
<1>6. CASE ServerAnswers \/ RequestFailsForNow \/ RequestFails
  <2>1. pc = "asking" /\ attempt' = attempt + 1 /\ attempt' \in 0..MaxAttempts
    BY <1>6 DEF ServerAnswers, RequestFailsForNow, RequestFails, AttemptsLeft, ResolutionTypeOK
  <2>2. /\ AsksServer(request, snap)' = AsksServer(request, snap)
        /\ FailedAnswer(request, snap)' = FailedAnswer(request, snap)
        /\ \A body \in Replies : reply' = body =>
             RemoteAnswer(request, snap, Unmarshal(reply))' = RemoteAnswer(request, snap, Unmarshal(body))
    <3>1. UNCHANGED <<hasPoller, request, snap, cancelled>>
      BY <1>6 DEF ServerAnswers, RequestFailsForNow, RequestFails, defsVars
    <3>2. AsksServer(request, snap)' = AsksServer(request, snap)
      BY <3>1 DEF AsksServer, ForNothing, Wanted, LocallyKnown, Known
    <3>3. FailedAnswer(request, snap)' = FailedAnswer(request, snap)
      BY <3>1 DEF FailedAnswer, Result
    <3>4. ASSUME NEW body \in Replies, reply' = body
          PROVE  RemoteAnswer(request, snap, Unmarshal(reply))' = RemoteAnswer(request, snap, Unmarshal(body))
      BY <3>1, <3>4 DEF RemoteAnswer, Result, PollerResult, RemoteResult, SnapshotOf
    <3>. QED BY <3>2, <3>3, <3>4
  <2>3. AsksServer(request, snap) /\ reply = NoReply
    BY <2>1 DEF AskedForAReason, ReplyIsLate
  <2>4. CASE ServerAnswers
    <3>1. PICK body \in Replies : reply' = body /\ Return(RemoteAnswer(request, snap, Unmarshal(body)))
      BY <2>4 DEF ServerAnswers
    <3>2. ResolutionTypeOK'
      BY <2>1, <2>4, <3>1 DEF ServerAnswers, Return, defsVars, ResolutionTypeOK, Places
    <3>3. FromReply'
      BY <2>2, <2>3, <3>1 DEF Return, FromReply
    <3>. QED BY <3>1, <3>2, <3>3 DEF Return, AttemptsLeft, ReplyIsLate, AskedForAReason, AnswerHasASource
  <2>5. CASE RequestFails \/ (RequestFailsForNow /\ ~(attempt' < MaxAttempts))
    <3>1. Return(FailedAnswer(request, snap)) /\ UNCHANGED reply
      BY <2>5 DEF RequestFails, RequestFailsForNow
    <3>2. ResolutionTypeOK'
      BY <2>1, <2>5, <3>1 DEF RequestFails, RequestFailsForNow, Return, defsVars, ResolutionTypeOK, Places
    <3>3. FromFailure'
      BY <2>2, <2>3, <3>1 DEF Return, FromFailure
    <3>. QED BY <3>1, <3>2, <3>3 DEF Return, AttemptsLeft, ReplyIsLate, AskedForAReason, AnswerHasASource
  <2>6. CASE RequestFailsForNow /\ attempt' < MaxAttempts
    BY <2>1, <2>2, <2>3, <2>6 DEF RequestFailsForNow, defsVars, ResolutionTypeOK, AttemptsLeft, ReplyIsLate,
                                  AskedForAReason, AnswerHasASource
  <2>. QED BY <1>6, <2>4, <2>5, <2>6
<1>7. CASE NextCall
  <2>1. 0 \in 0..MaxAttempts /\ 0 < MaxAttempts
    OBVIOUS
  <2>2. ResolutionTypeOK'
    BY <1>7, <2>1 DEF NextCall, defsVars, ResolutionTypeOK, Selected, Places
  <2>. QED
    BY <1>7, <2>1, <2>2 DEF NextCall, AttemptsLeft, ReplyIsLate, AskedForAReason, AnswerHasASource
<1>8. CASE UNCHANGED resolutionVars
  BY <1>8, CallUntouched DEF resolutionVars, callVars, ResolutionTypeOK
<1>. QED
  BY <1>1, <1>2, <1>3, <1>4, <1>5, <1>6, <1>7, <1>8 DEF ResolutionNext

LEMMA Sourced == ResolutionSpec => []ResolutionInv
BY ResolutionInvInit, ResolutionInvNext, PTL DEF ResolutionSpec

\* Every variable of the resolution stays in its domain; in particular no call makes
\* more than MaxAttempts requests, however they fail.
THEOREM TypeCorrect == ResolutionSpec => []ResolutionTypeOK
BY Sourced, PTL DEF ResolutionInv

--------------------------------------------------------------------------
(* One flag.                                                               *)

LEMMA ResultParts ==
  ASSUME NEW c, NEW flag, NEW err, Result(c, flag, err).err = "none"
  PROVE  /\ err = "none" /\ flag.value # Nil
         /\ c.key \in DOMAIN Result(c, flag, err).flags
         /\ Result(c, flag, err).flags[c.key] = flag
         /\ Result(c, flag, err).event = flag.value
<1>1. ~cancelled
  BY DEF Result, Fails, Answer
<1>. DEFINE flags == IF flag.value = Nil THEN NoFlags ELSE [k \in {c.key} |-> flag]
             error == IF flag.value = Nil /\ err = "none" THEN "not_found" ELSE err
<1>3. Result(c, flag, err) = [flags |-> flags, err |-> error, unresolved |-> NoFlags,
                              event |-> flag.value, minimal |-> Minimize(flag)]
  BY <1>1 DEF Result
<1>. HIDE DEF flags
<1>4. Result(c, flag, err).flags = flags /\ Result(c, flag, err).err = error
      /\ Result(c, flag, err).event = flag.value
  BY <1>3
<1>5. err = "none" /\ flag.value # Nil
  BY <1>4
<1>6. flags = [k \in {c.key} |-> flag]
  BY <1>5 DEF flags
<1>. QED BY <1>4, <1>5, <1>6

\* With a value and no error, a call that did not ask the server has the value and
\* all that belongs to it from the definitions it selected.
LEMMA LocalHasOneSource ==
  ASSUME request.op = "result", LocalAnswer(request, snap).err = "none"
  PROVE  LET a == LocalAnswer(request, snap)
         IN  /\ request.key \in DOMAIN a.flags
             /\ a.flags[request.key] = LocalFlag(snap, request.key)
             /\ a.event = a.flags[request.key].value
<1>1. ~ForNothing(request)
  BY DEF ForNothing
<1>2. hasPoller
  <2>1. SUFFICES ASSUME ~hasPoller PROVE LocalAnswer(request, snap) = Fails("no_secret_key")
    BY DEF Fails, Answer
  <2>. QED BY <1>1, <2>1 DEF LocalAnswer
<1>3. LocalAnswer(request, snap) = LocalResult(request, snap)
  BY <1>1, <1>2 DEF LocalAnswer
<1>4. LocalResult(request, snap).err = "none"
  BY <1>3
<1>5. snap \notin {None, Cleared}
  <2>1. ASSUME snap \in {None, Cleared} PROVE LocalResult(request, snap) = Result(request, Bare(Nil), "unfetched")
    <3>1. Known(snap) = {}
      BY <2>1 DEF Known, Cleared
    <3>2. LocallyKnown(snap) = {}
      BY <3>1 DEF LocallyKnown
    <3>. QED BY <2>1, <3>1, <3>2 DEF LocalResult
  <2>2. ~(Result(request, Bare(Nil), "unfetched").err = "none")
    BY ResultParts
  <2>. QED BY <1>4, <2>1, <2>2
<1>6. request.key \in Known(snap)
  <2>. DEFINE flag == Valued(Nil, "", Nil, snap.gate, FALSE)
  <2>1. ASSUME request.key \notin Known(snap)
        PROVE  LocalResult(request, snap) = Result(request, flag, "none")
    BY <1>5, <2>1 DEF LocalResult, LocallyKnown
  <2>2. flag.value = Nil
    BY DEF Valued
  <2>. HIDE DEF flag
  <2>3. ~(Result(request, flag, "none").err = "none")
    BY <2>2, ResultParts
  <2>. QED BY <1>4, <2>1, <2>3
<1>7. request.key \in LocallyKnown(snap)
  <2>. DEFINE flag == Valued(snap.flags[request.key].left, "", snap.flags[request.key].experiment, snap.gate, FALSE)
  <2>1. ASSUME request.key \notin LocallyKnown(snap)
        PROVE  LocalResult(request, snap) = Result(request, flag, "local")
    BY <1>5, <1>6, <2>1 DEF LocalResult
  <2>. HIDE DEF flag
  <2>2. ~(Result(request, flag, "local").err = "none")
    BY ResultParts
  <2>. QED BY <1>4, <2>1, <2>2
<1>8. LocalResult(request, snap) = Result(request, LocalFlag(snap, request.key), "none")
  BY <1>5, <1>6, <1>7 DEF LocalResult
<1>. QED BY <1>3, <1>4, <1>8, ResultParts

\* The flag as the reply has it.
ServedFlag(key, r) ==
  IF key \in DOMAIN r.flags
  THEN Valued(GetValue(r.flags[key]), r.flags[key].payload, r.flags[key].experiment, r.gate, FALSE)
  ELSE Valued("false", "", Nil, r.gate, FALSE)

\* Details and values of a reply name the same flags, in either form, and agree
\* where there is a value.
LEMMA FormsAgree ==
  ASSUME NEW body
  PROVE  LET r == Unmarshal(body)
         IN  /\ DOMAIN r.featureFlags = DOMAIN r.flags
             /\ \A k \in DOMAIN r.flags :
                  r.featureFlags[k] # Nil => r.featureFlags[k] = GetValue(r.flags[k])
<1>. DEFINE r == Unmarshal(body)
<1>1. CASE body.form = "v4"
  <2>1. r.flags = body.flags /\ r.featureFlags = [k \in DOMAIN body.flags |-> GetValue(body.flags[k])]
    BY <1>1 DEF Unmarshal
  <2>. QED BY <2>1
<1>2. CASE body.form # "v4"
  <2>1. /\ r.flags = [k \in DOMAIN body.flags |-> NewFlagDetail(body.flags[k].value, body.flags[k].payload)]
        /\ r.featureFlags = [k \in DOMAIN body.flags |-> body.flags[k].value]
    BY <1>2 DEF Unmarshal
  <2>2. ASSUME NEW value, NEW payload, value # Nil
        PROVE  GetValue(NewFlagDetail(value, payload)) = value
    BY <2>2 DEF GetValue, NewFlagDetail, Nil
  <2>. QED BY <2>1, <2>2
<1>. QED BY <1>1, <1>2

LEMMA RemoteHasOneSource ==
  ASSUME request.op = "result", NEW body, RemoteAnswer(request, snap, Unmarshal(body)).err = "none"
  PROVE  LET a == RemoteAnswer(request, snap, Unmarshal(body))
         IN  /\ request.key \in DOMAIN a.flags
             /\ a.flags[request.key] = ServedFlag(request.key, Unmarshal(body))
             /\ a.event = a.flags[request.key].value
<1>. DEFINE r == Unmarshal(body)
            flag == IF hasPoller THEN PollerResult(request, snap, r) ELSE RemoteResult(request, r)
<1>1. RemoteAnswer(request, snap, r) = Result(request, flag, "none")
  BY DEF RemoteAnswer
<1>. HIDE DEF flag, r
<1>2. flag.value # Nil
  <2>1. Result(request, flag, "none").err = "none"
    BY <1>1 DEF r
  <2>. QED BY <2>1, ResultParts
<1>3. flag = ServedFlag(request.key, r)
  <2>1. CASE hasPoller
    <3>1. flag = Valued(IF request.key \in DOMAIN r.featureFlags THEN r.featureFlags[request.key] ELSE "false",
                        IF request.key \in DOMAIN r.flags THEN r.flags[request.key].payload ELSE "",
                        IF request.key \in DOMAIN r.flags THEN r.flags[request.key].experiment ELSE Nil,
                        r.gate, FALSE)
      BY <2>1 DEF flag, PollerResult
    <3>2. DOMAIN r.featureFlags = DOMAIN r.flags
      BY FormsAgree DEF r
    <3>3. CASE request.key \in DOMAIN r.flags
      <4>1. flag.value = r.featureFlags[request.key]
        BY <3>1, <3>2, <3>3 DEF Valued
      <4>2. r.featureFlags[request.key] = GetValue(r.flags[request.key])
        BY <1>2, <3>3, <4>1, FormsAgree DEF r
      <4>. QED BY <3>1, <3>2, <3>3, <4>2 DEF ServedFlag
    <3>4. CASE request.key \notin DOMAIN r.flags
      BY <3>1, <3>2, <3>4 DEF ServedFlag
    <3>. QED BY <3>3, <3>4
  <2>2. CASE ~hasPoller
    <3>1. flag = RemoteResult(request, r)
      BY <2>2 DEF flag
    <3>2. ~(r.quota \/ request.key \notin DOMAIN r.flags \/ r.flags[request.key].failed)
      <4>1. SUFFICES ASSUME r.quota \/ request.key \notin DOMAIN r.flags \/ r.flags[request.key].failed
                     PROVE  flag.value = Nil
        BY <1>2
      <4>2. flag = Valued(Nil, "", Nil, r.gate, FALSE)
        BY <3>1, <4>1 DEF RemoteResult
      <4>. QED BY <4>2 DEF Valued
    <3>. QED BY <3>1, <3>2 DEF RemoteResult, ServedFlag
  <2>. QED BY <2>1, <2>2
<1>. QED BY <1>1, <1>3, ResultParts DEF r

\* The value of a flag, its payload, its experiment and the gate that shortens its
\* event come from one source, the definitions the call selected or the server's reply.
THEOREM FlagHasOneSource == ResolutionSpec => []OneSource
<1>1. ResolutionInv => OneSource
  <2>. SUFFICES ASSUME ResolutionInv, pc = "returned", request.op = "result", answer.err = "none"
                PROVE  /\ request.key \in DOMAIN answer.flags
                       /\ answer.flags[request.key] = IF reply = NoReply THEN LocalFlag(snap, request.key)
                                                      ELSE ServedFlag(request.key, Unmarshal(reply))
                       /\ answer.event = answer.flags[request.key].value
    BY DEF OneSource, Returned, ServedFlag
  <2>1. CASE FromDefinitions
    BY <2>1, LocalHasOneSource DEF FromDefinitions
  <2>2. CASE FromFailure
    <3>1. FailedAnswer(request, snap) = Result(request, Bare(Nil), "request")
      BY DEF FailedAnswer
    <3>2. Result(request, Bare(Nil), "request").err # "none"
      BY ResultParts
    <3>. QED BY <2>2, <3>1, <3>2 DEF FromFailure
  <2>3. CASE FromReply
    BY <2>3, RemoteHasOneSource DEF FromReply
  <2>. QED BY <2>1, <2>2, <2>3 DEF ResolutionInv, AnswerHasASource
<1>. QED BY <1>1, Sourced, PTL

--------------------------------------------------------------------------
(* A snapshot of flags.                                                    *)

\* What the definitions contribute to a snapshot.
Contributed(a) ==
  /\ a.flags = LocalRecords(request, snap)
  /\ a.unresolved = Unresolved(request, snap)

LEMMA LocalSnapshot ==
  ASSUME request.op = "evaluate", hasPoller, ~ForNothing(request)
  PROVE  Contributed(LocalAnswer(request, snap))
<1>. DEFINE a == [Answer(LocalRecords(request, snap), "none") EXCEPT !.unresolved = Unresolved(request, snap)]
<1>1. LocalAnswer(request, snap) = a
  BY DEF LocalAnswer
<1>2. a.flags = LocalRecords(request, snap) /\ a.unresolved = Unresolved(request, snap)
  BY DEF Answer
<1>. QED BY <1>1, <1>2 DEF Contributed

LEMMA EmptySnapshot ==
  ASSUME ForNothing(request), hasPoller
  PROVE  LocalAnswer(request, snap).flags = NoFlags /\ LocalAnswer(request, snap).unresolved = NoFlags
<1>1. LocalAnswer(request, snap) = Answer(NoFlags, "none")
  BY DEF LocalAnswer, ForNothing
<1>. QED BY <1>1 DEF Answer

LEMMA FailedSnapshot ==
  ASSUME request.op = "evaluate"
  PROVE  Contributed(FailedAnswer(request, snap))
<1>. DEFINE a == [Answer(LocalRecords(request, snap), "request") EXCEPT !.unresolved = Unresolved(request, snap)]
<1>1. FailedAnswer(request, snap) = a
  BY DEF FailedAnswer
<1>2. a.flags = LocalRecords(request, snap) /\ a.unresolved = Unresolved(request, snap)
  BY DEF Answer
<1>. QED BY <1>1, <1>2 DEF Contributed

\* The flags a reply adds to a snapshot.
Added(r) == {k \in DOMAIN r.flags : ~r.quota /\ (request.filter => k \in request.keys)}

LEMMA RemoteSnapshot ==
  ASSUME request.op = "evaluate", NEW body
  PROVE  LET r == Unmarshal(body)
             a == RemoteAnswer(request, snap, r)
             local == LocalRecords(request, snap)
             unresolved == Unresolved(request, snap)
         IN  /\ DOMAIN a.flags = Added(r) \cup DOMAIN local
             /\ \A k \in DOMAIN local : a.flags[k] = local[k]
             /\ DOMAIN a.unresolved = DOMAIN unresolved \ DOMAIN a.flags
             /\ \A k \in DOMAIN a.unresolved : a.unresolved[k] = unresolved[k]
<1>. DEFINE r == Unmarshal(body)
            local == LocalRecords(request, snap)
            unresolved == Unresolved(request, snap)
            served == [k \in Added(r) |-> RecordOf(r.flags[k], r.gate)]
            records == Overlay(served, local)
            rest == [k \in DOMAIN unresolved \ DOMAIN records |-> unresolved[k]]
            a == [Answer(records, "none") EXCEPT !.unresolved = rest]
<1>1. RemoteAnswer(request, snap, r) = a
  BY DEF RemoteAnswer, SnapshotOf, Added
<1>2. a.flags = records /\ a.unresolved = rest
  BY DEF Answer
<1>3. DOMAIN records = Added(r) \cup DOMAIN local /\ \A k \in DOMAIN local : records[k] = local[k]
  BY DEF Overlay
<1>. QED BY <1>1, <1>2, <1>3

\* The definitions give a value or a reason of every flag that is wanted, unless its
\* evaluation failed.
LEMMA WantedFlags ==
  ASSUME snap \in Selected, NEW k \in Known(snap)
  PROVE  LET v == snap.flags[k].verdict
             local == LocalRecords(request, snap)
             unresolved == Unresolved(request, snap)
         IN  /\ v.is \in {"value", "inconclusive", "server"} \/ v = Failed
             /\ k \in Wanted(request, snap) <=> ~(request.filter /\ k \notin request.keys)
             /\ k \in DOMAIN local <=> k \in Wanted(request, snap) /\ Resolved(v)
             /\ k \in DOMAIN local => local[k] = LocalFlag(snap, k)
             /\ k \in DOMAIN unresolved <=> k \in Wanted(request, snap) /\ v.is \in {"inconclusive", "server"}
             /\ k \in DOMAIN unresolved => unresolved[k] = v.why
<1>1. snap \in Snapshots /\ k \in DOMAIN snap.flags
  BY DEF Selected, Known, Cleared
<1>2. snap.flags[k].verdict.is \in {"value", "inconclusive", "server"} \/ snap.flags[k].verdict = Failed
  BY <1>1, VerdictsAssumption
<1>3. k \in Wanted(request, snap) <=> ~(request.filter /\ k \notin request.keys)
  BY DEF Wanted
<1>4. k \in LocallyKnown(snap) <=> Resolved(snap.flags[k].verdict)
  BY DEF LocallyKnown
<1>. QED BY <1>2, <1>3, <1>4 DEF LocalRecords, Unresolved

\* A snapshot leaves no flag the definitions know out of account: it has the value
\* they give it, or the server's, or a reason, and never both a value and a reason.
THEOREM NoFlagIsForgotten == ResolutionSpec => []EveryFlagAccountedFor
<1>1. ResolutionInv => EveryFlagAccountedFor
  <2>. SUFFICES ASSUME ResolutionInv, pc = "returned", request.op = "evaluate", hasPoller,
                       NEW k \in Known(snap)
                PROVE  LET v == snap.flags[k].verdict
                           served == reply # NoReply /\ ~reply.quota /\ k \in DOMAIN reply.flags
                           wanted == ~(request.filter /\ k \notin request.keys)
                       IN  /\ ~wanted => k \notin DOMAIN answer.flags \cup DOMAIN answer.unresolved
                           /\ wanted /\ Resolved(v) =>
                                /\ k \in DOMAIN answer.flags /\ answer.flags[k] = LocalFlag(snap, k)
                                /\ k \notin DOMAIN answer.unresolved
                           /\ wanted /\ ~Resolved(v) /\ served =>
                                k \in DOMAIN answer.flags /\ k \notin DOMAIN answer.unresolved
                           /\ wanted /\ ~Resolved(v) /\ ~served =>
                                /\ k \notin DOMAIN answer.flags
                                /\ v # Failed => k \in DOMAIN answer.unresolved /\ answer.unresolved[k] = v.why
    BY DEF EveryFlagAccountedFor, Returned
  <2>. DEFINE v == snap.flags[k].verdict
              local == LocalRecords(request, snap)
              unresolved == Unresolved(request, snap)
  <2>1. snap \in Selected
    BY DEF ResolutionInv, ResolutionTypeOK
  <2>2. Resolved(v) <=> v.is = "value"
    BY DEF Resolved
  <2>3. v = Failed => v.is = "failed"
    BY DEF Failed, Verdict
  <2>4. CASE ForNothing(request)
    <3>1. FromDefinitions
      <4>1. ~AsksServer(request, snap)
        BY <2>4 DEF AsksServer, ForNothing
      <4>. QED BY <4>1 DEF ResolutionInv, AnswerHasASource, FromFailure, FromReply
    <3>2. answer.flags = NoFlags /\ answer.unresolved = NoFlags
      BY <2>4, <3>1, EmptySnapshot DEF FromDefinitions
    <3>3. k \notin DOMAIN NoFlags
      BY DEF NoFlags
    <3>. QED BY <2>4, <3>2, <3>3 DEF ForNothing
  <2>5. CASE ~ForNothing(request) /\ (FromDefinitions \/ FromFailure)
    <3>1. answer.flags = local /\ answer.unresolved = unresolved /\ reply = NoReply
      BY <2>5, LocalSnapshot, FailedSnapshot DEF FromDefinitions, FromFailure, Contributed
    <3>. QED BY <2>1, <2>2, <2>3, <3>1, WantedFlags
  <2>6. CASE FromReply
    <3>. DEFINE r == Unmarshal(reply)
    <3>1. /\ DOMAIN answer.flags = Added(r) \cup DOMAIN local
          /\ \A j \in DOMAIN local : answer.flags[j] = local[j]
          /\ DOMAIN answer.unresolved = DOMAIN unresolved \ DOMAIN answer.flags
          /\ \A j \in DOMAIN answer.unresolved : answer.unresolved[j] = unresolved[j]
      BY <2>6, RemoteSnapshot DEF FromReply
    <3>2. DOMAIN r.flags = DOMAIN reply.flags /\ r.quota = reply.quota
      BY DEF Unmarshal
    <3>3. reply # NoReply
      BY <2>6 DEF FromReply
    <3>4. k \in Added(r) <=> ~reply.quota /\ k \in DOMAIN reply.flags /\ ~(request.filter /\ k \notin request.keys)
      BY <3>2 DEF Added
    <3>. HIDE DEF r
    <3>. QED BY <2>1, <2>2, <2>3, <3>1, <3>3, <3>4, WantedFlags
  <2>. QED BY <2>4, <2>5, <2>6 DEF ResolutionInv, AnswerHasASource
<1>. QED BY <1>1, Sourced, PTL

\* A client without definitions returns no value of a flag whose evaluation failed
\* on the server.  (With definitions it may: FailedFlagsHaveNoValue is violated.)
FailedFlagsWithoutPoller == ~hasPoller => FailedFlagsHaveNoValue
THEOREM FailedFlagsHaveNoValueWithoutPoller == ResolutionSpec => []FailedFlagsWithoutPoller
<1>1. ResolutionInv => FailedFlagsWithoutPoller
  <2>. DEFINE r == Unmarshal(reply)
              none == Valued(Nil, "", Nil, r.gate, FALSE)
  <2>. SUFFICES ASSUME ResolutionInv, ~hasPoller, pc = "returned", request.op = "result", reply # NoReply,
                       request.key \in DOMAIN r.flags, r.flags[request.key].failed
                PROVE  answer.flags = NoFlags
    BY DEF FailedFlagsWithoutPoller, FailedFlagsHaveNoValue, Returned
  <2>1. answer = RemoteAnswer(request, snap, r)
    BY DEF ResolutionInv, AnswerHasASource, FromDefinitions, FromFailure, FromReply
  <2>2. RemoteResult(request, r) = none
    BY DEF RemoteResult
  <2>3. RemoteAnswer(request, snap, r) = Result(request, none, "none")
    BY <2>2 DEF RemoteAnswer
  <2>4. none.value = Nil
    BY DEF Valued
  <2>. HIDE DEF none
  <2>5. Result(request, none, "none").flags = NoFlags
    BY <2>4 DEF Result, Fails, Answer
  <2>. QED BY <2>1, <2>3, <2>5
<1>. QED BY <1>1, Sourced, PTL
=============================================================================
