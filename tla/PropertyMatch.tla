--------------------------- MODULE PropertyMatch ---------------------------
(***************************************************************************)
(* Matching one property filter of a condition or a cohort against the     *)
(* properties of a call.  The items of a list are scalars.                 *)
(*                                                                         *)
(* A value is tagged with the kind Go decodes it to; numbers count halves, *)
(* so that 3 is the fractional number 1.5.  Texts are named, and what the  *)
(* string, regexp and time packages say of them are tables of constants.   *)
(***************************************************************************)
EXTENDS Verdicts, Semver

CONSTANTS
  AsciiLower,    \* text -> text
  UnicodeLower,  \* text -> text
  Contained,     \* pairs of texts: the second contains the first
  Heads,         \* pairs of texts: the second starts with the first
  Tails,         \* pairs of texts: the second ends with the first
  RegexClass,    \* text -> "shared", "shorthand" (\d, \s, \w), "invalid", "foreign"
  RegexMatches,  \* pairs of a pattern and a text
  BeyondAscii,   \* texts with a character the shorthands treat differently
  Numeral,       \* number in halves -> text: 2 -> "1", 3 -> "1.5"
  FloatNumeral,  \* the same with a fraction always: 2 -> "1.0"
  ListText,      \* what the text of a list is
  NumberOf,      \* text -> number in halves, for the texts ParseFloat takes
  VersionOf,     \* text -> its components
  DateOf,        \* text -> [form |-> "at", at |-> hour] or
                 \*         [form |-> "ago", n |-> number, hours |-> of the unit]
  Now            \* the hour it is

Tagged(kind, text, num, items) == [kind |-> kind, text |-> text, num |-> num, items |-> items]
Null        == Tagged("null", "null", 0, <<>>)
Bool(b)     == Tagged("bool", IF b THEN "true" ELSE "false", 0, <<>>)
Text(t)     == Tagged("text", t, 0, <<>>)
Int_(n)     == Tagged("int", "", 2 * n, <<>>)    \* what the application passes
Float(h)    == Tagged("float", "", h, <<>>)      \* a JSON number, h halves
List(items) == Tagged("list", "", 0, items)

Texts == DOMAIN AsciiLower

--------------------------------------------------------------------------
(* exact and is_not.                                                       *)

Number(v) == v.kind \in {"int", "float"}

\* isTruthyOrFalsyPropertyValue; an array is, when all its items are.
Plain(v) == v.kind = "bool" \/ (v.kind = "text" /\ UnicodeLower[v.text] \in {"true", "false"})
TruthyOrFalsy(v) == IF v.kind = "list" THEN \A i \in DOMAIN v.items : Plain(v.items[i]) ELSE Plain(v)

\* isTruthyPropertyValue
True(v) == v.kind \in {"bool", "text"} /\ UnicodeLower[v.text] = "true"
Truthy(v) == IF v.kind = "list" THEN \A i \in DOMAIN v.items : True(v.items[i]) ELSE True(v)

\* containsAmbiguousExactNumber: a JSON number without a fraction may have been
\* written as 1 or as 1.0.
Ambiguous(v) ==
  \/ v.kind = "float" /\ v.num % 2 = 0
  \/ v.kind = "list" /\ \E i \in DOMAIN v.items :
       v.items[i].kind = "float" /\ v.items[i].num % 2 = 0

\* exactValueToString and unicodeLower, of scalars: a list never prints like one.
Printed(v) ==
  CASE v.kind = "text"  -> UnicodeLower[v.text]
    [] v.kind = "int"   -> Numeral[v.num]
    [] v.kind = "float" -> FloatNumeral[v.num]
    [] OTHER            -> v.text
SameText(v, w) == v.kind # "list" /\ w.kind # "list" /\ Printed(v) = Printed(w)

\* is_not turns the answer of exact around, and nothing else.
Negated(verdict) == IF Resolved(verdict) THEN Decided(verdict # Yes) ELSE verdict

\* exactMatch; version 2 of the definitions compares booleans like any value.
ExactMatch(value, actual, explicit) ==
  CASE ~explicit /\ TruthyOrFalsy(value) -> Decided(Truthy(value) = Truthy(actual))
    [] (explicit \/ ~TruthyOrFalsy(value)) /\ value.kind = "list" /\ value.items = <<>> ->
         Decided(Truthy(actual))
    [] (explicit \/ ~TruthyOrFalsy(value)) /\ value.kind = "list" /\ value.items # <<>> ->
         IF \E i \in DOMAIN value.items :
              ~Ambiguous(value.items[i]) /\ SameText(value.items[i], actual)
         THEN Yes
         ELSE IF Ambiguous(value) THEN Inconclusive("unsupported_definition") ELSE No
    [] OTHER ->
         IF Ambiguous(value) THEN Inconclusive("unsupported_definition")
         ELSE Decided(SameText(value, actual))

\* exactFilterAlwaysAmbiguous
AlwaysAmbiguous(value, explicit) ==
  /\ IF value.kind = "list"
     THEN value.items # <<>> /\ \A i \in DOMAIN value.items : Ambiguous(value.items[i])
     ELSE Ambiguous(value)
  /\ explicit \/ ~TruthyOrFalsy(value)

--------------------------------------------------------------------------
(* The other operators.                                                    *)

\* valueToString; a null property counts as the text "null".
Shown(v) == CASE Number(v) -> Numeral[v.num]
              [] v.kind = "list" -> ListText
              [] OTHER -> v.text

TextOperators ==
  [icontains   |-> Contained, not_icontains   |-> Contained,
   starts_with |-> Heads,  not_starts_with |-> Heads,
   ends_with   |-> Tails,  not_ends_with   |-> Tails]
TextMatch(op, value, actual) ==
  <<AsciiLower[Shown(value)], AsciiLower[Shown(actual)]>> \in TextOperators[op]

\* regex: a pattern of the flags service's syntax that RE2 reads alike.  An
\* invalid one fails both operators.
RegexMatch(op, value, actual) ==
  LET pattern == Shown(value)
      class == RegexClass[pattern]
      matched == <<pattern, Shown(actual)>> \in RegexMatches
  IN  CASE class = "foreign" -> Server("unsupported_definition")
        [] class = "invalid" -> No
        [] class = "shorthand" /\ Shown(actual) \in BeyondAscii -> Server("unsupported_definition")
        [] OTHER -> Decided(IF op = "regex" THEN matched ELSE ~matched)

\* interfaceToFloat
Orderable(v) == Number(v) \/ (v.kind = "text" /\ v.text \in DOMAIN NumberOf)
Magnitude(v) == IF Number(v) THEN v.num ELSE NumberOf[v.text]

\* gt, gte, lt, lte; a value that is no number fails the flag.
OrderMatch(op, value, actual) ==
  IF ~Orderable(value) \/ ~Orderable(actual) THEN Failed
  ELSE LET a == Magnitude(actual)  b == Magnitude(value)
       IN  Decided(CASE op = "gt" -> a > b [] op = "gte" -> a >= b
                     [] op = "lt" -> a < b [] OTHER -> a <= b)

\* validateDates, parseRelativeDate: "-7d" counts back from now, and has to be
\* below ten thousand.
MaxAgo == 10000
Dated(v) ==
  /\ v.kind = "text" /\ v.text \in DOMAIN DateOf
  /\ DateOf[v.text].form = "ago" => DateOf[v.text].n < MaxAgo
Instant(v) ==
  LET d == DateOf[v.text] IN IF d.form = "at" THEN d.at ELSE Now - d.n * d.hours

DateMatch(op, value, actual) ==
  IF ~Dated(actual) \/ ~Dated(value) THEN Failed
  ELSE Decided(IF op = "is_date_before" THEN Instant(actual) < Instant(value)
               ELSE Instant(actual) > Instant(value))

Ranges == {"semver_tilde", "semver_caret", "semver_wildcard"}
Comparisons == {"semver_eq", "semver_neq", "semver_gt", "semver_gte", "semver_lt", "semver_lte"}

Range_(op, text) == CASE op = "semver_tilde" -> TildeBounds(text)
                      [] op = "semver_caret" -> CaretBounds(text)
                      [] OTHER -> WildcardBounds(text)

\* A filter value that names a version, or a range of versions.
UsableVersion(op, value) ==
  /\ value.kind = "text"
  /\ IF op \in Ranges THEN Range_(op, VersionOf[value.text]) # NoRange
     ELSE ParseSemver(VersionOf[value.text]) # NoVersion

Compares(op, cmp) ==
  CASE op = "semver_eq" -> cmp = 0  [] op = "semver_neq" -> cmp # 0
    [] op = "semver_gt" -> cmp > 0  [] op = "semver_gte" -> cmp >= 0
    [] op = "semver_lt" -> cmp < 0  [] OTHER            -> cmp <= 0

SemverHolds(op, version, text) ==
  IF op \in Ranges THEN Within(version, Range_(op, text))
  ELSE Compares(op, CompareTo(version, ParseSemver(text)))

SemverMatch(op, value, actual) ==
  IF actual.kind # "text" \/ ParseSemver(VersionOf[actual.text]) = NoVersion
  THEN Inconclusive("missing_context")
  ELSE IF ~UsableVersion(op, value) THEN Inconclusive("unsupported_definition")
  ELSE Decided(SemverHolds(op, ParseSemver(VersionOf[actual.text]), VersionOf[value.text]))

--------------------------------------------------------------------------

Propertyless == {"is_set", "is_not_set"}
Operators == {"exact", "is_not", "gt", "gte", "lt", "lte", "is_date_before", "is_date_after",
              "regex", "not_regex"}
             \cup Propertyless \cup DOMAIN TextOperators \cup Ranges \cup Comparisons

\* filterDefinitionError: no call can make use of the filter.
Unusable(filter, explicit) ==
  \/ filter.op \notin Operators
  \/ filter.op \in {"exact", "is_not"} /\ AlwaysAmbiguous(filter.value, explicit)
  \/ filter.op \in {"regex", "not_regex"} /\ RegexClass[Shown(filter.value)] = "foreign"
  \/ filter.op \in Ranges \cup Comparisons /\ ~UsableVersion(filter.op, filter.value)

MatchPropertyValue(filter, properties, explicit) ==
  IF filter.key \notin DOMAIN properties THEN Inconclusive("missing_context")
  ELSE LET actual == properties[filter.key]
           op == filter.op
       IN  CASE op = "is_not_set" -> No
             [] op = "is_set" -> Yes
             [] op = "exact" -> ExactMatch(filter.value, actual, explicit)
             [] op = "is_not" -> Negated(ExactMatch(filter.value, actual, explicit))
             [] op \in DOMAIN TextOperators ->
                  LET holds == TextMatch(op, filter.value, actual)
                  IN  Decided(IF op \in {"icontains", "starts_with", "ends_with"}
                              THEN holds ELSE ~holds)
             [] op \in {"regex", "not_regex"} -> RegexMatch(op, filter.value, actual)
             [] op \in {"gt", "gte", "lt", "lte"} -> OrderMatch(op, filter.value, actual)
             [] op \in {"is_date_before", "is_date_after"} -> DateMatch(op, filter.value, actual)
             [] op \in Ranges \cup Comparisons -> SemverMatch(op, filter.value, actual)
             [] OTHER -> Inconclusive("unsupported_definition")

\* Mutant: what the call lacks is blamed first.
MatchPropertyBlamesTheCall(filter, properties, explicit) ==
  MatchPropertyValue(filter, properties, explicit)

\* An unusable filter outranks what the call lacks.
Blamed(filter, explicit, verdict) ==
  IF verdict.why = "missing_context" /\ Unusable(filter, explicit)
  THEN Inconclusive("unsupported_definition") ELSE verdict

MatchProperty(filter, properties, explicit) ==
  Blamed(filter, explicit, MatchPropertyValue(filter, properties, explicit))
=============================================================================
