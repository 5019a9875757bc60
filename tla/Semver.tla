------------------------------- MODULE Semver -------------------------------
(***************************************************************************)
(* Semantic versions of the semver_* operators.  The text of a version is  *)
(* abstracted to its components between the dots, without the v prefix and *)
(* the pre-release and build suffixes that parseSemver strips: a component *)
(* is a number, Blank (empty, or the asterisk of a wildcard) or Bad        *)
(* (anything else, such as a number with a leading zero).                  *)
(* Integers have the width of Go's int, MaxInt.                            *)
(***************************************************************************)
EXTENDS Integers, Sequences, SequencesExt

CONSTANTS
  MaxInt,   \* largest int
  Bad,      \* a component that is not a number
  Blank     \* an empty component or an asterisk

ASSUME WidthAssumption == MaxInt \in Nat \ {0}
ASSUME BadAssumption == Bad \notin Int /\ Blank \notin Int /\ Bad # Blank

Ints == 0..MaxInt
Tuple(major, minor, patch) == [major |-> major, minor |-> minor, patch |-> patch]
Tuples == [major : Ints, minor : Ints, patch : Ints]
NoVersion == [major |-> -1, minor |-> -1, patch |-> -1]

\* n + 1 in an int: the successor of MaxInt is the smallest int.
Successor(n) == IF n = MaxInt THEN -MaxInt - 1 ELSE n + 1

\* compareTo
CompareTo(s, t) ==
  CASE s.major # t.major -> IF s.major < t.major THEN -1 ELSE 1
    [] s.major = t.major /\ s.minor # t.minor -> IF s.minor < t.minor THEN -1 ELSE 1
    [] s.major = t.major /\ s.minor = t.minor /\ s.patch # t.patch ->
         IF s.patch < t.patch THEN -1 ELSE 1
    [] OTHER -> 0

\* parseSemver: up to three components count, missing ones are 0, and each that
\* counts has to be a number.
ParseSemver(text) ==
  IF text = <<>> \/ \E i \in DOMAIN text : i <= 3 /\ text[i] \notin Ints
  THEN NoVersion
  ELSE Tuple(text[1], IF Len(text) > 1 THEN text[2] ELSE 0,
                      IF Len(text) > 2 THEN text[3] ELSE 0)

NoRange == [lower |-> NoVersion, upper |-> NoVersion]
Interval(lower, upper) == [lower |-> lower, upper |-> upper]

\* computeTildeBounds
TildeBounds(text) ==
  LET v == ParseSemver(text)
  IN  IF v = NoVersion THEN NoRange
      ELSE Interval(v, Tuple(v.major, Successor(v.minor), 0))

\* Mutant: 0.Y.Z is bounded by the next major version.
CaretBoundsOfMajor(text) ==
  LET v == ParseSemver(text)
  IN  IF v = NoVersion THEN NoRange
      ELSE Interval(v, Tuple(Successor(v.major), 0, 0))

\* computeCaretBounds: what is left of the first component that is not 0 stays.
CaretBounds(text) ==
  LET v == ParseSemver(text)
  IN  IF v = NoVersion THEN NoRange
      ELSE Interval(v, CASE v.major > 0 -> Tuple(Successor(v.major), 0, 0)
                         [] v.major = 0 /\ v.minor > 0 -> Tuple(0, Successor(v.minor), 0)
                         [] OTHER -> Tuple(0, 0, Successor(v.patch)))

\* computeWildcardBounds, of the components that are left.
PartsBounds(parts) ==
  CASE parts = <<>> \/ (\E i \in DOMAIN parts : i <= 3 /\ parts[i] \notin Ints) -> NoRange
    [] parts # <<>> /\ (\A i \in DOMAIN parts : i <= 3 => parts[i] \in Ints) ->
         CASE Len(parts) = 1 ->
                Interval(Tuple(parts[1], 0, 0), Tuple(Successor(parts[1]), 0, 0))
           [] Len(parts) = 2 ->
                Interval(Tuple(parts[1], parts[2], 0),
                         Tuple(parts[1], Successor(parts[2]), 0))
           [] OTHER ->
                Interval(Tuple(parts[1], parts[2], parts[3]),
                         Tuple(parts[1], parts[2], Successor(parts[3])))

\* computeWildcardBounds: asterisks and empty components are dropped.
NonEmptyParts(text) ==
  FoldLeft(LAMBDA parts, part : IF part = Blank THEN parts ELSE Append(parts, part), <<>>, text)
WildcardBounds(text) == PartsBounds(NonEmptyParts(text))

Within(version, range) ==
  CompareTo(version, range.lower) >= 0 /\ CompareTo(version, range.upper) < 0

--------------------------------------------------------------------------
(* What the comments of the code promise of the ranges.                    *)

AtLeast(v, w) ==
  \/ v.major > w.major
  \/ v.major = w.major /\ v.minor > w.minor
  \/ v.major = w.major /\ v.minor = w.minor /\ v.patch >= w.patch

\* "~X.Y.Z means >=X.Y.Z and <X.(Y+1).0"
TildeAdmits(v, w) == AtLeast(v, w) /\ v.major = w.major /\ v.minor = w.minor

\* The version agrees up to the first component that is not 0.
CaretAdmits(v, w) ==
  /\ AtLeast(v, w)
  /\ v.major = w.major
  /\ w.major = 0 => v.minor = w.minor
  /\ w.major = 0 /\ w.minor = 0 => v.patch = w.patch

\* The components the pattern gives are those of the version.
WildcardAdmits(v, parts) ==
  /\ v.major = parts[1]
  /\ Len(parts) > 1 => v.minor = parts[2]
  /\ Len(parts) > 2 => v.patch = parts[3]
=============================================================================
