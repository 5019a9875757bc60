------------------------------ MODULE MCFlags ------------------------------
(* Definitions and calls of the runs on flags: an application either keeps *)
(* evaluating one flag locally, or asks for flags that the client resolves *)
(* with the verdicts of local evaluation and a server.                     *)
EXTENDS FlagMeaning, FlagResolution, TLC

--------------------------------------------------------------------------
(* The recursions of local evaluation.                                     *)

\* (In a LET because TLC's coverage follows the operator that is given to a
\* constant, and would follow these two around forever.)
MCMatching(definitions, filter, at, cache) ==
  LET found == MatchFilter(definitions, filter, at, cache) IN found
MCInspecting(definitions, filter, aggregation, found) ==
  LET inspected == Inspect(definitions, filter, aggregation, found) IN inspected

--------------------------------------------------------------------------
(* Texts.                                                                  *)

Words == {"a", "A", "ab", "true", "True", "null", "1", "1.0", "1.5", "[]", "x", "v", "d", "gone",
          "-3d", "-10000h", "noon", "^a$", "(", "\\d", "\\b",
          "either", "both", "none", "odd", "deep", "static", "compared", "false", ""}
Versions == ("1" :> <<1>>) @@ ("1.0" :> <<1, 0>>) @@ ("1.5" :> <<1, Bad>>) @@
  ("0.1" :> <<0, 1>>) @@ ("0.1.2" :> <<0, 1, 2>>) @@ ("0.0.2" :> <<0, 0, 2>>) @@
  ("1.2.1" :> <<1, 2, 1>>) @@ ("1.*" :> <<1, Blank>>) @@ ("1.2.*" :> <<1, 2, Blank>>) @@
  ("*" :> <<Blank>>) @@ ("0.3" :> <<0, 3>>) @@ ("2.01" :> <<2, Bad>>) @@ ("1.2.1.x" :> <<1, 2, 1, Bad>>)
Same == [t \in Words \cup DOMAIN Versions |-> t]
MCAsciiLower == [Same EXCEPT !["A"] = "a", !["True"] = "true"]
MCNumeral == (2 :> "1") @@ (3 :> "1.5")
MCFloatNumeral == (2 :> "1.0") @@ (3 :> "1.5")
Alike == {<<t, t>> : t \in DOMAIN Same} \cup {<<"a", "ab">>, <<"1", "1.0">>, <<"1", "1.5">>}
MCRegexClass == [t \in DOMAIN Same |-> CASE t = "(" -> "invalid" [] t = "\\d" -> "shorthand"
                                         [] t = "\\b" -> "foreign" [] OTHER -> "shared"]
MCRegexMatches == {<<"^a$", "a">>, <<"\\d", "1">>, <<"\\d", "1.5">>}
MCNumberOf == ("1" :> 2) @@ ("1.0" :> 2) @@ ("1.5" :> 3)
MCVersionOf == [t \in DOMAIN Same |-> IF t \in DOMAIN Versions THEN Versions[t] ELSE <<Bad>>]
MCDateOf == ("noon" :> [form |-> "at", at |-> 12]) @@
            ("-3d" :> [form |-> "ago", n |-> 3, hours |-> 24]) @@
            ("-10000h" :> [form |-> "ago", n |-> 10000, hours |-> 1])

--------------------------------------------------------------------------
(* Definitions.                                                            *)

Leaf(type, key, op, value, negation, chain) ==
  [type |-> type, key |-> key, op |-> op, value |-> value, negation |-> negation, chain |-> chain]
Property(key, op, value) == Leaf("person", key, op, value, FALSE, <<>>)
Not(leaf) == [leaf EXCEPT !.negation = TRUE]
Cohort(id) == Leaf("cohort", id, "in", Text(id), FALSE, <<>>)
Nested(id) == Leaf("group", id, "", Null, FALSE, <<>>)
Depends(key, value, chain) == Leaf("flag", key, "flag_evaluates_to", value, FALSE, chain)

K1 == Property("k1", "exact", Text("a"))
K2 == Property("k2", "exact", Text("a"))
Foreign == Property("k1", "regex", Text("\\b"))
Unknown == Property("k2", "resembles", Text("a"))
Orders == Property("k1", "gt", Text("1"))
OnD == Depends("d", Bool(TRUE), <<"d">>)
OnDThroughE == Depends("d", Bool(TRUE), <<"e", "d">>)
OnDNot == Depends("d", Bool(FALSE), <<"e", "d">>)
OnNothing == Depends("gone", Bool(TRUE), <<"gone">>)
InCircle == Depends("d", Bool(TRUE), <<>>)

MCGroups ==
  ("either" :> [join |-> "OR", entries |-> <<K1, Not(K2)>>]) @@
  ("both" :> [join |-> "AND", entries |-> <<Nested("either"), Not(OnDThroughE)>>]) @@
  ("none" :> [join |-> "AND", entries |-> <<>>]) @@
  ("odd" :> [join |-> "OR", entries |-> <<K2, Not(Foreign)>>]) @@
  ("deep" :> [join |-> "OR", entries |-> <<Cohort("both"), Cohort("static")>>])

Filters == {K1, K2, Foreign, Unknown, Orders, OnD, OnDThroughE, OnDNot, OnNothing, InCircle,
            Cohort("either"), Cohort("both"), Cohort("none"), Cohort("odd"), Cohort("deep"),
            Cohort("static")}

Everyone == {"person", "device", "group"}
Condition(filters, admits, variant, aggregation) ==
  [filters |-> filters, admits |-> admits, variant |-> variant, aggregation |-> aggregation]
For(filters) == Condition(filters, Everyone, "none", "inherit")

Unheld == [share |-> "none", holds |-> {}]
NoVariants == [b \in Everyone |-> "true"]
Active(conditions) ==
  [active |-> TRUE, continuity |-> FALSE, aggregation |-> "person", device |-> FALSE,
   holdout |-> Unheld, earlyExit |-> FALSE, conditions |-> conditions,
   variants |-> {}, buckets |-> NoVariants]
Varied(flag) == [flag EXCEPT !.variants = {"v", "w"}, !.buckets = [@ EXCEPT !["person"] = "w"]]

\* d, and e on which it may depend.
OnK2 == Active(<<For(<<K2>>)>>)
Continuous == [Active(<<>>) EXCEPT !.continuity = TRUE]
OnK1OrE == Active(<<For(<<K1>>), For(<<Depends("e", Bool(TRUE), <<"e">>)>>)>>)
Ds == {[Active(<<For(<<>>)>>) EXCEPT !.active = FALSE],
       [Active(<<For(<<K1>>)>>) EXCEPT !.aggregation = "group"],
       Varied(Active(<<For(<<K1>>)>>))}

Lists == {<<>>} \cup {<<f>> : f \in Filters}
Pairs == {<<f, g>> : f \in Filters,
                     g \in {K1, Foreign, OnD, Cohort("either"), Cohort("odd")}}
Ones == {Active(<<For(fs)>>) : fs \in Lists \cup Pairs}
Firsts == {Condition(fs, admits, "v", aggregation) :
             fs \in {<<K1>>, <<OnDThroughE>>, <<Foreign>>, <<Cohort("both")>>, <<K2, Foreign>>},
             admits \in {Everyone, {"device"}}, aggregation \in {"inherit", "group", "unknown"}}
Seconds == {For(fs) : fs \in {<<>>, <<K2>>, <<OnDThroughE>>, <<Unknown>>, <<Cohort("both")>>}}
           \cup {Condition(<<K2>>, {"device"}, "none", "inherit")}
Twos == {[flag EXCEPT !.earlyExit = exits] : exits \in BOOLEAN,
         flag \in {Active(<<c, d>>) : c \in Firsts, d \in Seconds}}
Variants == {[Varied(flag) EXCEPT !.device = TRUE] : flag \in {f \in Twos : ~f.earlyExit}}
Held == {[Active(<<For(fs)>>) EXCEPT !.device = TRUE, !.holdout = [share |-> share, holds |-> holds]] :
           share \in {"part", "all"}, holds \in {{}, {"device"}, {"person"}}, fs \in Lists}
Grouped == {[flag EXCEPT !.aggregation = aggregation] :
              aggregation \in {"group", "unknown"}, flag \in {Active(<<For(fs)>>) : fs \in Lists}}
Special == {[Active(<<For(<<>>)>>) EXCEPT !.continuity = TRUE], [Active(<<>>) EXCEPT !.active = FALSE]}

AllFlags == Ones \cup Twos \cup Variants \cup Held \cup Grouped \cup Special
Loaded(f, d, e) ==
  [flags |-> ("f" :> f) @@ ("d" :> d) @@ ("e" :> e), groups |-> MCGroups,
   explicit |-> TRUE, reads |-> {"k1", "k2"}]

\* A flag with nothing but one filter.
Operands == {Text("true"), Text("a"), Text("1"), Bool(FALSE), Float(2), Float(3), Int_(1), List(<<>>),
             List(<<Text("True"), Bool(TRUE)>>), List(<<Float(2), Text("a")>>), List(<<Float(2)>>)}
Alone(filter, explicit) ==
  [flags |-> "f" :> Active(<<For(<<filter>>)>>), groups |-> MCGroups,
   explicit |-> explicit, reads |-> {"k3"}]
\* One cohort, in a condition about the person and in one about the group.
MCSharedCohort ==
  {Loaded(Active(<<For(<<Cohort("both")>>), Condition(<<Cohort("both")>>, Everyone, "none", "group")>>),
          OnK1OrE, OnK2)}

\* The flags that depend on another, some through a cohort.
Dependents ==
  {f \in AllFlags : \E i \in DOMAIN f.conditions : \E j \in DOMAIN f.conditions[i].filters :
     f.conditions[i].filters[j] \in {OnD, OnDThroughE, OnDNot, Cohort("both"), Cohort("deep")}}
\* d can be evaluated as long as k1 is not passed: what is no number fails it.
MCComparing ==
  {[Loaded([Active(<<Condition(<<OnD>>, admits, "v", "inherit"), For(<<K2>>)>>) EXCEPT !.earlyExit = exits],
           Active(<<For(<<Cohort("compared")>>)>>), OnK2)
    EXCEPT !.groups = @ @@ ("compared" :> [join |-> "OR", entries |-> <<Orders, K2>>])] :
     admits \in {Everyone, {}}, exits \in BOOLEAN}
MCDefinitions ==
  MCSharedCohort \cup MCComparing \cup
  {Loaded(f, OnK1OrE, OnK2) : f \in AllFlags} \cup
  {Loaded(f, OnK1OrE, Continuous) : f \in Dependents} \cup
  {Loaded(f, d, OnK2) : f \in Dependents, d \in Ds} \cup
  {Alone(Property("k3", op, value), explicit) :
     op \in {"exact", "gt", "lt"}, value \in Operands, explicit \in BOOLEAN} \cup
  {Alone(Property("k3", op, Text(t)), TRUE) :
     op \in {"icontains", "starts_with", "ends_with", "regex", "not_regex", "is_set", "is_not_set",
             "is_date_before", "is_date_after", "resembles"},
     t \in {"A", "^a$", "(", "\\d", "\\b", "-3d", "-10000h"}} \cup
  {Alone(Property("k3", op, value), TRUE) :
     op \in Ranges \cup {"semver_eq", "semver_gt", "semver_lt"},
     value \in {Text(t) : t \in DOMAIN Versions} \cup {Float(2)}}

\* How deep the filters nest: f is on top of d, and d of e.
NestsOne == {Nested("either"), Cohort("either"), Cohort("odd"), Cohort("none"), Cohort("compared"), Depends("e", Bool(TRUE), <<"e">>)}
MCDepth(filter) ==
  CASE filter \in NestsOne -> 1
    [] filter \in {OnD, OnDThroughE, Not(OnDThroughE), OnDNot} -> 2
    [] filter = Cohort("both") -> 3
    [] filter = Cohort("deep") -> 4
    [] OTHER -> 0

Nothing == [k \in {} |-> Null]
MCCalls == {Call(Nothing, "absent", FALSE, Nothing, FALSE),
            Call(Nothing, "odd", TRUE, Nothing, TRUE),
            Call(Nothing, "named", TRUE, Nothing, TRUE)}

MCPersonProperties ==
  ("k1" :> {Text("a"), Text("x")}) @@ ("k2" :> {Text("A"), Text("x")}) @@
  ("k3" :> {Null, Bool(TRUE), Int_(1), Float(2), Float(3), List(<<Text("a")>>)} \cup
           {Text(t) : t \in {"a", "ab", "True", "1.5", "noon", "0.1", "0.1.2", "0.0.2", "1.2.1", "2.01", "0.3"}})
MCGroupProperties == ("k1" :> {Text("a"), Text("x")}) @@ ("k2" :> {Text("a")}) @@ ("k3" :> {Null})

--------------------------------------------------------------------------
(* What the poller loads: snapshots of f and g, each with the verdict of   *)
(* local evaluation; the server also knows h.                              *)

Before(flag, left, payload, experiment) ==
  [verdict |-> ComputeFlagLocally(Loaded(flag, OnK2, OnK2), flag, Call(Nothing, "absent", FALSE, Nothing, FALSE)),
   left |-> left, payload |-> payload, experiment |-> experiment]
On == Before(Varied(Active(<<For(<<>>)>>)), Nil, "local", "no")
Off == Before([Active(<<>>) EXCEPT !.active = FALSE], Nil, "", Nil)
Lacking == Before(Active(<<For(<<K1>>)>>), "false", "", "no")
Continued == Before(Continuous, Nil, "", "yes")
Static == Before(Active(<<For(<<Cohort("static")>>)>>), Nil, "", Nil)
Broken == [Off EXCEPT !.verdict = Failed]
Defines(f, g, gate) == [flags |-> ("f" :> f) @@ ("g" :> g), gate |-> gate]
MCSnapshots ==
  {Defines(On, Off, TRUE), Defines(On, Lacking, FALSE), Defines(Lacking, On, TRUE),
   Defines(Continued, Static, TRUE), Defines(Broken, Off, FALSE),
   [flags |-> "g" :> On, gate |-> TRUE]}

Detail(enabled, variant, failed, payload, experiment) ==
  [enabled |-> enabled, variant |-> variant, failed |-> failed, payload |-> payload, experiment |-> experiment]
Body(form, flags, quota, gate) == [form |-> form, flags |-> flags, quota |-> quota, gate |-> gate]
Nobody == [k \in {} |-> Nil]
Served == ("f" :> Detail(TRUE, "w", FALSE, "remote", "no")) @@ ("g" :> Detail(FALSE, Nil, FALSE, "", Nil))
Legacy == ("f" :> [value |-> "w", payload |-> "remote"]) @@ ("h" :> [value |-> "true", payload |-> ""])
Unserved == ("f" :> Detail(FALSE, "w", TRUE, "", Nil)) @@ ("g" :> Detail(FALSE, Nil, TRUE, "", "no"))
MCReplies ==
  {Body("v4", Served, FALSE, FALSE), Body("v4", Served, FALSE, TRUE), Body("v3", Legacy, FALSE, FALSE),
   Body("v4", Unserved, FALSE, TRUE), Body("v4", Nobody, TRUE, FALSE), Body("v4", Nobody, FALSE, TRUE)}

Ask(op, key, filter, keys, local) ==
  [op |-> op, key |-> key, filter |-> filter, keys |-> keys, local |-> local]
MCRequests ==
  {Ask("result", "f", FALSE, {}, local) : local \in BOOLEAN} \cup
  {Ask(op, "f", FALSE, {}, local) : op \in {"all", "capture", "evaluate"}, local \in BOOLEAN} \cup
  {Ask("evaluate", "f", TRUE, keys, local) : keys \in {{}, {"f"}, {"g", "h"}}, local \in BOOLEAN}

\* The reply that says of a flag that it failed.
MCFailures == {Body("v4", Unserved, FALSE, TRUE)}

--------------------------------------------------------------------------
(* The two applications.                                                   *)

flagsVars == <<evaluationVars, resolutionVars>>

EvaluatesOnly ==
  /\ EvaluationInit
  /\ hasPoller = FALSE /\ fetched = FALSE /\ loaded = None
  /\ pc = "off" /\ request = Ask("result", "f", FALSE, {}, TRUE) /\ snap = None /\ attempt = 0
  /\ cancelled = FALSE /\ reply = NoReply /\ answer = Fails("none")

Resolves ==
  /\ ResolutionInit
  /\ defs = Loaded(Active(<<>>), OnK2, OnK2)
  /\ call = Call(Nothing, "absent", FALSE, Nothing, FALSE)
  /\ verdict = Inconclusive("missing_context")

FlagsInit == EvaluatesOnly \/ Resolves

FlagsNext ==
  \/ pc = "off" /\ EvaluationNext /\ UNCHANGED resolutionVars
  \/ ResolutionNext /\ UNCHANGED evaluationVars

FlagsSpec == FlagsInit /\ [][FlagsNext]_flagsVars
=============================================================================
