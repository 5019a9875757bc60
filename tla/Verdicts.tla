------------------------------ MODULE Verdicts ------------------------------
(***************************************************************************)
(* What evaluating a filter, a condition or a flag locally may come to, and *)
(* the reasons a flag is left unresolved for, in the order they are        *)
(* reported.                                                               *)
(***************************************************************************)
EXTENDS Integers

NoReason == "none"

\* unresolvedFlagReasons: the place of a reason in the order.
Place == [experience_continuity |-> 0, unsupported_definition |-> 1,
          unresolved_dependency |-> 2, missing_context |-> 3]

Reasons == DOMAIN Place

Rank(reason) == IF reason \in Reasons THEN Place[reason] ELSE 4

\* pickUnresolvedReason: an error without a reason counts as unsupported.
Named(reason) == IF reason = NoReason THEN "unsupported_definition" ELSE reason
Earlier(current, next) ==
  IF current = NoReason \/ Rank(next) < Rank(current) THEN next ELSE current
Pick(current, next) == Earlier(current, Named(next))

\* A verdict: "value" with the value, "inconclusive" (InconclusiveMatchError) or
\* "server" (RequiresServerEvaluationError) with the reason, or "failed" (any
\* other error).
Verdict(is, value, why) == [is |-> is, value |-> value, why |-> why]

Value(v)         == Verdict("value", v, NoReason)
Inconclusive(why) == Verdict("inconclusive", "none", Named(why))
Server(why)       == Verdict("server", "none", Named(why))
Failed            == Verdict("failed", "none", NoReason)

\* RequiresServerEvaluationError.withReason
WithReason(verdict, why) == [verdict EXCEPT !.why = Pick(why, @)]

Resolved(verdict) == verdict.is = "value"

Yes == Value("true")
No  == Value("false")
Decided(b) == IF b THEN Yes ELSE No
=============================================================================
