-------------------------- MODULE DeliveryContract --------------------------
(***************************************************************************)
(* What the delivery pipeline promises to an application that does not    *)
(* look inside: a message is refused, reported at once, or becomes         *)
(* pending; a pending message is settled exactly once; Close returning nil *)
(* means nothing is pending, and after Close nothing becomes pending.      *)
(***************************************************************************)
CONSTANT Messages

VARIABLES
  stage,       \* "new", "refused", "pending", "reported" or "taken"
  closing      \* "open", "closing", "clean" (Close returned nil) or "late"

vars == <<stage, closing>>

Stages == {"new", "refused", "pending", "reported", "taken"}

Pending == {m \in Messages : stage[m] = "pending"}

Init == stage = [m \in Messages |-> "new"] /\ closing = "open"

\* Enqueue returns an error, or BeforeSend drops the message.
Refuse(m) ==
  /\ stage[m] = "new"
  /\ stage' = [stage EXCEPT ![m] = "refused"]
  /\ UNCHANGED closing

\* Enqueue reports a message it cannot serialize, even when Close is through.
ReportAtOnce(m) ==
  /\ stage[m] = "new"
  /\ stage' = [stage EXCEPT ![m] = "reported"]
  /\ UNCHANGED closing

Accept(m) ==
  /\ stage[m] = "new" /\ closing \in {"open", "closing"}
  /\ stage' = [stage EXCEPT ![m] = "pending"]
  /\ UNCHANGED closing

\* Some pending messages get their callback, some are taken in silence.  After
\* a clean Close there is none left.
Settle ==
  /\ stage' \in [Messages -> Stages]
  /\ \A m \in Messages :
       \/ stage'[m] = stage[m]
       \/ stage[m] = "pending" /\ stage'[m] \in {"reported", "taken"}
  /\ UNCHANGED closing

BeginClose ==
  /\ closing = "open" /\ closing' = "closing"
  /\ UNCHANGED stage

EndClose(how) ==
  /\ closing = "closing" /\ closing' = how
  /\ how = "clean" => Pending = {}
  /\ UNCHANGED stage

Next ==
  \/ Settle
  \/ \E m \in Messages : Refuse(m) \/ ReportAtOnce(m) \/ Accept(m)
  \/ BeginClose
  \/ \E how \in {"clean", "late"} : EndClose(how)

Spec == Init /\ [][Next]_vars
=============================================================================
