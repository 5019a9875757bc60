---------------------------- MODULE EmailsProofs ----------------------------
(***************************************************************************)
(* Safety of Emails, for any number of requests and retries and any use of *)
(* idempotency keys.                                                       *)
(***************************************************************************)
EXTENDS Emails, TLAPS

USE RequestsAssumption, KeysAssumption, RetriesAssumption

--------------------------------------------------------------------------
(* Type correctness.                                                       *)

LEMMA MessageIsAttempt ==
  ASSUME TypeOK, NEW r \in Requests
  PROVE  Message(r) \in Attempts
BY DEF TypeOK, Message, Attempts

LEMMA AnswersAreReplies ==
  ASSUME NEW m \in Attempts
  PROVE  Answers(m) \subseteq Replies
BY DEF Answers, Replies

\* Nothing is retried beyond MaxRetries.
RetriesLeft ==
  \A r \in Requests : pc[r] = "wait" => attempt[r] < MaxRetries

TypeInv == TypeOK /\ RetriesLeft

LEMMA TypeInit == Init => TypeInv
<1>1. 0 \in 0..MaxRetries
  OBVIOUS
<1>2. Init => TypeOK
  BY <1>1, ZenonT(40) DEF Init, TypeOK, Places
<1>3. Init => RetriesLeft
  BY DEF Init, RetriesLeft
<1> QED BY <1>2, <1>3 DEF TypeInv

LEMMA TypeRequest ==
  ASSUME TypeInv, NEW r \in Requests, Start(r) \/ Request(r)
  PROVE  TypeInv'
<1> USE DEF TypeInv, TypeOK, RetriesLeft, Goto, Places
<1>1. CASE Start(r)
  BY <1>1 DEF Start, closeVars, serverVars
<1>2. CASE Attempt(r)
  BY <1>2, MessageIsAttempt DEF Attempt, Errors, closeVars, serverVars
<1>3. CASE Answered(r)
  <2>1. lastError' \in [Requests -> Errors \cup {"none"}]
    BY <1>3, MessageIsAttempt, AnswersAreReplies DEF Answered, Errors
  <2>2. \E place \in {"ok", "failed", "decide"} : pc' = [pc EXCEPT ![r] = place]
    BY <1>3 DEF Answered
  <2> QED BY <1>3, <2>1, <2>2 DEF Answered, closeVars, serverVars
<1>4. CASE CutOff(r)
  <2>1. lastError' \in [Requests -> Errors \cup {"none"}]
    BY <1>4 DEF CutOff, Errors
  <2> QED BY <1>4, <2>1 DEF CutOff, closeVars, serverVars
<1>5. CASE AttemptFails(r)
  BY <1>5 DEF AttemptFails, Errors, closeVars, serverVars
<1>6. CASE RetryDelay(r)
  BY <1>6 DEF RetryDelay, closeVars, serverVars
<1>7. CASE RetryTimer(r)
  <2>1. attempt[r] + 1 \in 0..MaxRetries
    BY <1>7 DEF RetryTimer
  <2> QED BY <1>7, <2>1 DEF RetryTimer, closeVars, serverVars
<1>8. CASE RetryInterrupted(r)
  BY <1>8 DEF RetryInterrupted, closeVars, serverVars
<1>9. CASE Finish(r)
  BY <1>9 DEF Finish, closeVars, serverVars
<1> QED
  BY <1>1, <1>2, <1>3, <1>4, <1>5, <1>6, <1>7, <1>8, <1>9 DEF Request, Do

LEMMA TypeStep ==
  ASSUME TypeInv, [Next]_vars
  PROVE  TypeInv'
<1> USE DEF TypeInv, TypeOK, RetriesLeft
<1>1. ASSUME NEW r \in Requests, Start(r) \/ Request(r) PROVE TypeInv'
  BY <1>1, TypeRequest
<1>2. ASSUME NEW r \in Requests, CallerCancels(r) \/ AbortReaches(r) PROVE TypeInv'
  BY <1>2 DEF CallerCancels, AbortReaches, closeVars, serverVars
<1>3. CASE CloseCall \/ CloseDeadline \/ Close
  BY <1>3 DEF CloseCall, CloseDeadline, Close, LoopShutdown, DrainAborts,
              CloseReturn, clientVars, serverVars
<1>4. ASSUME NEW m \in wire, Server(m) PROVE TypeInv'
  BY <1>4 DEF Server, ServerClaims, ServerQueues, ServerFails, clientVars, closeVars
<1>5. CASE Terminated \/ UNCHANGED vars
  BY <1>5 DEF Terminated, vars, clientVars, closeVars, serverVars
<1> QED BY <1>1, <1>2, <1>3, <1>4, <1>5 DEF Next

LEMMA TypeInvariant == Spec => []TypeInv
<1>1. TypeInv /\ [Next]_vars => TypeInv'
  BY TypeStep
<1> QED BY TypeInit, <1>1, PTL DEF Spec

(* Every variable of the email client and the server stays in its domain;  *)
(* no request goes beyond its retries.                                     *)
THEOREM TypeCorrect == Spec => []TypeOK
<1>1. TypeInv => TypeOK
  BY DEF TypeInv
<1> QED BY <1>1, TypeInvariant, PTL

--------------------------------------------------------------------------
(* Idempotency keys.                                                       *)

KeyOf(r) == IF r \notin Sends THEN NoKey ELSE IF r \in Keyed THEN SharedKey ELSE r

\* Every message of a request carries one key, whatever its attempt, and two
\* claims of one key, under way or done, are one.
KeysInv ==
  /\ \A m \in wire : m.key = KeyOf(m.from)
  /\ \A m \in working \cup queued : m.key # NoKey
  /\ \A p, q \in working \cup queued : p.key = q.key => p = q

LEMMA KeysStep ==
  ASSUME TypeOK, KeysInv, [Next]_vars
  PROVE  KeysInv'
<1> USE DEF KeysInv, TypeOK
<1>1. ASSUME NEW r \in Requests, Attempt(r) PROVE KeysInv'
  <2>1. Message(r).key = KeyOf(Message(r).from)
    BY DEF Message, KeyOf
  <2> QED BY <1>1, <2>1 DEF Attempt, serverVars
<1>2. CASE UNCHANGED <<wire, serverVars>>
  BY <1>2 DEF serverVars
<1>3. ASSUME NEW r \in Requests,
             Start(r) \/ Request(r) \/ CallerCancels(r) \/ AbortReaches(r)
      PROVE  Attempt(r) \/ UNCHANGED <<wire, serverVars>>
  BY <1>3 DEF Start, Request, Do, Answered, CutOff, AttemptFails, RetryDelay,
              RetryTimer, RetryInterrupted, Finish, CallerCancels, AbortReaches
<1>4. CASE CloseCall \/ CloseDeadline \/ Close
  BY <1>2, <1>4 DEF CloseCall, CloseDeadline, Close, LoopShutdown, DrainAborts,
                    CloseReturn
<1>5. ASSUME NEW m \in wire, Server(m) PROVE KeysInv'
  <2>1. CASE ServerClaims(m)
    BY <2>1 DEF ServerClaims
  <2>2. CASE ServerQueues(m) \/ ServerFails(m)
    BY <2>2 DEF ServerQueues, ServerFails
  <2> QED BY <1>5, <2>1, <2>2 DEF Server
<1>6. CASE Terminated \/ UNCHANGED vars
  BY <1>2, <1>6 DEF Terminated, vars
<1> QED BY <1>1, <1>2, <1>3, <1>4, <1>5, <1>6 DEF Next

LEMMA KeysInvariant == Spec => []KeysInv
<1>1. Init => KeysInv
  BY DEF Init, KeysInv
<1>2. TypeOK /\ KeysInv /\ [Next]_vars => KeysInv'
  BY KeysStep
<1> QED BY <1>1, <1>2, TypeCorrect, PTL DEF Spec

(* However often a send is retried, answered late or replayed, the server  *)
(* queues one email at most for it, and one for all the sends that share   *)
(* an IdempotencyKey.                                                      *)
THEOREM OneEmailPerKey == Spec => []QueuedAtMostOnce
<1>1. TypeOK /\ KeysInv => QueuedAtMostOnce
  BY DEF TypeOK, KeysInv, QueuedAtMostOnce, KeyOf
<1> QED BY <1>1, TypeCorrect, KeysInvariant, PTL

\* A send that read an acceptance has its key among those of queued emails.
AcceptedInv ==
  \A r \in Sends : pc[r] \in {"ok", "returnedOk"} => \E q \in queued : q.key = KeyOf(r)

LEMMA AcceptedStep ==
  ASSUME TypeOK, AcceptedInv, [Next]_vars
  PROVE  AcceptedInv'
<1> USE DEF AcceptedInv, TypeOK, Goto
<1>1. ASSUME NEW r \in Requests, Answered(r) PROVE AcceptedInv'
  <2>1. \A d \in Requests : d # r => pc'[d] = pc[d]
    BY <1>1 DEF Answered
  <2>2. queued' = queued
    BY <1>1 DEF Answered, serverVars
  <2>3. ASSUME r \in Sends, pc'[r] \in {"ok", "returnedOk"}
        PROVE  \E q \in queued : q.key = KeyOf(r)
    <3>1. "accepted" \in Answers(Message(r))
      BY <1>1, <2>3 DEF Answered
    <3>2. \E q \in queued : q.key = Message(r).key
      BY <2>3, <3>1 DEF Answers, Message
    <3> QED BY <3>2 DEF Message, KeyOf
  <2> QED BY <2>1, <2>2, <2>3
<1>2. ASSUME NEW r \in Requests, Start(r) \/ (Request(r) /\ ~Answered(r))
      PROVE  AcceptedInv'
  <2>1. queued' = queued
    BY <1>2 DEF Start, Request, Do, Attempt, CutOff, AttemptFails, RetryDelay,
                RetryTimer, RetryInterrupted, Finish, serverVars
  <2>2. \A d \in Requests : d # r => pc'[d] = pc[d]
    BY <1>2 DEF Start, Request, Do, Attempt, CutOff, AttemptFails, RetryDelay,
                RetryTimer, RetryInterrupted, Finish
  <2>3. pc'[r] \in {"ok", "returnedOk"} => pc[r] = "ok"
    BY <1>2 DEF Start, Request, Do, Attempt, CutOff, AttemptFails, RetryDelay,
                RetryTimer, RetryInterrupted, Finish
  <2> QED BY <2>1, <2>2, <2>3
<1>3. ASSUME NEW r \in Requests, CallerCancels(r) \/ AbortReaches(r)
      PROVE  AcceptedInv'
  BY <1>3 DEF CallerCancels, AbortReaches, serverVars
<1>4. CASE CloseCall \/ CloseDeadline \/ Close
  BY <1>4 DEF CloseCall, CloseDeadline, Close, LoopShutdown, DrainAborts,
              CloseReturn, clientVars, serverVars
<1>5. ASSUME NEW m \in wire, Server(m) PROVE AcceptedInv'
  BY <1>5 DEF Server, ServerClaims, ServerQueues, ServerFails, clientVars
<1>6. CASE Terminated \/ UNCHANGED vars
  BY <1>6 DEF Terminated, vars, clientVars, serverVars
<1> QED BY <1>1, <1>2, <1>3, <1>4, <1>5, <1>6 DEF Next

(* Send returns a result only when the server has queued the email, for    *)
(* this call or for one with the same IdempotencyKey.                      *)
THEOREM ResultMeansQueued == Spec => []SuccessMeansQueued
<1>1. Init => AcceptedInv
  BY DEF Init, AcceptedInv
<1>2. TypeOK /\ AcceptedInv /\ [Next]_vars => AcceptedInv'
  BY AcceptedStep
<1>3. TypeOK /\ KeysInv /\ AcceptedInv => SuccessMeansQueued
  BY DEF TypeOK, KeysInv, AcceptedInv, SuccessMeansQueued, KeyOf, Attempts
<1> QED BY <1>1, <1>2, <1>3, TypeCorrect, KeysInvariant, PTL DEF Spec

--------------------------------------------------------------------------
(* Close.                                                                  *)

\* The requests that run are those that are counted, the door is closed as
\* soon as Close has begun, and only an expired drain aborts.
CloseInv ==
  /\ \A r \in Requests : pc[r] \in Running <=> r \in inFlight
  /\ closer # "open" => closed
  /\ closer \in {"nil", "timeout"} => inFlight = {}
  /\ aborted => closer \in {"abort", "timeout"}
  /\ \A r \in Requests : ended[r] = "close" => aborted

LEMMA CloseStep ==
  ASSUME TypeOK, CloseInv, [Next]_vars
  PROVE  CloseInv'
<1> USE DEF CloseInv, TypeOK, Goto, Running
<1>1. ASSUME NEW r \in Requests, Start(r) PROVE CloseInv'
  BY <1>1 DEF Start, closeVars
<1>2. ASSUME NEW r \in Requests, Request(r) /\ ~Finish(r) PROVE CloseInv'
  <2>1. UNCHANGED <<inFlight, ended, closed, closer, aborted>>
    BY <1>2 DEF Request, Do, Attempt, Answered, CutOff, AttemptFails, RetryDelay,
                RetryTimer, RetryInterrupted, closeVars
  <2>2. \A d \in Requests : d # r => pc'[d] = pc[d]
    BY <1>2 DEF Request, Do, Attempt, Answered, CutOff, AttemptFails, RetryDelay,
                RetryTimer, RetryInterrupted
  <2>3. pc[r] \in Running /\ pc'[r] \in Running
    BY <1>2 DEF Request, Do, Attempt, Answered, CutOff, AttemptFails, RetryDelay,
                RetryTimer, RetryInterrupted
  <2> QED BY <2>1, <2>2, <2>3
<1>3. ASSUME NEW r \in Requests, Finish(r) PROVE CloseInv'
  BY <1>3 DEF Finish, closeVars
<1>4. ASSUME NEW r \in Requests, CallerCancels(r) \/ AbortReaches(r)
      PROVE  CloseInv'
  BY <1>4 DEF CallerCancels, AbortReaches, closeVars
<1>5. CASE CloseCall \/ CloseDeadline \/ LoopShutdown
  <2>1. CASE CloseCall
    BY <2>1 DEF CloseCall, clientVars
  <2>2. CASE CloseDeadline
    BY <2>2 DEF CloseDeadline, clientVars
  <2>3. CASE LoopShutdown
    BY <2>3 DEF LoopShutdown, clientVars
  <2> QED BY <1>5, <2>1, <2>2, <2>3
<1>6. CASE DrainAborts
  BY <1>6 DEF DrainAborts, clientVars
<1>7. CASE CloseReturn
  BY <1>7 DEF CloseReturn, clientVars
<1>8. ASSUME NEW m \in wire, Server(m) PROVE CloseInv'
  BY <1>8 DEF Server, ServerClaims, ServerQueues, ServerFails, clientVars, closeVars
<1>9. CASE Terminated \/ UNCHANGED vars
  BY <1>9 DEF Terminated, vars, clientVars, closeVars
<1> QED
  BY <1>1, <1>2, <1>3, <1>4, <1>5, <1>6, <1>7, <1>8, <1>9 DEF Next, Close

LEMMA CloseInvariant == Spec => []CloseInv
<1>1. Init => CloseInv
  BY DEF Init, CloseInv, Running
<1>2. TypeOK /\ CloseInv /\ [Next]_vars => CloseInv'
  BY CloseStep
<1> QED BY <1>1, <1>2, TypeCorrect, PTL DEF Spec

(* When Close has returned no request runs and none ever will.             *)
THEOREM ClosedIsQuiet == Spec => []NothingRunsAfterClose
<1>1. CloseInv => NothingRunsAfterClose
  BY DEF CloseInv, NothingRunsAfterClose
<1> QED BY <1>1, CloseInvariant, PTL

(* A Close that returns nil aborted no request.                            *)
THEOREM NilMeansNothingAborted == Spec => []CleanCloseAbortsNothing
<1>1. CloseInv => CleanCloseAbortsNothing
  BY DEF CloseInv, CleanCloseAbortsNothing
<1> QED BY <1>1, CloseInvariant, PTL

(* Once drain waits no request joins those it waits for.                   *)
THEOREM DrainOnlyShrinks == Spec => NobodyJoinsTheDrain
<1>1. ASSUME CloseInv, [Next]_vars, closer \in {"drain", "abort"}
      PROVE  inFlight' \subseteq inFlight
  <2>1. closed
    BY <1>1 DEF CloseInv
  <2>2. ASSUME NEW r \in Requests, Start(r) \/ Request(r)
        PROVE  inFlight' \subseteq inFlight
    BY <2>1, <2>2 DEF Start, Request, Do, Attempt, Answered, CutOff, AttemptFails,
                      RetryDelay, RetryTimer, RetryInterrupted, Finish
  <2>3. ASSUME NEW r \in Requests, CallerCancels(r) \/ AbortReaches(r)
        PROVE  inFlight' \subseteq inFlight
    BY <2>3 DEF CallerCancels, AbortReaches
  <2>4. CASE CloseCall \/ CloseDeadline \/ Close
    BY <2>4 DEF CloseCall, CloseDeadline, Close, LoopShutdown, DrainAborts,
                CloseReturn, clientVars
  <2>5. ASSUME NEW m \in wire, Server(m) PROVE inFlight' \subseteq inFlight
    BY <2>5 DEF Server, ServerClaims, ServerQueues, ServerFails, clientVars
  <2>6. CASE Terminated \/ UNCHANGED vars
    BY <2>6 DEF Terminated, vars, clientVars
  <2> QED BY <1>1, <2>2, <2>3, <2>4, <2>5, <2>6 DEF Next
<1>2. CloseInv /\ [Next]_vars
        => [(closer \in {"drain", "abort"}) => inFlight' \subseteq inFlight]_vars
  BY <1>1
<1> QED BY <1>2, CloseInvariant, PTL DEF Spec, NobodyJoinsTheDrain
=============================================================================
