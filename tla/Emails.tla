------------------------------- MODULE Emails -------------------------------
(***************************************************************************)
(* The email client: Emails.Send and Emails.Get with their retries, and    *)
(* the part of Close that waits for them.  Every request runs in the       *)
(* goroutine of its caller; Close shuts the door for new ones, waits for   *)
(* those inside, and aborts them when its deadline passes.                 *)
(*                                                                         *)
(* The network and the server are external.  A message the client sent     *)
(* may arrive late, more than once (net/http replays a POST that carries   *)
(* an Idempotency-Key) or never, and the client may have stopped waiting   *)
(* for it.  The server claims an idempotency key while it works on it.     *)
(* An attempt is named by its request and its number, and bodies, headers  *)
(* and delays are left out but for the key.                                *)
(***************************************************************************)
EXTENDS Integers

CONSTANTS
  Requests,     \* calls of Send and Get
  Sends,        \* those of Send
  Keyed,        \* sends that carry one and the same IdempotencyKey
  SharedKey,    \* that key
  NoKey,        \* of a Get
  MaxRetries    \* EmailRequestMaxRetries, or the send's own

ASSUME RequestsAssumption == Keyed \subseteq Sends /\ Sends \subseteq Requests
ASSUME KeysAssumption == SharedKey \notin Requests /\ NoKey \notin Requests \cup {SharedKey}
ASSUME RetriesAssumption == MaxRetries \in 0..9

VARIABLES
  pc,          \* where each request is
  attempt,     \* n of the attempt loop
  lastError,   \* error of the last attempt
  ended,       \* what ended the request's ctx
  inFlight,    \* requests counted in s.inFlight
  closed,      \* s.closed
  aborted,     \* s.ctx has ended
  closer,      \* the CloseWithContext call
  deadline,    \* the context of Close is done
  loopTimeout, \* Close gave up on the delivery loop
  wire,        \* attempts the client sent
  working,     \* attempts whose key the server has claimed
  queued       \* attempts that made the server queue an email

clientVars == <<pc, attempt, lastError, ended, inFlight>>
closeVars  == <<closed, aborted, closer, deadline, loopTimeout>>
serverVars == <<working, queued>>
vars == <<clientVars, closeVars, wire, serverVars>>

Attempts == [from : Requests, try : 0..MaxRetries, key : Requests \cup {SharedKey, NoKey}]

\* What the server says: accepted; the key is in flight; a rate limit or an
\* outage that waiting can fix; the same with a Retry-After beyond the longest
\* wait; or no.
Replies == {"accepted", "inFlight", "busy", "later", "refused"}
Errors  == {"network", "cutOffLater", "unusable"} \cup (Replies \ {"accepted"})

\* "attempt": about to send; "sent": in http.Do; "decide": retryDelay is next;
\* "wait": retry timer; then the call has settled.
Places  == {"idle", "attempt", "sent", "decide", "wait", "ok", "failed",
            "returnedOk", "returnedError", "clientClosed"}
Running == {"attempt", "sent", "decide", "wait", "ok", "failed"}

Init ==
  /\ pc = [r \in Requests |-> "idle"]
  /\ attempt = [r \in Requests |-> 0]
  /\ lastError = [r \in Requests |-> "none"]
  /\ ended = [r \in Requests |-> "no"]
  /\ inFlight = {} /\ closed = FALSE /\ aborted = FALSE
  /\ closer = "open" /\ deadline = FALSE /\ loopTimeout = FALSE
  /\ wire = {} /\ working = {} /\ queued = {}

Goto(r, where) == pc' = [pc EXCEPT ![r] = where]

\* What the server can answer to m when the client reads it.  Queued emails
\* stay queued and a server can always decline, so an answer that was under
\* way for a while is among these; "inFlight" late means no more than "busy".
Answers(m) ==
  {"busy", "later", "refused"}
  \cup (IF m.key = NoKey \/ \E q \in queued : q.key = m.key THEN {"accepted"} ELSE {})
  \cup (IF \E w \in working : w.key = m.key THEN {"inFlight"} ELSE {})

--------------------------------------------------------------------------
(* A request.                                                              *)

\* Mutant: closed is looked at without the mutex, long before the Add.
StartUnguarded(r) ==
  /\ pc[r] = "idle"
  /\ Goto(r, "attempt")
  /\ inFlight' = inFlight \cup {r}
  /\ UNCHANGED <<attempt, lastError, ended, closeVars, wire, serverVars>>

\* start: under the mutex, refuse or join the requests in flight.
Start(r) ==
  /\ pc[r] = "idle"
  /\ \/ /\ closed /\ Goto(r, "clientClosed") /\ UNCHANGED inFlight
     \/ /\ ~closed /\ Goto(r, "attempt")
        /\ inFlight' = inFlight \cup {r}
  /\ UNCHANGED <<attempt, lastError, ended, closeVars, wire, serverVars>>

\* Mutant: each attempt makes its own key.
MessageKeyPerAttempt(r) ==
  [from |-> r, try |-> attempt[r],
   key |-> IF r \notin Sends THEN NoKey
           ELSE IF attempt[r] = 0 THEN r ELSE SharedKey]

\* The message of the current attempt.  A send without IdempotencyKey has a
\* UUID of its own, made before the first attempt.
Message(r) ==
  [from |-> r, try |-> attempt[r],
   key |-> IF r \notin Sends THEN NoKey ELSE IF r \in Keyed THEN SharedKey ELSE r]

\* do, up to http.Do; with an ended ctx nothing leaves the client.
Attempt(r) ==
  /\ pc[r] = "attempt"
  /\ \/ /\ ended[r] = "no"
        /\ wire' = wire \cup {Message(r)}
        /\ Goto(r, "sent")
        /\ UNCHANGED lastError
     \/ /\ ended[r] # "no"
        /\ Goto(r, "decide")
        /\ lastError' = [lastError EXCEPT ![r] = "network"]
        /\ UNCHANGED wire
  /\ UNCHANGED <<attempt, ended, inFlight, closeVars, serverVars>>

\* Mutant: a key in flight is taken for a key that was accepted.
AnsweredInFlightIsAccepted(r) ==
  /\ pc[r] = "sent"
  /\ \E reply \in Answers(Message(r)) :
       /\ Goto(r, IF reply \in {"accepted", "inFlight"} THEN "ok" ELSE "decide")
       /\ lastError' = [lastError EXCEPT ![r] =
                          IF reply = "accepted" THEN "none" ELSE reply]
  /\ UNCHANGED <<attempt, ended, inFlight, closeVars, wire, serverVars>>

\* do returns PostHog's answer: a 2xx ends the call, and without message_id it
\* ends it with an error.
Answered(r) ==
  /\ pc[r] = "sent"
  /\ \E reply \in Answers(Message(r)) :
       /\ \/ /\ reply = "accepted" /\ Goto(r, "ok")
             /\ lastError' = [lastError EXCEPT ![r] = "none"]
          \/ /\ reply = "accepted" /\ Goto(r, "failed")
             /\ lastError' = [lastError EXCEPT ![r] = "unusable"]
          \/ /\ reply # "accepted" /\ Goto(r, "decide")
             /\ lastError' = [lastError EXCEPT ![r] = reply]
  /\ UNCHANGED <<attempt, ended, inFlight, closeVars, wire, serverVars>>

\* The answer breaks off mid-body: its status says nothing, a Retry-After
\* among its headers still counts.
CutOff(r) ==
  /\ pc[r] = "sent"
  /\ \E reply \in Answers(Message(r)) :
       /\ lastError' = [lastError EXCEPT ![r] =
                          IF reply = "later" THEN "cutOffLater" ELSE "network"]
  /\ Goto(r, "decide")
  /\ UNCHANGED <<attempt, ended, inFlight, closeVars, wire, serverVars>>

\* No answer: a transport error, EmailRequestTimeout, or the end of the ctx.
AttemptFails(r) ==
  /\ pc[r] = "sent"
  /\ lastError' = [lastError EXCEPT ![r] = "network"]
  /\ Goto(r, "decide")
  /\ UNCHANGED <<attempt, ended, inFlight, closeVars, wire, serverVars>>

\* isRetryable and asksForALongerWaitThanWeRetry.
IsRetryable(error) == error \in {"network", "inFlight", "busy"}

RetryDelay(r) ==
  /\ pc[r] = "decide"
  /\ Goto(r, IF attempt[r] >= MaxRetries \/ ~IsRetryable(lastError[r])
             THEN "failed" ELSE "wait")
  /\ UNCHANGED <<attempt, lastError, ended, inFlight, closeVars, wire, serverVars>>

\* Mutant: the loop does not count.
RetryTimerUncounted(r) ==
  /\ pc[r] = "wait"
  /\ Goto(r, "attempt")
  /\ UNCHANGED <<attempt, lastError, ended, inFlight, closeVars, wire, serverVars>>

\* The select takes the timer, maybe although the ctx has ended too.
RetryTimer(r) ==
  /\ pc[r] = "wait"
  /\ attempt' = [attempt EXCEPT ![r] = @ + 1]
  /\ Goto(r, "attempt")
  /\ UNCHANGED <<lastError, ended, inFlight, closeVars, wire, serverVars>>

RetryInterrupted(r) ==
  /\ pc[r] = "wait" /\ ended[r] # "no"
  /\ Goto(r, "failed")
  /\ UNCHANGED <<attempt, lastError, ended, inFlight, closeVars, wire, serverVars>>

\* The deferred finish, and the call returns.
Finish(r) ==
  /\ pc[r] \in {"ok", "failed"}
  /\ Goto(r, IF pc[r] = "ok" THEN "returnedOk" ELSE "returnedError")
  /\ inFlight' = inFlight \ {r}
  /\ UNCHANGED <<attempt, lastError, ended, closeVars, wire, serverVars>>

\* The caller's ctx ends, and the request's with it.
CallerCancels(r) ==
  /\ pc[r] \in Running /\ ended[r] = "no"
  /\ ended' = [ended EXCEPT ![r] = "caller"]
  /\ UNCHANGED <<pc, attempt, lastError, inFlight, closeVars, wire, serverVars>>

\* context.AfterFunc(s.ctx, cancel) runs, in a goroutine of its own.
AbortReaches(r) ==
  /\ aborted /\ pc[r] \in Running /\ ended[r] = "no"
  /\ ended' = [ended EXCEPT ![r] = "close"]
  /\ UNCHANGED <<pc, attempt, lastError, inFlight, closeVars, wire, serverVars>>

--------------------------------------------------------------------------
(* Close.                                                                  *)

CloseCall ==
  /\ closer = "open"
  /\ closer' = "loop" /\ closed' = TRUE
  /\ UNCHANGED <<clientVars, aborted, deadline, loopTimeout, wire, serverVars>>

CloseDeadline ==
  /\ closer \notin {"open", "nil", "timeout"} /\ ~deadline
  /\ deadline' = TRUE
  /\ UNCHANGED <<clientVars, closed, aborted, closer, loopTimeout, wire, serverVars>>

\* The delivery loop has shut down, in time or after its work was cancelled.
LoopShutdown ==
  /\ closer = "loop"
  /\ loopTimeout' \in {FALSE, deadline}
  /\ closer' = "drain"
  /\ UNCHANGED <<clientVars, closed, aborted, deadline, wire, serverVars>>

\* drain: the deadline passes first, the requests are aborted.
DrainAborts ==
  /\ closer = "drain" /\ deadline
  /\ aborted' = TRUE /\ closer' = "abort"
  /\ UNCHANGED <<clientVars, closed, deadline, loopTimeout, wire, serverVars>>

\* Every request has settled.
CloseReturn ==
  /\ closer \in {"drain", "abort"} /\ inFlight = {}
  /\ closer' = IF closer = "abort" \/ loopTimeout THEN "timeout" ELSE "nil"
  /\ UNCHANGED <<clientVars, closed, aborted, deadline, loopTimeout, wire, serverVars>>

--------------------------------------------------------------------------
(* External: the server.  It may take a message late and more than once.   *)

\* Nobody has claimed the key of m, or it is free again.
ServerClaims(m) ==
  /\ m.key # NoKey /\ \A w \in working \cup queued : w.key # m.key
  /\ working' = working \cup {m}
  /\ UNCHANGED <<clientVars, closeVars, wire, queued>>

ServerQueues(m) ==
  /\ m \in working
  /\ working' = working \ {m}
  /\ queued' = queued \cup {m}
  /\ UNCHANGED <<clientVars, closeVars, wire>>

\* The work fails and the key is free again.
ServerFails(m) ==
  /\ m \in working
  /\ working' = working \ {m}
  /\ UNCHANGED <<clientVars, closeVars, wire, queued>>

Server(m) == ServerClaims(m) \/ ServerQueues(m) \/ ServerFails(m)

--------------------------------------------------------------------------

Do(r) == Answered(r) \/ CutOff(r) \/ AttemptFails(r)

Request(r) == Attempt(r) \/ Do(r) \/ RetryDelay(r) \/ RetryTimer(r)
              \/ RetryInterrupted(r) \/ Finish(r)

Close == LoopShutdown \/ DrainAborts \/ CloseReturn

Terminated ==
  /\ closer \in {"nil", "timeout"} /\ \A r \in Requests : pc[r] \notin Running
  /\ UNCHANGED vars

Next ==
  \/ \E r \in Requests : Start(r) \/ Request(r) \/ CallerCancels(r) \/ AbortReaches(r)
  \/ CloseCall \/ CloseDeadline \/ Close
  \/ \E m \in wire : Server(m)
  \/ Terminated

Spec == Init /\ [][Next]_vars

\* The goroutine of a request runs, and an attempt ends at the latest with
\* EmailRequestTimeout.  The server owes nothing.
Fairness ==
  /\ \A r \in Requests : WF_vars(Request(r))
  /\ WF_vars(Close)

FairSpec == Spec /\ Fairness

--------------------------------------------------------------------------
(* Properties.                                                             *)

TypeOK ==
  /\ pc \in [Requests -> Places]
  /\ attempt \in [Requests -> 0..MaxRetries]
  /\ lastError \in [Requests -> Errors \cup {"none"}]
  /\ ended \in [Requests -> {"no", "caller", "close"}]
  /\ inFlight \subseteq Requests
  /\ closed \in BOOLEAN /\ aborted \in BOOLEAN
  /\ deadline \in BOOLEAN /\ loopTimeout \in BOOLEAN
  /\ closer \in {"open", "loop", "drain", "abort", "nil", "timeout"}
  /\ wire \subseteq Attempts /\ working \subseteq wire /\ queued \subseteq wire

\* However often a send is retried, times out, is answered late or replayed by
\* the transport, it makes the server queue one email at most; sends that
\* share an IdempotencyKey make it queue one together.
QueuedAtMostOnce ==
  \A p, q \in queued :
    p.from = q.from \/ {p.from, q.from} \subseteq Keyed => p = q

\* Send returns a result only for an email the server has queued, be it for
\* an earlier attempt of the call or for another call with the same key.
SuccessMeansQueued ==
  \A r \in Sends : pc[r] \in {"ok", "returnedOk"} =>
    \E q \in queued : q.from = r \/ {q.from, r} \subseteq Keyed

\* Once Close has returned no request runs, whether it was admitted before,
\* aborted, or came in while Close was waiting.
NothingRunsAfterClose ==
  closer \in {"nil", "timeout"} => \A r \in Requests : pc[r] \notin Running

\* Close returns nil only if it aborted no request.
CleanCloseAbortsNothing ==
  closer = "nil" => \A r \in Requests : ended[r] # "close"

\* Once Close waits for the requests in flight none joins them (the WaitGroup
\* is not added to while it is waited for).
NobodyJoinsTheDrain ==
  [][(closer \in {"drain", "abort"}) => inFlight' \subseteq inFlight]_vars

\* Every call of Send and Get returns, although the server never answers.
RequestsReturn ==
  \A r \in Requests : pc[r] \in Running ~> pc[r] \in {"returnedOk", "returnedError"}
=============================================================================
