--------------------------- MODULE DeliveryPanic ----------------------------
(***************************************************************************)
(* Delivery with an application whose Callback.Success may panic.  The     *)
(* upload goroutine recovers, reports the whole batch it was started with  *)
(* as failed, and ends the usual way.  (A Callback.Failure that panics     *)
(* ends the program, on the loop and on the upload goroutines.)            *)
(***************************************************************************)
EXTENDS Delivery

VARIABLE contents      \* batch.msgs of each delivery, fixed by sendBatch

panicVars == <<vars, contents>>

\* Mutant: the recovered batch is not reported.
PanicInSuccessUnreported(d) ==
  /\ phase[d] = "upload"
  /\ \E S \in SUBSET pending[d] \ {{}} :
       /\ acked' = acked \cup S
       /\ Finish(d, S, {})
  /\ UNCHANGED <<enq, queueVars, loopVars, chanVars, inFlight, doneVars,
                 flushVars, closeVars, absorbed>>

\* The server took the messages S (legacy: all of them); Success runs for S
\* and panics at one of them.  A v1 response may have failed F before that.
\* Then Failure runs for every message of the batch.
PanicInSuccess(d) ==
  /\ phase[d] = "upload"
  /\ \E S \in SUBSET pending[d] \ {{}} :
     \E F \in IF CaptureV1 THEN SUBSET (pending[d] \ S) ELSE {{}} :
       /\ acked' = acked \cup (IF CaptureV1 THEN S ELSE pending[d])
       /\ successes' = [m \in Messages |-> successes[m] + (IF m \in S THEN 1 ELSE 0)]
       /\ failures' = [m \in Messages |->
                         failures[m] + (IF m \in F THEN 1 ELSE 0)
                                     + (IF m \in contents[d] THEN 1 ELSE 0)]
  /\ pending' = [pending EXCEPT ![d] = {}]
  /\ attempt' = [attempt EXCEPT ![d] = 0]
  /\ phase' = [phase EXCEPT ![d] = "exit"]
  /\ UNCHANGED <<enq, queueVars, loopVars, chanVars, inFlight, doneVars,
                 flushVars, closeVars, absorbed>>

PanicInit == Init /\ contents = [d \in Deliveries |-> {}]

PanicNext ==
  /\ Next \/ \E d \in Deliveries : PanicInSuccess(d)
  /\ contents' = [d \in Deliveries |->
                    IF phase'[d] = "submit" THEN pending'[d] ELSE contents[d]]

PanicSpec == PanicInit /\ [][PanicNext]_panicVars

=============================================================================
