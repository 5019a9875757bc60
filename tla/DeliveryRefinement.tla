------------------------- MODULE DeliveryRefinement -------------------------
(* The pipeline of Delivery implements DeliveryContract.                   *)
EXTENDS Delivery

\* Where the application sees a message: accepted messages are pending until
\* a callback ran for them or v1 took them in silence.
StageOf(m) ==
  IF m \in absorbed THEN "taken"
  ELSE IF Settled(m) THEN "reported"
  ELSE IF enq[m] = "accepted" THEN "pending"
  ELSE IF enq[m] \in {"discarded", "ErrClosed", "ErrQueueFull"} THEN "refused"
  ELSE "new"

ClosingOf ==
  IF \E k \in Closers : closer[k] = "nil" THEN "clean"
  ELSE IF \E k \in Closers : closer[k] = "timeout" THEN "late"
  ELSE IF closed THEN "closing"
  ELSE "open"

Contract == INSTANCE DeliveryContract
              WITH stage <- [m \in Messages |-> StageOf(m)],
                   closing <- ClosingOf

\* Every behaviour of the pipeline is one of the contract: goroutines, queues,
\* retries, Flush and shutdown add no outcome the contract does not allow.
ImplementsContract == Contract!Spec
=============================================================================
