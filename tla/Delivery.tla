------------------------------ MODULE Delivery ------------------------------
(***************************************************************************)
(* The event delivery pipeline of the client: Enqueue writes messages to   *)
(* the bounded channel msgs; one goroutine (loop) collects them into       *)
(* batches and hands each batch to the bounded channel batches; for every  *)
(* batch handed over, one goroutine (processBatch) takes a batch from the  *)
(* channel and uploads it with retries; Flush and Close synchronise with   *)
(* all of them.  Callers, the loop, the upload goroutines, Flush callers   *)
(* and Close callers interleave freely.                                    *)
(*                                                                         *)
(* One message stands for one Enqueue call.  The order of messages inside  *)
(* a batch only shapes the request body, so a batch is a set; the order of *)
(* the two channels is kept.  A *delivery (with the goroutine that serves  *)
(* it) is a member of Deliveries.                                          *)
(***************************************************************************)
EXTENDS Integers, Sequences, FiniteSets

CONSTANTS
  Messages,              \* one per Enqueue call
  Flushers,              \* one per Flush call
  Closers,               \* one per Close call
  Deliveries,            \* identities of the *delivery values sendBatch makes
  None,                  \* the loop holds no message / serves no Flush
  Size,                  \* serialized size of each message
  Discards,              \* messages that are invalid or that BeforeSend may drop
  Unserializable,        \* messages that cannot be serialized
  MaxMessageBytes,       \* maxMessageBytes
  MaxBatchBytes,         \* maxBatchBytes
  BatchSize,             \* Config.BatchSize
  MaxQueueSize,          \* capacity of msgs
  MaxEnqueuedRequests,   \* capacity of batches
  MaxAttempts,           \* Config.maxAttempts
  CaptureV1,             \* Config.CaptureMode = CaptureModeAnalyticsV1
  NonBlockingSubmit      \* Config.BatchSubmitTimeout < 0

ASSUME NoneAssumption == None \notin Messages /\ None \notin Flushers
ASSUME MessageAssumption ==
  /\ IsFiniteSet(Messages)
  /\ Size \in [Messages -> Nat]
  /\ Discards \subseteq Messages /\ Unserializable \subseteq Messages
ASSUME LimitsAssumption ==
  /\ MaxMessageBytes \in Nat /\ MaxBatchBytes \in Nat
  /\ BatchSize \in Nat \ {0} /\ MaxAttempts \in Nat \ {0}
  /\ MaxEnqueuedRequests \in Nat \ {0}
  /\ MaxQueueSize \in Nat /\ MaxQueueSize >= BatchSize
ASSUME ModeAssumption == CaptureV1 \in BOOLEAN /\ NonBlockingSubmit \in BOOLEAN
\* Every batch holds a message no other batch holds, so identities never run
\* out when there is one for each message.
ASSUME DeliveriesAssumption == IsFiniteSet(Deliveries)

VARIABLES
  enq,            \* progress and result of each Enqueue call
  msgs,           \* the channel c.msgs
  msgsClosed,     \* close(c.msgs) has run
  \* ---- the loop goroutine ----
  lpc,            \* where the loop goroutine is
  held,           \* the message processMessage is working on
  batch,          \* batchData / batchMsgs / batchUuids
  batchSize,      \* bytes in batch
  left,           \* messages a Flush request still has to drain
  serving,        \* the Flush call being served
  \* ---- batches and their goroutines ----
  batches,        \* the channel c.batches
  batchesClosed,  \* close(c.batches) has run
  receivers,      \* processBatch goroutines that have not received yet
  phase,          \* where the goroutine of a delivery is
  pending,        \* messages of the delivery that still need an outcome
  attempt,        \* upload attempts begun
  inFlight,       \* c.inFlight
  \* ---- completion signals, guarded by deliveryMu ----
  deliveries,     \* keys of c.deliveries
  gen,            \* identifies the done channel a delivery holds now
  retrying,       \* delivery.retrying
  closedDone,     \* done channels (delivery, generation) that are closed
  \* ---- Flush and Close ----
  flush,          \* progress and result of each Flush call
  waitFor,        \* done channels the Flush call waits for
  before,         \* history: messages accepted before the Flush call
  closed, quit, cancelled, shutdown,
  closer,         \* progress and result of each Close call
  \* ---- what the application and the server see ----
  successes,      \* number of Callback.Success calls per message
  failures,       \* number of Callback.Failure calls per message
  absorbed,       \* v1 events the response did not mention (no callback)
  acked           \* messages the server has acknowledged

queueVars  == <<msgs, msgsClosed>>
loopVars   == <<lpc, held, batch, batchSize, left, serving>>
chanVars   == <<batches, batchesClosed, receivers>>
workVars   == <<phase, pending, attempt, inFlight>>
doneVars   == <<deliveries, gen, retrying, closedDone>>
flushVars  == <<flush, waitFor, before>>
closeVars  == <<closed, quit, cancelled, shutdown, closer>>
reportVars == <<successes, failures, absorbed, acked>>
vars == <<enq, queueVars, loopVars, chanVars, workVars, doneVars, flushVars,
          closeVars, reportVars>>

EnqStates   == {"new", "preparing", "accepted", "discarded", "unserializable",
                "ErrClosed", "ErrQueueFull"}
LoopStates  == {"select", "flush", "drain", "append", "submit", "reply",
                "await", "return", "closeBatches", "stopped"}
PhaseStates == {"none", "submit", "queued", "ready", "upload", "defer",
                "backoff", "exit", "done"}
FlushStates == {"idle", "requesting", "awaiting", "waiting", "nil",
                "ctxErr", "ErrClosed"}
CloseStates == {"idle", "marked", "waiting", "cancelled", "blocked", "nil",
                "timeout", "ErrClosed"}

\* State a new client starts in, with its loop goroutine at the select.
Init ==
  /\ enq = [m \in Messages |-> "new"]
  /\ msgs = << >> /\ msgsClosed = FALSE
  /\ lpc = "select"
  /\ held = None /\ batch = {} /\ batchSize = 0 /\ left = 0 /\ serving = None
  /\ batches = << >> /\ batchesClosed = FALSE /\ receivers = 0
  /\ phase = [d \in Deliveries |-> "none"]
  /\ pending = [d \in Deliveries |-> {}]
  /\ attempt = [d \in Deliveries |-> 0]
  /\ inFlight = 0
  /\ deliveries = {}
  /\ gen = [d \in Deliveries |-> 0]
  /\ retrying = [d \in Deliveries |-> FALSE]
  /\ closedDone = {}
  /\ flush = [f \in Flushers |-> "idle"]
  /\ waitFor = [f \in Flushers |-> {}]
  /\ before = [f \in Flushers |-> {}]
  /\ closed = FALSE /\ quit = FALSE /\ cancelled = FALSE /\ shutdown = FALSE
  /\ closer = [k \in Closers |-> "idle"]
  /\ successes = [m \in Messages |-> 0]
  /\ failures = [m \in Messages |-> 0]
  /\ absorbed = {} /\ acked = {}

Accepted == {m \in Messages : enq[m] = "accepted"}

\* The message has its outcome: a callback ran for it, or the capture-v1
\* response left it out and the client takes it as accepted.
Settled(m) == successes[m] > 0 \/ failures[m] > 0 \/ m \in absorbed

Queued == {msgs[i] : i \in 1..Len(msgs)}

--------------------------------------------------------------------------
(* Callbacks.                                                              *)

\* Callback.Success for each message of S and Callback.Failure for each of F.
Notify(S, F) ==
  /\ successes' = [m \in Messages |-> successes[m] + (IF m \in S THEN 1 ELSE 0)]
  /\ failures'  = [m \in Messages |-> failures[m] + (IF m \in F THEN 1 ELSE 0)]

--------------------------------------------------------------------------
(* Enqueue, on the caller's goroutine.  The closed flag and the channel    *)
(* are read at two different moments; BeforeSend and serialization run in  *)
(* between and touch no shared state.                                      *)

EnqueueCheckClosed(m) ==
  /\ enq[m] = "new"
  /\ enq' = [enq EXCEPT ![m] = IF closed THEN "ErrClosed" ELSE "preparing"]
  /\ UNCHANGED <<queueVars, loopVars, chanVars, workVars, doneVars, flushVars,
                 closeVars, reportVars>>

\* The message is invalid, or BeforeSend drops it: nothing is queued and no
\* callback runs.
EnqueueDiscard(m) ==
  /\ enq[m] = "preparing" /\ m \in Discards
  /\ enq' = [enq EXCEPT ![m] = "discarded"]
  /\ UNCHANGED <<queueVars, loopVars, chanVars, workVars, doneVars, flushVars,
                 closeVars, reportVars>>

\* Serialization fails: reported through Callback.Failure, Enqueue returns nil.
EnqueueUnserializable(m) ==
  /\ enq[m] = "preparing" /\ m \in Unserializable
  /\ enq' = [enq EXCEPT ![m] = "unserializable"]
  /\ Notify({}, {m})
  /\ UNCHANGED <<queueVars, loopVars, chanVars, workVars, doneVars, flushVars,
                 closeVars, absorbed, acked>>

\* sendPrepared: a non-blocking send on msgs; the panic a closed channel
\* raises is recovered into ErrClosed.
SendPrepared(m) ==
  /\ enq[m] = "preparing" /\ m \notin Discards \cup Unserializable
  /\ \/ /\ msgsClosed
        /\ enq' = [enq EXCEPT ![m] = "ErrClosed"]
        /\ UNCHANGED msgs
     \/ /\ ~msgsClosed /\ Len(msgs) < MaxQueueSize
        /\ enq' = [enq EXCEPT ![m] = "accepted"]
        /\ msgs' = Append(msgs, m)
     \/ /\ ~msgsClosed /\ Len(msgs) >= MaxQueueSize
        /\ enq' = [enq EXCEPT ![m] = "ErrQueueFull"]
        /\ UNCHANGED msgs
  /\ UNCHANGED <<msgsClosed, loopVars, chanVars, workVars, doneVars,
                 flushVars, closeVars, reportVars>>

--------------------------------------------------------------------------
(* Completion signals of a delivery (flush.go), each under deliveryMu.     *)

CurrentDone(d) == <<d, gen[d]>>

\* Mutant: the channel is replaced although nobody closed it.
BeginDeliveryAttemptAlwaysReplaces(d) ==
  /\ gen' = [gen EXCEPT ![d] = @ + 1]
  /\ retrying' = [retrying EXCEPT ![d] = FALSE]
  /\ UNCHANGED <<deliveries, closedDone>>

BeginDeliveryAttempt(d) ==
  /\ gen' = [gen EXCEPT ![d] = IF retrying[d] THEN @ + 1 ELSE @]
  /\ retrying' = [retrying EXCEPT ![d] = FALSE]
  /\ UNCHANGED <<deliveries, closedDone>>

DeferDeliveryRetry(d) ==
  /\ retrying' = [retrying EXCEPT ![d] = TRUE]
  /\ closedDone' = IF retrying[d] THEN closedDone
                                  ELSE closedDone \cup {CurrentDone(d)}
  /\ UNCHANGED <<deliveries, gen>>

\* Mutant: Flush callers are not told that the delivery ended.
CompleteDeliverySilently(d) ==
  /\ deliveries' = deliveries \ {d}
  /\ UNCHANGED <<gen, retrying, closedDone>>

CompleteDelivery(d) ==
  /\ deliveries' = deliveries \ {d}
  /\ closedDone' = IF retrying[d] THEN closedDone
                                  ELSE closedDone \cup {CurrentDone(d)}
  /\ UNCHANGED <<gen, retrying>>

--------------------------------------------------------------------------
(* sendBatch, on the loop goroutine.                                       *)

Fresh == CHOOSE d \in Deliveries : phase[d] = "none"

\* flushBatch up to the select of sendBatch: register a new delivery for the
\* messages B, count it, and wait for room in batches.  The loop's own batch
\* is reset here; the code resets it when sendBatch returns, and nothing
\* reads it in between.
FlushBatch(B) ==
  /\ \E d \in Deliveries : phase[d] = "none"
  /\ phase' = [phase EXCEPT ![Fresh] = "submit"]
  /\ pending' = [pending EXCEPT ![Fresh] = B]
  /\ deliveries' = deliveries \cup {Fresh}
  /\ inFlight' = inFlight + 1
  /\ batch' = {} /\ batchSize' = 0
  /\ lpc' = "submit"
  /\ UNCHANGED <<attempt, gen, retrying, closedDone>>

\* The statement processMessage returns to: the drain of a Flush request, the
\* drain after close(c.msgs), or the select.
AfterMessage ==
  IF serving # None THEN "flush" ELSE IF msgsClosed THEN "drain" ELSE "select"

\* The statement that runs when sendBatch has returned.
AfterFlush == IF held # None THEN "append" ELSE AfterMessage

\* flushBatch with nothing collected returns at once.
FlushIfAny(next) ==
  \/ batch # {} /\ FlushBatch(batch)
  \/ batch = {} /\ lpc' = next
     /\ UNCHANGED <<batch, batchSize, workVars, doneVars>>

SubmitAccepted(d) ==
  /\ lpc = "submit" /\ phase[d] = "submit"
  /\ Len(batches) < MaxEnqueuedRequests
  /\ batches' = Append(batches, d)
  /\ receivers' = receivers + 1
  /\ phase' = [phase EXCEPT ![d] = "queued"]
  /\ lpc' = AfterFlush
  /\ UNCHANGED <<enq, queueVars, held, batch, batchSize, left,
                 serving, batchesClosed, pending, attempt, inFlight, doneVars,
                 flushVars, closeVars, reportVars>>

\* The submit timer fires, or the channel is full and BatchSubmitTimeout is
\* negative: the batch is shed with ErrTooManyRequests.
SubmitRefused(d) ==
  /\ lpc = "submit" /\ phase[d] = "submit"
  /\ NonBlockingSubmit => Len(batches) >= MaxEnqueuedRequests
  /\ inFlight' = inFlight - 1
  /\ CompleteDelivery(d)
  /\ Notify({}, pending[d])
  /\ phase' = [phase EXCEPT ![d] = "done"]
  /\ pending' = [pending EXCEPT ![d] = {}]
  /\ lpc' = AfterFlush
  /\ UNCHANGED <<enq, queueVars, held, batch, batchSize, left,
                 serving, chanVars, attempt, flushVars, closeVars, absorbed,
                 acked>>

--------------------------------------------------------------------------
(* The loop goroutine.                                                     *)

\* processMessage, first half: reject an oversized message, or flush the
\* collected batch when the message would not fit into it any more.
ProcessMessage(m) ==
  /\ msgs' = Tail(msgs)
  /\ IF Size[m] > MaxMessageBytes
     THEN /\ Notify({}, {m})
          /\ lpc' = AfterMessage
          /\ UNCHANGED <<held, batch, batchSize, workVars, doneVars>>
     ELSE /\ held' = m
          /\ UNCHANGED <<successes, failures>>
          /\ IF batchSize + Size[m] > MaxBatchBytes
             THEN FlushIfAny("append")
             ELSE /\ lpc' = "append"
                  /\ UNCHANGED <<batch, batchSize, workVars, doneVars>>
  /\ UNCHANGED <<enq, msgsClosed, serving, chanVars, flushVars, closeVars,
                 absorbed, acked>>

\* processMessage, second half: append, and flush a full batch.
AppendMessage ==
  /\ lpc = "append"
  /\ held' = None
  /\ LET B == batch \cup {held}
     IN  IF Cardinality(B) >= BatchSize
         THEN FlushBatch(B)
         ELSE /\ batch' = B
              /\ batchSize' = batchSize + Size[held]
              /\ lpc' = AfterMessage
              /\ UNCHANGED <<workVars, doneVars>>
  /\ UNCHANGED <<enq, queueVars, left, serving, chanVars, flushVars,
                 closeVars, reportVars>>

LoopReceive ==
  /\ lpc = "select" /\ msgs # << >> /\ ~msgsClosed
  /\ ProcessMessage(Head(msgs))
  /\ UNCHANGED left

\* Mutant: the interval only flushes full batches.
LoopTickFullOnly ==
  /\ lpc = "select" /\ Cardinality(batch) >= BatchSize
  /\ FlushBatch(batch)
  /\ UNCHANGED <<enq, queueVars, held, left, serving, chanVars,
                 flushVars, closeVars, reportVars>>

LoopTick ==
  /\ lpc = "select" /\ batch # {}
  /\ FlushBatch(batch)
  /\ UNCHANGED <<enq, queueVars, held, left, serving, chanVars,
                 flushVars, closeVars, reportVars>>

\* Mutant: only the batch is flushed, not the queue before it.
LoopFlushRequestNoDrain(f) ==
  /\ lpc = "select" /\ flush[f] = "requesting"
  /\ flush' = [flush EXCEPT ![f] = "awaiting"]
  /\ serving' = f
  /\ left' = 0
  /\ lpc' = "flush"
  /\ UNCHANGED <<enq, queueVars, held, batch, batchSize, chanVars,
                 workVars, doneVars, waitFor, before, closeVars, reportVars>>

\* A Flush request meets the loop on the unbuffered channel flushRequests.
LoopFlushRequest(f) ==
  /\ lpc = "select" /\ flush[f] = "requesting"
  /\ flush' = [flush EXCEPT ![f] = "awaiting"]
  /\ serving' = f
  /\ left' = Len(msgs)
  /\ lpc' = "flush"
  /\ UNCHANGED <<enq, queueVars, held, batch, batchSize, chanVars,
                 workVars, doneVars, waitFor, before, closeVars, reportVars>>

LoopFlushDrain ==
  /\ lpc = "flush" /\ left > 0 /\ msgs # << >>
  /\ left' = left - 1
  /\ ProcessMessage(Head(msgs))

LoopFlushRest ==
  /\ lpc = "flush" /\ left = 0
  /\ FlushIfAny("reply")
  /\ UNCHANGED <<enq, queueVars, held, left, serving, chanVars,
                 flushVars, closeVars, reportVars>>

\* The snapshot of the done channels, sent on the caller's buffered reply; a
\* caller that gave up never reads it.
LoopFlushReply ==
  /\ lpc = "reply"
  /\ waitFor' = [waitFor EXCEPT ![serving] =
                   IF flush[serving] = "awaiting"
                   THEN {CurrentDone(d) : d \in deliveries} ELSE {}]
  /\ flush' = [flush EXCEPT ![serving] = IF @ = "awaiting" THEN "waiting" ELSE @]
  /\ serving' = None
  /\ lpc' = "select"
  /\ UNCHANGED <<enq, queueVars, held, batch, batchSize, left,
                 chanVars, workVars, doneVars, before, closeVars, reportVars>>

\* Mutant: msgs is drained but not closed.
LoopQuitKeepsOpen ==
  /\ lpc = "select" /\ quit
  /\ UNCHANGED msgsClosed
  /\ lpc' = "drain"
  /\ UNCHANGED <<enq, msgs, held, batch, batchSize, left, serving,
                 chanVars, workVars, doneVars, flushVars, closeVars, reportVars>>

\* The quit case: close(c.msgs), then range over what is left in it.
LoopQuit ==
  /\ lpc = "select" /\ quit
  /\ msgsClosed' = TRUE
  /\ lpc' = "drain"
  /\ UNCHANGED <<enq, msgs, held, batch, batchSize, left, serving,
                 chanVars, workVars, doneVars, flushVars, closeVars, reportVars>>

LoopDrain ==
  /\ lpc = "drain" /\ msgs # << >>
  /\ ProcessMessage(Head(msgs))
  /\ UNCHANGED left

LoopFinalFlush ==
  /\ lpc = "drain" /\ msgs = << >>
  /\ FlushIfAny("await")
  /\ UNCHANGED <<enq, queueVars, held, left, serving, chanVars,
                 flushVars, closeVars, reportVars>>

\* Mutant: shutdown does not wait for the batches in flight.
AwaitDrainSkips ==
  /\ lpc = "await"
  /\ lpc' = "return"
  /\ UNCHANGED <<enq, queueVars, held, batch, batchSize, left,
                 serving, chanVars, workVars, doneVars, flushVars, closeVars,
                 reportVars>>

\* awaitDrain: wait until no batch is in flight, or the client's context is
\* cancelled.
AwaitDrain ==
  /\ lpc = "await" /\ (inFlight <= 0 \/ cancelled)
  /\ lpc' = "return"
  /\ UNCHANGED <<enq, queueVars, held, batch, batchSize, left,
                 serving, chanVars, workVars, doneVars, flushVars, closeVars,
                 reportVars>>

\* The deferred calls of loop, in order: close(shutdown), then close(batches).
LoopShutdown ==
  /\ lpc = "return"
  /\ shutdown' = TRUE
  /\ lpc' = "closeBatches"
  /\ UNCHANGED <<enq, queueVars, held, batch, batchSize, left,
                 serving, chanVars, workVars, doneVars, flushVars, closed,
                 quit, cancelled, closer, reportVars>>

LoopCloseBatches ==
  /\ lpc = "closeBatches"
  /\ batchesClosed' = TRUE
  /\ lpc' = "stopped"
  /\ UNCHANGED <<enq, queueVars, held, batch, batchSize, left,
                 serving, batches, receivers, workVars, doneVars, flushVars,
                 closeVars, reportVars>>

--------------------------------------------------------------------------
(* The upload goroutines.                                                  *)

\* processBatch receives a batch; the receive from the closed channel only
\* uncounts the batch that never came.
ProcessBatch ==
  /\ receivers > 0
  /\ batches # << >> \/ batchesClosed
  /\ receivers' = receivers - 1
  /\ IF batches # << >>
     THEN /\ batches' = Tail(batches)
          /\ phase' = [phase EXCEPT ![Head(batches)] = "ready"]
          /\ UNCHANGED inFlight
     ELSE /\ inFlight' = inFlight - 1
          /\ UNCHANGED <<batches, phase>>
  /\ UNCHANGED <<enq, queueVars, loopVars, batchesClosed, pending, attempt,
                 doneVars, flushVars, closeVars, reportVars>>

BeginUpload(d) ==
  /\ phase[d] = "ready"
  /\ phase' = [phase EXCEPT ![d] = "upload"]
  /\ attempt' = [attempt EXCEPT ![d] = @ + 1]
  /\ BeginDeliveryAttempt(d)
  /\ UNCHANGED <<enq, queueVars, loopVars, chanVars, pending, inFlight,
                 flushVars, closeVars, reportVars>>

LastAttempt(d) == attempt[d] >= MaxAttempts

\* send/sendV1 return: the pending messages got their outcome S, F.
Finish(d, S, F) ==
  /\ Notify(S, F)
  /\ pending' = [pending EXCEPT ![d] = {}]
  /\ attempt' = [attempt EXCEPT ![d] = 0]
  /\ phase' = [phase EXCEPT ![d] = "exit"]

\* Legacy: a status below 300 settles the whole batch.
UploadOK(d) ==
  /\ ~CaptureV1 /\ phase[d] = "upload"
  /\ acked' = acked \cup pending[d]
  /\ Finish(d, pending[d], {})
  /\ UNCHANGED <<enq, queueVars, loopVars, chanVars, inFlight,
                 doneVars, flushVars, closeVars, absorbed>>

\* A status that is not retried, a v1 success body that cannot be parsed, or
\* a request that cannot be encoded.
UploadTerminal(d) ==
  /\ phase[d] = "upload"
  /\ Finish(d, {}, pending[d])
  /\ UNCHANGED <<enq, queueVars, loopVars, chanVars, inFlight,
                 doneVars, flushVars, closeVars, absorbed, acked>>

\* After a retryable error: does the goroutine give the batch up at once?
\* Legacy looks at the context after every error and still waits after its
\* last attempt; v1 looks at it after transport errors only and never waits
\* after the last attempt.
GiveUp(d, transport) ==
  \/ cancelled /\ (transport \/ ~CaptureV1)
  \/ CaptureV1 /\ LastAttempt(d)

\* A transport error or a retryable status.  Whether the server kept the
\* messages is unknown to the client, which sends them again.
UploadRetryable(d) ==
  /\ phase[d] = "upload"
  /\ \E transport \in BOOLEAN :
       IF GiveUp(d, transport)
       THEN Finish(d, {}, pending[d])
       ELSE /\ phase' = [phase EXCEPT ![d] =
                           IF LastAttempt(d) THEN "backoff" ELSE "defer"]
            /\ UNCHANGED <<pending, attempt, successes, failures>>
  /\ UNCHANGED <<enq, queueVars, loopVars, chanVars, inFlight,
                 doneVars, flushVars, closeVars, absorbed, acked>>

\* Mutant: one event to retry keeps the whole batch.
PartitionV1ResultsWholeBatch(d, results, r) ==
  {m \in pending[d] : results[m] = r \/ (r = "retry" /\ \E n \in pending[d] : results[n] = r)}

\* partitionV1Results: the messages of the batch with the given result.
PartitionV1Results(d, results, r) == {m \in pending[d] : results[m] = r}

\* v1: a 2xx answer settles each event on its own; only the events to retry
\* stay with the batch, and they fail when this was the last attempt.
UploadPartial(d) ==
  /\ CaptureV1 /\ phase[d] = "upload"
  /\ \E results \in [pending[d] -> {"ok", "drop", "retry", "absent"}] :
       LET Part(r) == PartitionV1Results(d, results, r)
           retry == Part("retry")
       IN  /\ acked' = acked \cup Part("ok")
           /\ absorbed' = absorbed \cup Part("absent")
           /\ IF retry = {} \/ LastAttempt(d)
              THEN Finish(d, Part("ok"), Part("drop") \cup retry)
              ELSE /\ Notify(Part("ok"), Part("drop"))
                   /\ pending' = [pending EXCEPT ![d] = retry]
                   /\ phase' = [phase EXCEPT ![d] = "defer"]
                   /\ UNCHANGED attempt
  /\ UNCHANGED <<enq, queueVars, loopVars, chanVars, inFlight,
                 doneVars, flushVars, closeVars>>

\* The batch stays with its goroutine; Flush callers stop waiting for it.
DeferRetry(d) ==
  /\ phase[d] = "defer"
  /\ phase' = [phase EXCEPT ![d] = "backoff"]
  /\ DeferDeliveryRetry(d)
  /\ UNCHANGED <<enq, queueVars, loopVars, chanVars, pending, attempt,
                 inFlight, flushVars, closeVars, reportVars>>

\* The retry timer fires.  Only legacy can be past its last attempt here.
RetryTimer(d) ==
  /\ phase[d] = "backoff"
  /\ IF LastAttempt(d)
     THEN Finish(d, {}, pending[d])
     ELSE /\ phase' = [phase EXCEPT ![d] = "ready"]
          /\ UNCHANGED <<pending, attempt, successes, failures>>
  /\ UNCHANGED <<enq, queueVars, loopVars, chanVars, inFlight,
                 doneVars, flushVars, closeVars, absorbed, acked>>

\* quit or the context ends the wait.
RetryInterrupted(d) ==
  /\ phase[d] = "backoff" /\ (quit \/ cancelled)
  /\ Finish(d, {}, pending[d])
  /\ UNCHANGED <<enq, queueVars, loopVars, chanVars, inFlight,
                 doneVars, flushVars, closeVars, absorbed, acked>>

\* Mutant: the batch stays in the in-flight count.
ProcessBatchReturnStaysCounted(d) ==
  /\ phase[d] = "exit"
  /\ phase' = [phase EXCEPT ![d] = "done"]
  /\ CompleteDelivery(d)
  /\ UNCHANGED inFlight
  /\ UNCHANGED <<enq, queueVars, loopVars, chanVars, pending, attempt,
                 flushVars, closeVars, reportVars>>

\* The deferred calls of processBatch: completeDelivery, then inFlight.Add(-1).
ProcessBatchReturn(d) ==
  /\ phase[d] = "exit"
  /\ phase' = [phase EXCEPT ![d] = "done"]
  /\ CompleteDelivery(d)
  /\ inFlight' = inFlight - 1
  /\ UNCHANGED <<enq, queueVars, loopVars, chanVars, pending, attempt,
                 flushVars, closeVars, reportVars>>

--------------------------------------------------------------------------
(* Flush callers.                                                          *)

FlushCall(f) ==
  /\ flush[f] = "idle"
  /\ flush' = [flush EXCEPT ![f] = IF closed THEN "ErrClosed" ELSE "requesting"]
  /\ before' = [before EXCEPT ![f] = IF closed THEN {} ELSE Accepted]
  /\ UNCHANGED <<enq, queueVars, loopVars, chanVars, workVars, doneVars,
                 waitFor, closeVars, reportVars>>

\* The caller sees quit before the loop takes its request.
FlushQuit(f) ==
  /\ flush[f] = "requesting" /\ quit
  /\ flush' = [flush EXCEPT ![f] = "ErrClosed"]
  /\ before' = [before EXCEPT ![f] = {}]
  /\ UNCHANGED <<enq, queueVars, loopVars, chanVars, workVars, doneVars,
                 waitFor, closeVars, reportVars>>

\* The caller's context ends at any of its waits.
FlushCtxDone(f) ==
  /\ flush[f] \in {"requesting", "awaiting", "waiting"}
  /\ flush' = [flush EXCEPT ![f] = "ctxErr"]
  /\ waitFor' = [waitFor EXCEPT ![f] = {}]
  /\ before' = [before EXCEPT ![f] = {}]
  /\ UNCHANGED <<enq, queueVars, loopVars, chanVars, workVars, doneVars,
                 closeVars, reportVars>>

FlushReturn(f) ==
  /\ flush[f] = "waiting" /\ waitFor[f] \subseteq closedDone
  /\ flush' = [flush EXCEPT ![f] = "nil"]
  /\ waitFor' = [waitFor EXCEPT ![f] = {}]
  /\ UNCHANGED <<enq, queueVars, loopVars, chanVars, workVars, doneVars,
                 before, closeVars, reportVars>>

--------------------------------------------------------------------------
(* Close callers.  sync.Once lets one of them in and blocks the others     *)
(* until it is through.                                                    *)

CloseCall(k) ==
  /\ closer[k] = "idle"
  /\ IF \A j \in Closers : closer[j] = "idle"
     THEN closed' = TRUE /\ closer' = [closer EXCEPT ![k] = "marked"]
     ELSE UNCHANGED closed /\ closer' = [closer EXCEPT ![k] = "blocked"]
  /\ UNCHANGED <<enq, queueVars, loopVars, chanVars, workVars, doneVars,
                 flushVars, quit, cancelled, shutdown, reportVars>>

CloseQuit(k) ==
  /\ closer[k] = "marked"
  /\ quit' = TRUE
  /\ closer' = [closer EXCEPT ![k] = "waiting"]
  /\ UNCHANGED <<enq, queueVars, loopVars, chanVars, workVars, doneVars,
                 flushVars, closed, cancelled, shutdown, reportVars>>

\* The shutdown deadline passes: the client's context is cancelled.
CloseTimeout(k) ==
  /\ closer[k] = "waiting"
  /\ cancelled' = TRUE
  /\ closer' = [closer EXCEPT ![k] = "cancelled"]
  /\ UNCHANGED <<enq, queueVars, loopVars, chanVars, workVars, doneVars,
                 flushVars, closed, quit, shutdown, reportVars>>

CloseReturn(k) ==
  /\ closer[k] \in {"waiting", "cancelled"} /\ shutdown
  /\ closer' = [closer EXCEPT ![k] = IF @ = "waiting" THEN "nil" ELSE "timeout"]
  /\ UNCHANGED <<enq, queueVars, loopVars, chanVars, workVars, doneVars,
                 flushVars, closed, quit, cancelled, shutdown, reportVars>>

CloseAgain(k) ==
  /\ closer[k] = "blocked"
  /\ \E j \in Closers : closer[j] \in {"nil", "timeout"}
  /\ closer' = [closer EXCEPT ![k] = "ErrClosed"]
  /\ UNCHANGED <<enq, queueVars, loopVars, chanVars, workVars, doneVars,
                 flushVars, closed, quit, cancelled, shutdown, reportVars>>

--------------------------------------------------------------------------

Enqueue(m) == EnqueueCheckClosed(m) \/ EnqueueDiscard(m)
              \/ EnqueueUnserializable(m) \/ SendPrepared(m)

Submit == \E d \in Deliveries : SubmitAccepted(d) \/ SubmitRefused(d)

LoopStep == LoopReceive \/ LoopTick \/ LoopFlushDrain \/ LoopFlushRest
            \/ LoopFlushReply \/ LoopQuit \/ LoopDrain \/ LoopFinalFlush
            \/ AppendMessage \/ AwaitDrain \/ LoopShutdown
            \/ LoopCloseBatches \/ Submit

UploadEnds(d) == UploadOK(d) \/ UploadTerminal(d) \/ UploadRetryable(d)
                 \/ UploadPartial(d)

Worker(d) == BeginUpload(d) \/ UploadEnds(d) \/ DeferRetry(d)
             \/ RetryTimer(d) \/ RetryInterrupted(d)
             \/ ProcessBatchReturn(d)

Flush(f) == FlushCall(f) \/ LoopFlushRequest(f) \/ FlushQuit(f)
            \/ FlushCtxDone(f) \/ FlushReturn(f)

Close(k) == CloseCall(k) \/ CloseQuit(k) \/ CloseTimeout(k)
            \/ CloseReturn(k) \/ CloseAgain(k)

\* Every call has returned and every goroutine of the client has ended.  A
\* state with no other step that is not this one is a deadlock.
Terminated ==
  /\ lpc = "stopped" /\ receivers = 0
  /\ \A m \in Messages : enq[m] \notin {"new", "preparing"}
  /\ \A d \in Deliveries : phase[d] \in {"none", "done"}
  /\ \A f \in Flushers : flush[f] \in {"nil", "ctxErr", "ErrClosed"}
  /\ \A k \in Closers : closer[k] \in {"nil", "timeout", "ErrClosed"}
  /\ UNCHANGED vars

Next ==
  \/ \E m \in Messages : Enqueue(m)
  \/ LoopStep
  \/ ProcessBatch
  \/ \E d \in Deliveries : Worker(d)
  \/ \E f \in Flushers : Flush(f)
  \/ \E k \in Closers : Close(k)
  \/ Terminated

Spec == Init /\ [][Next]_vars

\* What the Go scheduler, the timers and the HTTP client's timeout guarantee:
\* a goroutine that can run does run.  Nobody is obliged to call Enqueue,
\* Flush or Close, and no context is obliged to end.
Fairness ==
  /\ \A m \in Messages : WF_vars(SendPrepared(m))
  /\ WF_vars(LoopStep)
  /\ WF_vars(ProcessBatch)
  /\ \A d \in Deliveries : WF_vars(Worker(d))
  /\ \A f \in Flushers : /\ WF_vars(LoopFlushRequest(f))
                          /\ WF_vars(FlushQuit(f) \/ FlushReturn(f))
  /\ \A k \in Closers : WF_vars(CloseQuit(k) \/ CloseReturn(k) \/ CloseAgain(k))

FairSpec == Spec /\ Fairness

--------------------------------------------------------------------------
(* Properties.                                                             *)

TypeOK ==
  /\ enq \in [Messages -> EnqStates]
  /\ msgs \in Seq(Messages) /\ msgsClosed \in BOOLEAN
  /\ lpc \in LoopStates
  /\ held \in Messages \cup {None}
  /\ batch \subseteq Messages /\ batchSize \in Nat /\ left \in Nat
  /\ serving \in Flushers \cup {None}
  /\ batches \in Seq(Deliveries) /\ batchesClosed \in BOOLEAN
  /\ receivers \in Nat
  /\ phase \in [Deliveries -> PhaseStates]
  /\ pending \in [Deliveries -> SUBSET Messages]
  /\ attempt \in [Deliveries -> Nat]
  /\ inFlight \in Int
  /\ deliveries \subseteq Deliveries
  /\ gen \in [Deliveries -> Nat] /\ retrying \in [Deliveries -> BOOLEAN]
  /\ closedDone \subseteq Deliveries \X Nat
  /\ flush \in [Flushers -> FlushStates]
  /\ waitFor \in [Flushers -> SUBSET (Deliveries \X Nat)]
  /\ before \in [Flushers -> SUBSET Messages]
  /\ closed \in BOOLEAN /\ quit \in BOOLEAN /\ cancelled \in BOOLEAN
  /\ shutdown \in BOOLEAN
  /\ closer \in [Closers -> CloseStates]
  /\ successes \in [Messages -> Nat] /\ failures \in [Messages -> Nat]
  /\ absorbed \subseteq Messages /\ acked \subseteq Messages

\* The loop holds a message exactly while processMessage is not through with
\* it: from the receive until the append, a flush in between included.
HeldOK ==
  /\ lpc = "append" => held # None
  /\ held # None => lpc \in {"append", "submit"}

\* The application hears about a message at most once: never two callbacks,
\* never Success and Failure, never a callback for an event that was taken as
\* accepted in silence.
AtMostOneCallback ==
  \A m \in Messages :
    successes[m] + failures[m] + (IF m \in absorbed THEN 1 ELSE 0) <= 1

\* The places a message Enqueue accepted can be in until it is settled.
Owned(m) ==
  \/ m \in Queued \/ m = held \/ m \in batch
  \/ \E d \in Deliveries : m \in pending[d]

\* No accepted message is lost and none outlives its callback: it is in the
\* queue, in the hands of the loop or part of a batch exactly as long as it
\* is not settled.
NothingLost ==
  \A m \in Messages : Owned(m) <=> enq[m] = "accepted" /\ ~Settled(m)

\* A message is in one place only: a message that is in two batches, or still
\* in the loop's batch after sendBatch took it, would be uploaded twice.
OneOwner ==
  /\ \A i, j \in 1..Len(msgs) : msgs[i] = msgs[j] => i = j
  /\ \A m \in Queued : m # held /\ m \notin batch
  /\ held \notin batch
  /\ \A d \in Deliveries :
       /\ pending[d] \cap (Queued \cup {held} \cup batch) = {}
       /\ \A e \in Deliveries \ {d} : pending[d] \cap pending[e] = {}

\* A Flush caller never waits for a done channel nobody is going to close: the
\* delivery is still registered and still holds that very channel.
FlushNeverStranded ==
  \A f \in Flushers : \A w \in waitFor[f] \ closedDone :
    w[1] \in deliveries /\ w = CurrentDone(w[1])

\* The Flush contract: when Flush returns nil, every message accepted before
\* the call has its outcome or went through at least one finished upload
\* attempt and is waiting for (or in) a later one.
FlushBarrier ==
  \A f \in Flushers : flush[f] = "nil" =>
    \A m \in before[f] :
      \/ Settled(m)
      \/ \E d \in Deliveries :
           /\ m \in pending[d]
           /\ attempt[d] > 1 \/ (attempt[d] = 1 /\ phase[d] \in {"backoff", "ready"})

\* The Close contract: Close returns nil only when every accepted message has
\* its outcome and no upload goroutine is left.
CleanClose ==
  \A k \in Closers : closer[k] = "nil" =>
    /\ \A m \in Accepted : Settled(m)
    /\ \A d \in Deliveries : phase[d] \in {"none", "done"}

\* Callback.Success is only called for a message the server accepted.
SuccessMeansAcked == \A m \in Messages : successes[m] > 0 => m \in acked

\* Once a Close call has returned, in time or not, Enqueue accepts nothing.
NothingAcceptedAfterClose ==
  [][(\E k \in Closers : closer[k] \in {"nil", "timeout"})
       => Accepted' = Accepted]_vars

\* A message with an outcome is never part of a later upload attempt, partial
\* retries of capture-v1 included.
NoUploadOfSettled ==
  [][\A d \in Deliveries : phase[d] = "ready" /\ phase'[d] = "upload"
       => \A m \in pending[d] : ~Settled(m)]_vars

\* Every accepted message is settled in the end, with or without Close.
AcceptedIsSettled == \A m \in Messages : enq[m] = "accepted" ~> Settled(m)

\* Every Flush call returns, although batches it waits for are retried and
\* new messages keep coming.
FlushReturns ==
  \A f \in Flushers :
    flush[f] = "requesting" ~> flush[f] \in {"nil", "ctxErr", "ErrClosed"}

\* Every Close call returns without help from a deadline.
CloseReturns ==
  \A k \in Closers :
    closer[k] # "idle" ~> closer[k] \in {"nil", "timeout", "ErrClosed"}

\* What the Callback interface documents: a message that was handed to the
\* API gets a Success or a Failure call.
EveryOutcomeReported ==
  \A m \in Messages : m \in absorbed => successes[m] + failures[m] > 0
=============================================================================
