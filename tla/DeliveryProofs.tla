--------------------------- MODULE DeliveryProofs ---------------------------
(* Proofs about Delivery, for every set of messages, callers and deliveries *)
(* and every limit the assumptions of Delivery allow.                       *)
EXTENDS Delivery, FiniteSetTheorems, TLAPS

\* The identity sendBatch gives a delivery is one that was never used.
LEMMA FreshIsUnused ==
  ASSUME \E d \in Deliveries : phase[d] = "none"
  PROVE  Fresh \in Deliveries /\ phase[Fresh] = "none"
BY DEF Fresh

\* Statements sendBatch and processMessage return to.
LEMMA ReturnStates ==
  /\ AfterMessage \in {"select", "flush", "drain"}
  /\ AfterFlush \in {"append", "select", "flush", "drain"}
BY DEF AfterMessage, AfterFlush

LEMMA HeadTailType ==
  ASSUME NEW S, NEW s \in Seq(S), s # << >>
  PROVE  Head(s) \in S /\ Tail(s) \in Seq(S) /\ Len(Tail(s)) = Len(s) - 1
OBVIOUS

---------------------------------------------------------------------------
TypeInv == TypeOK /\ HeldOK

LEMMA TypeInit == Init => TypeInv
<1>. SUFFICES ASSUME Init PROVE TypeInv
  OBVIOUS
<1>1. HeldOK
  BY DEF Init, HeldOK
<1>2. TypeOK
  <2>1. msgs \in Seq(Messages) /\ batches \in Seq(Deliveries)
    BY DEF Init
  <2>2. /\ enq \in [Messages -> EnqStates] /\ phase \in [Deliveries -> PhaseStates]
        /\ flush \in [Flushers -> FlushStates] /\ closer \in [Closers -> CloseStates]
        /\ lpc \in LoopStates
    BY DEF Init, EnqStates, LoopStates, PhaseStates, FlushStates, CloseStates
  <2>3. /\ pending \in [Deliveries -> SUBSET Messages]
        /\ attempt \in [Deliveries -> Nat] /\ gen \in [Deliveries -> Nat]
        /\ retrying \in [Deliveries -> BOOLEAN]
        /\ waitFor \in [Flushers -> SUBSET (Deliveries \X Nat)]
        /\ before \in [Flushers -> SUBSET Messages]
        /\ successes \in [Messages -> Nat] /\ failures \in [Messages -> Nat]
    BY DEF Init
  <2>4. /\ msgsClosed = FALSE /\ held = None /\ batch = {} /\ batchSize = 0
        /\ left = 0 /\ serving = None /\ batchesClosed = FALSE /\ receivers = 0
        /\ inFlight = 0 /\ deliveries = {} /\ closedDone = {}
        /\ closed = FALSE /\ quit = FALSE /\ cancelled = FALSE
        /\ shutdown = FALSE /\ absorbed = {} /\ acked = {}
    BY DEF Init
  <2>5. /\ msgsClosed \in BOOLEAN /\ batchesClosed \in BOOLEAN
        /\ closed \in BOOLEAN /\ quit \in BOOLEAN /\ cancelled \in BOOLEAN
        /\ shutdown \in BOOLEAN
    BY <2>4
  <2>6. /\ held \in Messages \cup {None} /\ batch \subseteq Messages
        /\ batchSize \in Nat /\ left \in Nat /\ receivers \in Nat
        /\ serving \in Flushers \cup {None} /\ inFlight \in Int
        /\ deliveries \subseteq Deliveries /\ closedDone \subseteq Deliveries \X Nat
        /\ absorbed \subseteq Messages /\ acked \subseteq Messages
    BY <2>4
  <2>. QED BY <2>1, <2>2, <2>3, <2>5, <2>6, Zenon DEF TypeOK
<1>. QED BY <1>1, <1>2 DEF TypeInv

\* The part of TypeOK that speaks of what sendBatch writes.
BatchTypeOK ==
  /\ batch \subseteq Messages /\ batchSize \in Nat
  /\ phase \in [Deliveries -> PhaseStates]
  /\ pending \in [Deliveries -> SUBSET Messages]
  /\ attempt \in [Deliveries -> Nat] /\ inFlight \in Int
  /\ deliveries \subseteq Deliveries
  /\ gen \in [Deliveries -> Nat] /\ retrying \in [Deliveries -> BOOLEAN]
  /\ closedDone \subseteq Deliveries \X Nat

\* flushBatch leaves every variable it writes typed.
LEMMA FlushBatchType ==
  ASSUME TypeOK, NEW B \in SUBSET Messages, FlushBatch(B)
  PROVE  lpc' = "submit" /\ BatchTypeOK'
BY FreshIsUnused DEF TypeOK, BatchTypeOK, FlushBatch, PhaseStates

LEMMA FlushIfAnyType ==
  ASSUME TypeOK, NEW next, FlushIfAny(next)
  PROVE  lpc' \in {"submit", next} /\ BatchTypeOK'
<1>0. batch \in SUBSET Messages
  BY DEF TypeOK
<1>1. CASE batch # {} /\ FlushBatch(batch)
  BY <1>0, <1>1, FlushBatchType
<1>2. CASE batch = {} /\ lpc' = next
           /\ UNCHANGED <<batch, batchSize, workVars, doneVars>>
  BY <1>2 DEF TypeOK, BatchTypeOK, workVars, doneVars
<1>. QED BY <1>1, <1>2 DEF FlushIfAny

LEMMA NotifyType ==
  ASSUME TypeOK, NEW S, NEW F, Notify(S, F)
  PROVE  successes' \in [Messages -> Nat] /\ failures' \in [Messages -> Nat]
BY DEF TypeOK, Notify

\* The messages processMessage takes from the queue leave everything typed.
LEMMA ProcessMessageType ==
  ASSUME TypeInv, msgs # << >>, lpc \in {"select", "flush", "drain"},
         ProcessMessage(Head(msgs)), left' \in Nat
  PROVE  TypeInv'
<1>. DEFINE m == Head(msgs)
<1>1. m \in Messages /\ msgs' \in Seq(Messages) /\ m # None
  BY HeadTailType, NoneAssumption DEF TypeInv, TypeOK, ProcessMessage
<1>2. held = None
  BY DEF TypeInv, HeldOK
<1>3. Size[m] \in Nat
  BY <1>1, MessageAssumption
<1>. USE DEF LoopStates
<1>4. CASE Size[m] > MaxMessageBytes
  <2>1. Notify({}, {m}) /\ lpc' = AfterMessage
        /\ UNCHANGED <<held, batch, batchSize, workVars, doneVars>>
    BY <1>4 DEF ProcessMessage
  <2>2. successes' \in [Messages -> Nat] /\ failures' \in [Messages -> Nat]
    BY <2>1, NotifyType DEF TypeInv
  <2>. QED BY <1>1, <1>2, <2>1, <2>2, ReturnStates, ZenonT(40)
  DEF TypeInv, TypeOK, HeldOK, ProcessMessage, workVars, doneVars, chanVars,
      flushVars, closeVars
<1>5. CASE ~(Size[m] > MaxMessageBytes) /\ batchSize + Size[m] > MaxBatchBytes
  <2>1. FlushIfAny("append") /\ held' = m /\ UNCHANGED <<successes, failures>>
    BY <1>5 DEF ProcessMessage
  <2>2. lpc' \in {"submit", "append"} /\ BatchTypeOK'
    BY <2>1, FlushIfAnyType DEF TypeInv
  <2>. QED BY <1>1, <2>1, <2>2, ZenonT(40)
    DEF TypeInv, TypeOK, BatchTypeOK, HeldOK, ProcessMessage, chanVars, flushVars, closeVars
<1>6. CASE ~(Size[m] > MaxMessageBytes) /\ ~(batchSize + Size[m] > MaxBatchBytes)
  <2>1. /\ held' = m /\ lpc' = "append"
        /\ UNCHANGED <<batch, batchSize, workVars, doneVars, successes, failures>>
    BY <1>6 DEF ProcessMessage
  <2>. QED BY <1>1, <2>1
    DEF TypeInv, TypeOK, HeldOK, ProcessMessage, workVars, doneVars, chanVars,
        flushVars, closeVars
<1>. QED BY <1>4, <1>5, <1>6

\* Finish leaves everything it writes typed.
LEMMA FinishType ==
  ASSUME TypeOK, NEW d \in Deliveries, NEW S, NEW T, Finish(d, S, T)
  PROVE  /\ successes' \in [Messages -> Nat] /\ failures' \in [Messages -> Nat]
         /\ pending' \in [Deliveries -> SUBSET Messages]
         /\ attempt' \in [Deliveries -> Nat]
         /\ phase' \in [Deliveries -> PhaseStates]
<1>1. Notify(S, T)
  BY DEF Finish
<1>2. successes' \in [Messages -> Nat] /\ failures' \in [Messages -> Nat]
  BY <1>1, NotifyType
<1>. QED BY <1>2 DEF Finish, TypeOK, PhaseStates

LEMMA TypeEnqueue ==
  ASSUME TypeInv, NEW m \in Messages, Enqueue(m) PROVE TypeInv'
<1>. USE DEF TypeInv, HeldOK, queueVars, loopVars, chanVars, workVars, doneVars,
             flushVars, closeVars, reportVars
<1>1. CASE EnqueueCheckClosed(m)
  BY <1>1 DEF TypeOK, EnqueueCheckClosed, EnqStates
<1>2. CASE EnqueueDiscard(m)
  BY <1>2 DEF TypeOK, EnqueueDiscard, EnqStates
<1>3. CASE EnqueueUnserializable(m)
  <2>1. successes' \in [Messages -> Nat] /\ failures' \in [Messages -> Nat]
    BY <1>3, NotifyType DEF EnqueueUnserializable
  <2>. QED BY <1>3, <2>1, ZenonT(40) DEF TypeOK, EnqueueUnserializable, EnqStates
<1>4. CASE SendPrepared(m)
  <2>a. msgs \in Seq(Messages)
    BY DEF TypeOK
  <2>b. msgs' = msgs \/ msgs' = Append(msgs, m)
    BY <1>4 DEF SendPrepared
  <2>1. msgs' \in Seq(Messages)
    BY <2>a, <2>b
  <2>2. enq' \in [Messages -> EnqStates]
    BY <1>4 DEF TypeOK, SendPrepared, EnqStates
  <2>. QED BY <1>4, <2>1, <2>2, SMTT(30) DEF TypeOK, SendPrepared
<1>. QED BY <1>1, <1>2, <1>3, <1>4 DEF Enqueue

LEMMA TypeLoop ==
  ASSUME TypeInv, LoopStep PROVE TypeInv'
<1>. USE DEF queueVars, loopVars, chanVars, workVars, doneVars,
             flushVars, closeVars, reportVars
<1>b. batch \in SUBSET Messages
  BY DEF TypeInv, TypeOK
<1>1. CASE LoopReceive
  BY <1>1, ProcessMessageType DEF LoopReceive, TypeInv, TypeOK
<1>2. CASE LoopTick
  <2>1. FlushBatch(batch)
    BY <1>2 DEF LoopTick
  <2>2. lpc' = "submit" /\ BatchTypeOK'
    BY <2>1, <1>b, FlushBatchType DEF TypeInv
  <2>. QED BY <1>2, <2>2
    DEF BatchTypeOK, LoopTick, TypeInv, TypeOK, HeldOK, LoopStates
<1>3. CASE LoopFlushDrain
  <2>1. left' \in Nat
    BY <1>3 DEF LoopFlushDrain, TypeInv, TypeOK
  <2>. QED BY <1>3, <2>1, ProcessMessageType DEF LoopFlushDrain
<1>4. CASE LoopFlushRest
  <2>1. FlushIfAny("reply") /\ held = None
    BY <1>4 DEF LoopFlushRest, TypeInv, HeldOK
  <2>2. lpc' \in {"submit", "reply"} /\ BatchTypeOK'
    BY <2>1, FlushIfAnyType DEF TypeInv
  <2>. QED BY <1>4, <2>1, <2>2
    DEF BatchTypeOK, LoopFlushRest, TypeInv, TypeOK, HeldOK, LoopStates
<1>5. CASE LoopFlushReply
  <2>1. {CurrentDone(d) : d \in deliveries} \in SUBSET (Deliveries \X Nat)
    BY DEF CurrentDone, TypeInv, TypeOK
  <2>2. waitFor' \in [Flushers -> SUBSET (Deliveries \X Nat)]
    BY <1>5, <2>1 DEF LoopFlushReply, TypeInv, TypeOK
  <2>. QED BY <1>5, <2>2
    DEF LoopFlushReply, TypeInv, TypeOK, HeldOK, LoopStates, FlushStates
<1>6. CASE LoopQuit
  BY <1>6 DEF LoopQuit, TypeInv, TypeOK, HeldOK, LoopStates
<1>7. CASE LoopDrain
  BY <1>7, ProcessMessageType DEF LoopDrain, TypeInv, TypeOK
<1>8. CASE LoopFinalFlush
  <2>1. FlushIfAny("await") /\ held = None
    BY <1>8 DEF LoopFinalFlush, TypeInv, HeldOK
  <2>2. lpc' \in {"submit", "await"} /\ BatchTypeOK'
    BY <2>1, FlushIfAnyType DEF TypeInv
  <2>. QED BY <1>8, <2>1, <2>2, SMTT(30)
    DEF BatchTypeOK, LoopFinalFlush, TypeInv, TypeOK, HeldOK, LoopStates
<1>9. CASE AppendMessage
  <2>1. held \in Messages /\ batch \cup {held} \in SUBSET Messages
    BY <1>9 DEF AppendMessage, TypeInv, TypeOK, HeldOK
  <2>2. CASE Cardinality(batch \cup {held}) >= BatchSize
    <3>1. FlushBatch(batch \cup {held})
      BY <1>9, <2>2 DEF AppendMessage
    <3>2. lpc' = "submit" /\ BatchTypeOK'
      BY <2>1, <3>1, FlushBatchType DEF TypeInv
    <3>. QED BY <1>9, <3>2
      DEF BatchTypeOK, AppendMessage, TypeInv, TypeOK, HeldOK, LoopStates
  <2>3. CASE ~(Cardinality(batch \cup {held}) >= BatchSize)
    <3>1. /\ batch' = batch \cup {held} /\ batchSize' = batchSize + Size[held]
          /\ lpc' = AfterMessage /\ UNCHANGED <<workVars, doneVars>>
      BY <1>9, <2>3 DEF AppendMessage
    <3>2. batchSize' \in Nat
      BY <2>1, <3>1, MessageAssumption DEF TypeInv, TypeOK
    <3>. QED BY <1>9, <2>1, <3>1, <3>2, ReturnStates, SMTT(30)
      DEF AppendMessage, TypeInv, TypeOK, HeldOK, LoopStates
  <2>. QED BY <2>2, <2>3
<1>10. CASE AwaitDrain
  BY <1>10 DEF AwaitDrain, TypeInv, TypeOK, HeldOK, LoopStates
<1>11. CASE LoopShutdown
  BY <1>11 DEF LoopShutdown, TypeInv, TypeOK, HeldOK, LoopStates
<1>12. CASE LoopCloseBatches
  BY <1>12 DEF LoopCloseBatches, TypeInv, TypeOK, HeldOK, LoopStates
<1>13. ASSUME NEW d \in Deliveries, SubmitAccepted(d) PROVE TypeInv'
  BY <1>13, ReturnStates
  DEF SubmitAccepted, TypeInv, TypeOK, HeldOK, LoopStates, PhaseStates, AfterFlush
<1>14. ASSUME NEW d \in Deliveries, SubmitRefused(d) PROVE TypeInv'
  <2>1. successes' \in [Messages -> Nat] /\ failures' \in [Messages -> Nat]
    BY <1>14, NotifyType DEF SubmitRefused, TypeInv
  <2>2. deliveries' \subseteq Deliveries /\ closedDone' \subseteq Deliveries \X Nat
    BY <1>14 DEF SubmitRefused, CompleteDelivery, CurrentDone, TypeInv, TypeOK
  <2>. QED BY <1>14, <2>1, <2>2, ReturnStates
    DEF SubmitRefused, CompleteDelivery, TypeInv, TypeOK, HeldOK, LoopStates,
        PhaseStates, AfterFlush
<1>. QED BY <1>1, <1>2, <1>3, <1>4, <1>5, <1>6, <1>7, <1>8, <1>9, <1>10, <1>11,
            <1>12, <1>13, <1>14 DEF LoopStep, Submit

LEMMA TypeWorker ==
  ASSUME TypeInv, NEW d \in Deliveries, Worker(d) PROVE TypeInv'
<1>. USE DEF TypeInv, HeldOK, queueVars, loopVars, chanVars, workVars, doneVars,
             flushVars, closeVars, reportVars
<1>1. CASE BeginUpload(d)
  <2>1. gen' \in [Deliveries -> Nat] /\ retrying' \in [Deliveries -> BOOLEAN]
    BY <1>1 DEF BeginUpload, BeginDeliveryAttempt, TypeOK
  <2>2. phase' \in [Deliveries -> PhaseStates] /\ attempt' \in [Deliveries -> Nat]
    BY <1>1 DEF BeginUpload, TypeOK, PhaseStates
  <2> QED BY <1>1, <2>1, <2>2, ZenonT(40) DEF BeginUpload, BeginDeliveryAttempt, TypeOK
<1>2. ASSUME NEW S, NEW T, Finish(d, S, T), acked' \subseteq Messages,
             absorbed' \subseteq Messages,
             UNCHANGED <<enq, queueVars, loopVars, chanVars, inFlight, doneVars,
                         flushVars, closeVars>>
      PROVE  TypeInv'
  <2>1. /\ successes' \in [Messages -> Nat] /\ failures' \in [Messages -> Nat]
        /\ pending' \in [Deliveries -> SUBSET Messages]
        /\ attempt' \in [Deliveries -> Nat]
        /\ phase' \in [Deliveries -> PhaseStates]
    BY <1>2, FinishType
  <2>. QED BY <1>2, <2>1 DEF TypeOK
<1>3. CASE UploadOK(d)
  <2>1. acked' \subseteq Messages /\ absorbed' \subseteq Messages
    BY <1>3 DEF UploadOK, TypeOK
  <2>. QED BY <1>2, <1>3, <2>1 DEF UploadOK
<1>4. CASE UploadTerminal(d)
  <2>1. acked' \subseteq Messages /\ absorbed' \subseteq Messages
    BY <1>4 DEF UploadTerminal, TypeOK
  <2>. QED BY <1>2, <1>4, <2>1 DEF UploadTerminal
<1>5. CASE UploadRetryable(d)
  <2>1. acked' \subseteq Messages /\ absorbed' \subseteq Messages
    BY <1>5 DEF UploadRetryable, TypeOK
  <2>2. CASE Finish(d, {}, pending[d])
    BY <1>2, <1>5, <2>1, <2>2 DEF UploadRetryable
  <2>3. CASE /\ phase' = [phase EXCEPT ![d] =
                             IF LastAttempt(d) THEN "backoff" ELSE "defer"]
             /\ UNCHANGED <<pending, attempt, successes, failures>>
    BY <1>5, <2>3 DEF UploadRetryable, TypeOK, PhaseStates
  <2>. QED BY <1>5, <2>2, <2>3 DEF UploadRetryable
<1>6. CASE UploadPartial(d)
  <2>1. PICK results \in [pending[d] -> {"ok", "drop", "retry", "absent"}] :
          LET Part(r) == PartitionV1Results(d, results, r)
          IN  /\ acked' = acked \cup Part("ok")
              /\ absorbed' = absorbed \cup Part("absent")
              /\ \/ Finish(d, Part("ok"), Part("drop") \cup Part("retry"))
                 \/ /\ Notify(Part("ok"), Part("drop"))
                    /\ pending' = [pending EXCEPT ![d] = Part("retry")]
                    /\ phase' = [phase EXCEPT ![d] = "defer"]
                    /\ UNCHANGED attempt
    BY <1>6 DEF UploadPartial
  <2>2. \A r : PartitionV1Results(d, results, r) \subseteq pending[d]
    BY DEF PartitionV1Results
  <2>3. pending[d] \subseteq Messages
    BY DEF TypeOK
  <2>4. acked' \subseteq Messages /\ absorbed' \subseteq Messages
    BY <2>1, <2>2, <2>3 DEF TypeOK
  <2>5. CASE \E S, T : Finish(d, S, T)
    BY <1>2, <1>6, <2>4, <2>5 DEF UploadPartial
  <2>6. ASSUME NEW S, NEW T, Notify(S, T),
               pending' = [pending EXCEPT ![d] = PartitionV1Results(d, results, "retry")],
               phase' = [phase EXCEPT ![d] = "defer"], UNCHANGED attempt
        PROVE  TypeInv'
    <3>1. successes' \in [Messages -> Nat] /\ failures' \in [Messages -> Nat]
      BY <2>6, NotifyType
    <3>2. /\ pending' \in [Deliveries -> SUBSET Messages]
          /\ phase' \in [Deliveries -> PhaseStates]
      BY <2>2, <2>3, <2>6 DEF TypeOK, PhaseStates
    <3>. QED BY <1>6, <2>4, <2>6, <3>1, <3>2 DEF UploadPartial, TypeOK
  <2>. QED BY <2>1, <2>5, <2>6
<1>7. CASE DeferRetry(d)
  BY <1>7 DEF DeferRetry, DeferDeliveryRetry, CurrentDone, TypeOK, PhaseStates
<1>8. CASE RetryTimer(d)
  <2>1. acked' \subseteq Messages /\ absorbed' \subseteq Messages
    BY <1>8 DEF RetryTimer, TypeOK
  <2>2. CASE Finish(d, {}, pending[d])
    BY <1>2, <1>8, <2>1, <2>2 DEF RetryTimer
  <2>3. CASE /\ phase' = [phase EXCEPT ![d] = "ready"]
             /\ UNCHANGED <<pending, attempt, successes, failures>>
    BY <1>8, <2>3 DEF RetryTimer, TypeOK, PhaseStates
  <2>. QED BY <1>8, <2>2, <2>3 DEF RetryTimer
<1>9. CASE RetryInterrupted(d)
  <2>1. acked' \subseteq Messages /\ absorbed' \subseteq Messages
    BY <1>9 DEF RetryInterrupted, TypeOK
  <2>. QED BY <1>2, <1>9, <2>1 DEF RetryInterrupted
<1>10. CASE ProcessBatchReturn(d)
  BY <1>10 DEF ProcessBatchReturn, CompleteDelivery, CurrentDone, TypeOK, PhaseStates
<1>. QED BY <1>1, <1>3, <1>4, <1>5, <1>6, <1>7, <1>8, <1>9, <1>10
     DEF Worker, UploadEnds

LEMMA TypeProcessBatch == ASSUME TypeInv, ProcessBatch PROVE TypeInv'
<1>a. batches \in Seq(Deliveries) /\ receivers \in Nat /\ inFlight \in Int
      /\ phase \in [Deliveries -> PhaseStates]
  BY DEF TypeInv, TypeOK
<1>b. batches # << >> => Head(batches) \in Deliveries /\ Tail(batches) \in Seq(Deliveries)
  BY <1>a, HeadTailType
<1>1. receivers' \in Nat /\ batches' \in Seq(Deliveries)
      /\ phase' \in [Deliveries -> PhaseStates] /\ inFlight' \in Int
  <2>1. receivers' \in Nat
    BY <1>a DEF ProcessBatch
  <2>2. CASE batches # << >>
    BY <1>a, <1>b, <2>1, <2>2 DEF ProcessBatch, PhaseStates
  <2>3. CASE batches = << >>
    BY <1>a, <2>1, <2>3 DEF ProcessBatch
  <2>. QED BY <2>2, <2>3
<1>2. UNCHANGED <<enq, queueVars, loopVars, batchesClosed, pending, attempt,
                  doneVars, flushVars, closeVars, reportVars>>
  BY DEF ProcessBatch
<1>. QED BY <1>1, <1>2 DEF TypeInv, TypeOK, HeldOK, queueVars, loopVars,
     doneVars, flushVars, closeVars, reportVars

LEMMA TypeFlush ==
  ASSUME TypeInv, NEW f \in Flushers, Flush(f) PROVE TypeInv'
<1>. USE DEF TypeInv, TypeOK, HeldOK, LoopStates, FlushStates, queueVars,
             loopVars, chanVars, workVars, doneVars, closeVars, reportVars
<1>1. CASE FlushCall(f)
  <2>1. Accepted \in SUBSET Messages
    BY DEF Accepted
  <2>. QED BY <1>1, <2>1 DEF FlushCall
<1>2. CASE LoopFlushRequest(f)
  <2>1. Len(msgs) \in Nat
    OBVIOUS
  <2>. QED BY <1>2, <2>1 DEF LoopFlushRequest
<1>3. CASE FlushQuit(f)
  BY <1>3 DEF FlushQuit
<1>4. CASE FlushCtxDone(f)
  BY <1>4 DEF FlushCtxDone
<1>5. CASE FlushReturn(f)
  BY <1>5, SMTT(30) DEF FlushReturn
<1>. QED BY <1>1, <1>2, <1>3, <1>4, <1>5 DEF Flush

LEMMA TypeClose ==
  ASSUME TypeInv, NEW k \in Closers, Close(k) PROVE TypeInv'
<1>1. /\ closer' \in [Closers -> CloseStates]
      /\ closed' \in BOOLEAN /\ quit' \in BOOLEAN /\ cancelled' \in BOOLEAN
      /\ shutdown' \in BOOLEAN
  BY DEF TypeInv, TypeOK, CloseStates, Close, CloseCall, CloseQuit, CloseTimeout,
     CloseReturn, CloseAgain
<1>2. UNCHANGED <<enq, queueVars, loopVars, chanVars, workVars, doneVars,
                  flushVars, reportVars>>
  BY DEF Close, CloseCall, CloseQuit, CloseTimeout, CloseReturn, CloseAgain
<1>. QED BY <1>1, <1>2 DEF TypeInv, TypeOK, HeldOK, queueVars, loopVars, chanVars,
     workVars, doneVars, flushVars, reportVars

LEMMA TypeNext == ASSUME TypeInv, [Next]_vars PROVE TypeInv'
<1>1. CASE UNCHANGED vars
  BY <1>1 DEF vars, TypeInv, TypeOK, HeldOK, queueVars, loopVars, chanVars, workVars,
     doneVars, flushVars, closeVars, reportVars
<1>. QED BY <1>1, TypeEnqueue, TypeLoop, TypeProcessBatch, TypeWorker, TypeFlush,
            TypeClose DEF Next, Terminated

LEMMA TypeInvariant == Spec => []TypeInv
BY TypeInit, TypeNext, PTL DEF Spec

\* Every variable keeps its type in every behaviour, whatever the limits.
THEOREM TypeCorrect == Spec => []TypeOK
BY TypeInvariant, PTL DEF TypeInv

---------------------------------------------------------------------------
(* Ownership.  A message Enqueue accepted is in exactly one place until it  *)
(* has its one outcome.  None of the properties is inductive alone: that a  *)
(* message is reported once rests on it being unsettled while it is owned,  *)
(* and on its having one owner.                                             *)

QueueOf(s) == {s[i] : i \in 1..Len(s)}
NoRepeat(s) == \A i, j \in 1..Len(s) : s[i] = s[j] => i = j

LEMMA AppendToQueue ==
  ASSUME NEW S, NEW s \in Seq(S), NEW x \in S, x \notin QueueOf(s), NoRepeat(s)
  PROVE  QueueOf(Append(s, x)) = QueueOf(s) \cup {x} /\ NoRepeat(Append(s, x))
<1>. DEFINE t == Append(s, x)
<1>1. /\ Len(t) = Len(s) + 1 /\ t[Len(s) + 1] = x
      /\ \A i \in 1..Len(s) : t[i] = s[i]
  OBVIOUS
<1>2. Len(s) \in Nat
  OBVIOUS
<1>3. 1..Len(t) = 1..Len(s) \cup {Len(s) + 1}
  BY <1>1, <1>2
<1>. HIDE DEF t
<1>4. QueueOf(t) = QueueOf(s) \cup {x}
  BY <1>1, <1>3 DEF QueueOf
<1>5. NoRepeat(t)
  BY <1>1, <1>2, <1>3 DEF NoRepeat, QueueOf
<1>. QED BY <1>4, <1>5 DEF t

LEMMA TailOfQueue ==
  ASSUME NEW S, NEW s \in Seq(S), s # << >>, NoRepeat(s)
  PROVE  /\ Head(s) \in QueueOf(s)
         /\ QueueOf(Tail(s)) = QueueOf(s) \ {Head(s)} /\ NoRepeat(Tail(s))
<1>. DEFINE t == Tail(s)
<1>1. /\ Len(s) \in Nat \ {0} /\ Len(t) = Len(s) - 1 /\ Head(s) = s[1]
      /\ \A i \in 1..Len(t) : t[i] = s[i + 1]
  OBVIOUS
<1>. HIDE DEF t
<1>2. \A i \in 1..Len(s) : i = 1 \/ (i - 1 \in 1..Len(t) /\ s[i] = t[i - 1])
  BY <1>1
<1>3. \A i \in 1..Len(t) : i + 1 \in 1..Len(s) /\ i + 1 # 1
  BY <1>1
<1>4. Head(s) \in QueueOf(s)
  BY <1>1 DEF QueueOf
<1>5. QueueOf(t) \subseteq QueueOf(s) \ {Head(s)}
  BY <1>1, <1>3 DEF QueueOf, NoRepeat
<1>6. QueueOf(s) \ {Head(s)} \subseteq QueueOf(t)
  BY <1>1, <1>2 DEF QueueOf
<1>7. NoRepeat(t)
  BY <1>1, <1>3 DEF NoRepeat
<1>. QED BY <1>4, <1>5, <1>6, <1>7 DEF t

\* Goroutines that have not started, or are through, own no message.
PendingWhileServed ==
  \A d \in Deliveries : phase[d] \in {"none", "exit", "done"} => pending[d] = {}

\* Only accepted messages and those Enqueue reports itself get an outcome.
OutcomeOnlyAfterEnqueue ==
  \A m \in Messages : Settled(m) => enq[m] \in {"accepted", "unserializable"}

\* Where the messages are, whatever callbacks do.
PlacesInv == PendingWhileServed /\ OutcomeOnlyAfterEnqueue /\ OneOwner /\ NothingLost

OwnInv == /\ PendingWhileServed /\ OutcomeOnlyAfterEnqueue
          /\ OneOwner /\ NothingLost /\ AtMostOneCallback

\* What a step of Delivery keeps.
OwnKept == PlacesInv' /\ (AtMostOneCallback => AtMostOneCallback')

LEMMA OwnInit == Init => OwnInv
<1>. SUFFICES ASSUME Init PROVE OwnInv
  OBVIOUS
<1>1. Queued = {} /\ NoRepeat(msgs)
  BY DEF Init, Queued, NoRepeat
<1>2. /\ held = None /\ batch = {} /\ absorbed = {}
      /\ \A d \in Deliveries : pending[d] = {}
      /\ \A m \in Messages : successes[m] = 0 /\ failures[m] = 0 /\ enq[m] = "new"
  BY DEF Init
<1>3. \A m \in Messages : ~Settled(m) /\ ~Owned(m)
  BY <1>1, <1>2, NoneAssumption DEF Settled, Owned
<1>4. OneOwner
  BY <1>1, <1>2, NoneAssumption DEF OneOwner, NoRepeat
<1>5. AtMostOneCallback
  BY <1>2 DEF AtMostOneCallback
<1>. QED BY <1>2, <1>3, <1>4, <1>5 DEF OwnInv, PendingWhileServed,
     OutcomeOnlyAfterEnqueue, NothingLost

\* Messages without an outcome that are settled in one step, each in one way,
\* end up with exactly one outcome.
LEMMA SettleOnce ==
  ASSUME TypeOK, NEW S, NEW F, NEW A,
         Notify(S, F), absorbed' = absorbed \cup A,
         S \cap F = {}, S \cap A = {}, F \cap A = {},
         \A m \in Messages : m \in S \cup F \cup A => ~Settled(m)
  PROVE  /\ AtMostOneCallback => AtMostOneCallback'
         /\ \A m \in Messages : Settled(m)' <=> Settled(m) \/ m \in S \cup F \cup A
<1>1. \A m \in Messages :
        /\ successes'[m] = successes[m] + (IF m \in S THEN 1 ELSE 0)
        /\ failures'[m] = failures[m] + (IF m \in F THEN 1 ELSE 0)
        /\ successes[m] \in Nat /\ failures[m] \in Nat
  BY DEF Notify, TypeOK
<1>2. ASSUME NEW m \in Messages
      PROVE  Settled(m)' <=> Settled(m) \/ m \in S \cup F \cup A
  BY <1>1 DEF Settled
<1>3. ASSUME AtMostOneCallback, NEW m \in Messages
      PROVE  successes'[m] + failures'[m] + (IF m \in absorbed' THEN 1 ELSE 0) <= 1
  BY <1>1, <1>3 DEF Settled, AtMostOneCallback
<1>. QED BY <1>2, <1>3 DEF AtMostOneCallback

\* The same for a single message that fails.
LEMMA FailOnce ==
  ASSUME TypeOK, NEW m \in Messages, Notify({}, {m}),
         absorbed' = absorbed, ~Settled(m)
  PROVE  /\ AtMostOneCallback => AtMostOneCallback'
         /\ \A x \in Messages : Settled(x)' <=> Settled(x) \/ x = m
<1>. DEFINE S == {}  F == {m}  A == {}
<1>1. /\ Notify(S, F) /\ absorbed' = absorbed \cup A
      /\ S \cap F = {} /\ S \cap A = {} /\ F \cap A = {}
      /\ \A x \in Messages : x \in S \cup F \cup A <=> x = m
  OBVIOUS
<1>. HIDE DEF S, F, A
<1>. QED BY <1>1, SettleOnce

\* A delivery settles the messages S, F and A it holds and keeps the rest.
LEMMA OwnSettle ==
  ASSUME TypeInv, PlacesInv, NEW d \in Deliveries, NEW ph \in PhaseStates,
         NEW S, NEW F, NEW A, NEW R \in SUBSET pending[d],
         Notify(S, F), absorbed' = absorbed \cup A,
         S \cap F = {}, S \cap A = {}, F \cap A = {},
         S \cup F \cup A = pending[d] \ R,
         ph \in {"none", "exit", "done"} => R = {},
         pending' = [pending EXCEPT ![d] = R],
         phase' = [phase EXCEPT ![d] = ph],
         UNCHANGED <<enq, msgs, held, batch>>
  PROVE  OwnKept
<1>1. pending[d] \subseteq Messages /\ phase \in [Deliveries -> PhaseStates]
      /\ pending \in [Deliveries -> SUBSET Messages]
  BY DEF TypeInv, TypeOK
<1>2. \A m \in S \cup F \cup A : m \in Messages /\ enq[m] = "accepted" /\ ~Settled(m)
  BY <1>1 DEF PlacesInv, NothingLost, Owned
<1>3. /\ AtMostOneCallback => AtMostOneCallback'
      /\ \A m \in Messages : Settled(m)' <=> Settled(m) \/ m \in S \cup F \cup A
  BY <1>2, SettleOnce DEF TypeInv, PlacesInv
<1>4. PendingWhileServed'
  BY <1>1 DEF PlacesInv, PendingWhileServed
<1>5. OutcomeOnlyAfterEnqueue'
  BY <1>2, <1>3 DEF PlacesInv, OutcomeOnlyAfterEnqueue
<1>6. Queued' = Queued
  BY DEF Queued
<1>7. \A e \in Deliveries : pending'[e] \subseteq pending[e] /\ (e # d => pending'[e] = pending[e])
  BY <1>1
<1>8. OneOwner'
  BY <1>6, <1>7 DEF PlacesInv, OneOwner
<1>9. ASSUME NEW m \in Messages
      PROVE  Owned(m)' <=> Owned(m) /\ m \notin S \cup F \cup A
  <2>1. pending'[d] = R
    BY <1>1
  <2>2. m \in pending[d] => m \notin Queued /\ m # held /\ m \notin batch
                            /\ \A e \in Deliveries \ {d} : m \notin pending[e]
    BY DEF PlacesInv, OneOwner
  <2>. QED BY <1>6, <1>7, <2>1, <2>2 DEF Owned
<1>10. NothingLost'
  BY <1>3, <1>9 DEF PlacesInv, NothingLost
<1>. QED BY <1>3, <1>4, <1>5, <1>8, <1>10 DEF PlacesInv, OwnKept

\* What the loop side owns: the queue, the message in hand, the batch.
LoopOwns == Queued \cup ({held} \ {None}) \cup batch

\* The loop moves messages between the places it owns.
LEMMA OwnMoveInLoop ==
  ASSUME TypeInv, TypeInv', PlacesInv, NoRepeat(msgs'), LoopOwns' = LoopOwns,
         held' \notin Queued', held' \notin batch', Queued' \cap batch' = {},
         UNCHANGED <<enq, successes, failures, absorbed, pending, phase>>
  PROVE  OwnKept
<1>1. \A m \in Messages : Settled(m)' <=> Settled(m)
  BY DEF Settled
<1>2. None \notin Messages
  BY NoneAssumption
<1>3. /\ held \in Messages \cup {None} /\ held' \in Messages \cup {None}
      /\ \A d \in Deliveries : pending[d] \subseteq Messages
  BY DEF TypeInv, TypeOK
<1>4. \A d \in Deliveries : pending[d] \cap LoopOwns = {}
  BY <1>2, <1>3 DEF PlacesInv, OneOwner, LoopOwns
<1>5. OneOwner'
  <2>1. \A d \in Deliveries : pending'[d] \cap LoopOwns' = {}
    BY <1>4
  <2>2. \A d \in Deliveries : pending'[d] \cap (Queued' \cup {held'} \cup batch') = {}
    BY <1>2, <1>3, <2>1 DEF LoopOwns
  <2>3. \A d \in Deliveries : \A e \in Deliveries \ {d} : pending'[d] \cap pending'[e] = {}
    BY DEF PlacesInv, OneOwner
  <2>4. \A i, j \in 1..Len(msgs') : msgs'[i] = msgs'[j] => i = j
    BY DEF NoRepeat
  <2>5. \A m \in Queued' : m # held' /\ m \notin batch'
    OBVIOUS
  <2>. QED BY <2>2, <2>3, <2>4, <2>5 DEF OneOwner
<1>6. ASSUME NEW m \in Messages PROVE Owned(m)' <=> Owned(m)
  BY <1>2 DEF Owned, LoopOwns
<1>7. NothingLost'
  BY <1>1, <1>6 DEF PlacesInv, NothingLost
<1>. QED BY <1>1, <1>5, <1>7
  DEF PlacesInv, OwnKept, PendingWhileServed, OutcomeOnlyAfterEnqueue, AtMostOneCallback

\* flushBatch hands the messages B from the loop to a delivery.
LEMMA OwnFlushBatch ==
  ASSUME TypeInv, TypeInv', PlacesInv, NEW B \in SUBSET Messages, FlushBatch(B),
         NoRepeat(msgs'), held' \notin Queued', held' \notin B, Queued' \cap B = {},
         Queued' \cup ({held'} \ {None}) \cup B = LoopOwns,
         UNCHANGED <<enq, successes, failures, absorbed>>
  PROVE  OwnKept
<1>. DEFINE n == Fresh
<1>1. n \in Deliveries /\ phase[n] = "none" /\ pending[n] = {}
  BY FreshIsUnused DEF FlushBatch, PlacesInv, PendingWhileServed
<1>. HIDE DEF n
<1>2. /\ pending' = [pending EXCEPT ![n] = B]
      /\ phase' = [phase EXCEPT ![n] = "submit"] /\ batch' = {}
  BY DEF FlushBatch, n
<1>3. /\ \A d \in Deliveries : pending[d] \subseteq Messages
      /\ pending \in [Deliveries -> SUBSET Messages]
      /\ phase \in [Deliveries -> PhaseStates]
      /\ held \in Messages \cup {None} /\ held' \in Messages \cup {None}
      /\ None \notin Messages
  BY NoneAssumption DEF TypeInv, TypeOK
<1>4. pending'[n] = B /\ \A d \in Deliveries \ {n} : pending'[d] = pending[d]
  BY <1>1, <1>2, <1>3
<1>5. \A m \in Messages : Settled(m)' <=> Settled(m)
  BY DEF Settled
<1>6. \A d \in Deliveries : pending[d] \cap LoopOwns = {}
  BY <1>3 DEF PlacesInv, OneOwner, LoopOwns
<1>7. PendingWhileServed'
  BY <1>2, <1>3, <1>4 DEF PlacesInv, PendingWhileServed
<1>8. OneOwner'
  <2>1. \A d \in Deliveries \ {n} : pending'[d] \cap (Queued' \cup {held'} \cup B) = {}
    BY <1>3, <1>4, <1>6
  <2>2. pending'[n] \cap (Queued' \cup {held'}) = {}
    BY <1>4
  <2>3. \A d \in Deliveries : pending'[d] \cap (Queued' \cup {held'} \cup batch') = {}
    BY <1>2, <2>1, <2>2
  <2>4. \A d, e \in Deliveries \ {n} : d # e => pending'[d] \cap pending'[e] = {}
    BY <1>4 DEF PlacesInv, OneOwner
  <2>5. \A d \in Deliveries : \A e \in Deliveries \ {d} : pending'[d] \cap pending'[e] = {}
    BY <1>4, <2>1, <2>4
  <2>6. \A i, j \in 1..Len(msgs') : msgs'[i] = msgs'[j] => i = j
    BY DEF NoRepeat
  <2>7. held' \notin batch' /\ \A m \in Queued' : m # held' /\ m \notin batch'
    BY <1>2
  <2>. QED BY <2>3, <2>5, <2>6, <2>7 DEF OneOwner
<1>9. ASSUME NEW m \in Messages PROVE Owned(m)' <=> Owned(m)
  <2>1. Owned(m) <=> m \in LoopOwns \/ \E d \in Deliveries \ {n} : m \in pending[d]
    BY <1>1, <1>3 DEF Owned, LoopOwns
  <2>2. Owned(m)' <=> \/ m \in Queued' \/ m = held' \/ m \in B
                      \/ \E d \in Deliveries \ {n} : m \in pending[d]
    BY <1>1, <1>2, <1>4 DEF Owned
  <2>. QED BY <1>3, <2>1, <2>2
<1>10. NothingLost'
  BY <1>5, <1>9 DEF PlacesInv, NothingLost
<1>. QED BY <1>5, <1>7, <1>8, <1>10
  DEF PlacesInv, OwnKept, OutcomeOnlyAfterEnqueue, AtMostOneCallback

---------------------------------------------------------------------------
(* Every action preserves PlacesInv.                                           *)

ownVars == <<enq, msgs, held, batch, phase, pending, successes, failures, absorbed>>

LEMMA QueueFacts ==
  ASSUME TypeInv, PlacesInv
  PROVE  /\ NoRepeat(msgs) /\ Queued = QueueOf(msgs) /\ Queued \subseteq Messages
         /\ held \notin Queued /\ held \notin batch /\ Queued \cap batch = {}
         /\ None \notin Queued /\ None \notin batch
<1>1. msgs \in Seq(Messages) /\ batch \subseteq Messages
  BY DEF TypeInv, TypeOK
<1>2. Queued \subseteq Messages
  BY <1>1 DEF Queued
<1>. QED BY <1>1, <1>2, NoneAssumption DEF PlacesInv, OneOwner, NoRepeat, Queued, QueueOf

\* An action that keeps every place, and every outcome.
LEMMA OwnUnchanged ==
  ASSUME PlacesInv, UNCHANGED <<enq, msgs, held, batch, pending, successes, failures, absorbed>>,
         PendingWhileServed'
  PROVE  OwnKept
<1>1. Queued' = Queued
  BY DEF Queued
<1>2. \A m \in Messages : (Settled(m)' <=> Settled(m)) /\ (Owned(m)' <=> Owned(m))
  BY <1>1 DEF Settled, Owned
<1>. QED BY <1>1, <1>2
  DEF PlacesInv, OwnKept, OutcomeOnlyAfterEnqueue, OneOwner, NothingLost, AtMostOneCallback

\* processMessage, on the message at the head of the queue.
LEMMA OwnProcessMessage ==
  ASSUME TypeInv, TypeInv', PlacesInv, msgs # << >>, lpc \in {"select", "flush", "drain"},
         ProcessMessage(Head(msgs))
  PROVE  OwnKept
<1>. DEFINE m == Head(msgs)
<1>1. held = None /\ msgs \in Seq(Messages) /\ m \in Messages
  BY HeadTailType DEF TypeInv, TypeOK, HeldOK
<1>2. msgs' = Tail(msgs) /\ UNCHANGED <<enq, absorbed>>
  BY DEF ProcessMessage
<1>3. /\ m \in Queued /\ NoRepeat(msgs') /\ Queued' = Queued \ {m}
  BY <1>1, <1>2, QueueFacts, TailOfQueue DEF Queued, QueueOf
<1>4. /\ m # None /\ m \notin batch /\ Queued \cap batch = {}
      /\ None \notin Queued /\ None \notin batch
  BY <1>1, <1>3, QueueFacts, NoneAssumption
<1>. HIDE DEF m
<1>5. CASE Size[m] > MaxMessageBytes
  <2>1. Notify({}, {m}) /\ UNCHANGED <<held, batch, phase, pending>>
    BY <1>5 DEF ProcessMessage, workVars, m
  <2>2. enq[m] = "accepted" /\ ~Settled(m)
    BY <1>1, <1>3 DEF PlacesInv, NothingLost, Owned
  <2>3. /\ AtMostOneCallback => AtMostOneCallback'
        /\ \A x \in Messages : Settled(x)' <=> Settled(x) \/ x = m
    BY <1>1, <1>2, <2>1, <2>2, FailOnce DEF TypeInv, PlacesInv
  <2>4. PendingWhileServed' /\ OutcomeOnlyAfterEnqueue'
    BY <1>1, <1>2, <2>1, <2>2, <2>3 DEF PlacesInv, PendingWhileServed, OutcomeOnlyAfterEnqueue
  <2>5. OneOwner'
    <3>1. \A i, j \in 1..Len(msgs') : msgs'[i] = msgs'[j] => i = j
      BY <1>3 DEF NoRepeat
    <3>. QED BY <1>3, <2>1, <3>1 DEF PlacesInv, OneOwner
  <2>6. \A x \in Messages : Owned(x)' <=> Owned(x) /\ x # m
    BY <1>1, <1>3, <1>4, <2>1, NoneAssumption DEF Owned, PlacesInv, OneOwner
  <2>7. NothingLost'
    BY <1>2, <2>2, <2>3, <2>6 DEF PlacesInv, NothingLost
  <2>. QED BY <2>3, <2>4, <2>5, <2>7 DEF PlacesInv, OwnKept
<1>6. CASE ~(Size[m] > MaxMessageBytes)
  <2>1. held' = m /\ UNCHANGED <<successes, failures>>
    BY <1>6 DEF ProcessMessage, m
  <2>2. Queued' \cup ({held'} \ {None}) \cup batch = LoopOwns
    BY <1>1, <1>3, <1>4, <2>1 DEF LoopOwns
  <2>3. CASE FlushBatch(batch)
    <3>1. batch \in SUBSET Messages
      BY DEF TypeInv, TypeOK
    <3>. QED BY <1>2, <1>3, <1>4, <2>1, <2>2, <2>3, <3>1, OwnFlushBatch
  <2>4. CASE UNCHANGED <<batch, phase, pending>>
    <3>1. LoopOwns' = LoopOwns
      BY <2>2, <2>4 DEF LoopOwns
    <3>. QED BY <1>2, <1>3, <1>4, <2>1, <2>4, <3>1, OwnMoveInLoop
  <2>. QED BY <1>6, <2>3, <2>4 DEF ProcessMessage, FlushIfAny, workVars, m
<1>. QED BY <1>5, <1>6

\* flushBatch of the collected batch, the queue and the hand staying as they are.
LEMMA OwnFlushIfAny ==
  ASSUME TypeInv, TypeInv', PlacesInv, NEW next, FlushIfAny(next) \/ FlushBatch(batch),
         UNCHANGED <<enq, msgs, held, successes, failures, absorbed>>
  PROVE  OwnKept
<1>1. CASE FlushBatch(batch)
  <2>1. batch \in SUBSET Messages
    BY DEF TypeInv, TypeOK
  <2>2. Queued' = Queued /\ NoRepeat(msgs')
    BY QueueFacts DEF Queued
  <2>3. Queued' \cup ({held'} \ {None}) \cup batch = LoopOwns
    BY <2>2 DEF LoopOwns
  <2>. QED BY <1>1, <2>1, <2>2, <2>3, QueueFacts, OwnFlushBatch
<1>2. CASE UNCHANGED <<batch, phase, pending>>
  BY <1>2, OwnUnchanged DEF PlacesInv, PendingWhileServed
<1>. QED BY <1>1, <1>2 DEF FlushIfAny, workVars

LEMMA OwnAppend ==
  ASSUME TypeInv, TypeInv', PlacesInv, AppendMessage PROVE OwnKept
<1>. DEFINE B == batch \cup {held}
<1>1. /\ lpc = "append" /\ held' = None
      /\ UNCHANGED <<enq, msgs, successes, failures, absorbed>>
  BY DEF AppendMessage, queueVars, reportVars
<1>2. held \in Messages /\ B \in SUBSET Messages
  BY <1>1 DEF TypeInv, TypeOK, HeldOK
<1>3. Queued' = Queued /\ NoRepeat(msgs') /\ held' \notin Queued' /\ held' \notin B
      /\ Queued' \cap B = {}
  BY <1>1, <1>2, QueueFacts, NoneAssumption DEF Queued
<1>4. Queued' \cup ({held'} \ {None}) \cup B = LoopOwns
  BY <1>1, <1>2, <1>3, NoneAssumption DEF LoopOwns
<1>. HIDE DEF B
<1>5. CASE FlushBatch(B)
  BY <1>1, <1>2, <1>3, <1>4, <1>5, OwnFlushBatch
<1>6. CASE batch' = B /\ UNCHANGED <<phase, pending>>
  <2>1. LoopOwns' = LoopOwns
    BY <1>4, <1>6 DEF LoopOwns
  <2>. QED BY <1>1, <1>3, <1>6, <2>1, OwnMoveInLoop
<1>. QED BY <1>5, <1>6 DEF AppendMessage, workVars, B

LEMMA OwnSubmitRefused ==
  ASSUME TypeInv, PlacesInv, NEW d \in Deliveries, SubmitRefused(d) PROVE OwnKept
<1>. DEFINE S == {}  A == {}  R == {}
<1>1. /\ Notify(S, pending[d]) /\ absorbed' = absorbed \cup A
      /\ pending' = [pending EXCEPT ![d] = R]
      /\ phase' = [phase EXCEPT ![d] = "done"]
      /\ UNCHANGED <<enq, msgs, held, batch>>
  BY DEF SubmitRefused, queueVars
<1>2. /\ "done" \in PhaseStates /\ R = {} /\ R \in SUBSET pending[d]
      /\ S \cap pending[d] = {} /\ S \cap A = {} /\ pending[d] \cap A = {}
      /\ S \cup pending[d] \cup A = pending[d] \ R
  BY DEF PhaseStates
<1>. HIDE DEF S, A, R
<1>. QED BY <1>1, <1>2, OwnSettle

LEMMA OwnLoop ==
  ASSUME TypeInv, TypeInv', PlacesInv, LoopStep PROVE OwnKept
<1>. USE DEF queueVars, loopVars, chanVars, workVars, doneVars, flushVars,
             closeVars, reportVars
<1>1. CASE LoopReceive \/ LoopFlushDrain \/ LoopDrain
  BY <1>1, OwnProcessMessage DEF LoopReceive, LoopFlushDrain, LoopDrain
<1>2. CASE LoopTick \/ LoopFlushRest \/ LoopFinalFlush
  <2>1. /\ \E next : FlushIfAny(next) \/ FlushBatch(batch)
        /\ UNCHANGED <<enq, msgs, held, successes, failures, absorbed>>
    BY <1>2 DEF LoopTick, LoopFlushRest, LoopFinalFlush
  <2>. QED BY <2>1, OwnFlushIfAny
<1>3. CASE AppendMessage
  BY <1>3, OwnAppend
<1>4. CASE \E d \in Deliveries : SubmitRefused(d)
  BY <1>4, OwnSubmitRefused
<1>5. ASSUME NEW d \in Deliveries, SubmitAccepted(d) PROVE OwnKept
  <2>1. UNCHANGED <<enq, msgs, held, batch, pending, successes, failures, absorbed>>
        /\ phase' = [phase EXCEPT ![d] = "queued"]
    BY <1>5 DEF SubmitAccepted
  <2>2. PendingWhileServed'
    BY <2>1 DEF TypeInv, TypeOK, PlacesInv, PendingWhileServed
  <2>. QED BY <2>1, <2>2, OwnUnchanged
<1>6. CASE LoopFlushReply \/ LoopQuit \/ AwaitDrain \/ LoopShutdown \/ LoopCloseBatches
  <2>1. UNCHANGED ownVars
    BY <1>6 DEF ownVars, LoopFlushReply, LoopQuit, AwaitDrain, LoopShutdown, LoopCloseBatches
  <2>. QED BY <2>1, OwnUnchanged DEF ownVars, PlacesInv, PendingWhileServed
<1>. QED BY <1>1, <1>2, <1>3, <1>4, <1>5, <1>6 DEF LoopStep, Submit

LEMMA OwnEnqueue ==
  ASSUME TypeInv, PlacesInv, NEW m \in Messages, Enqueue(m) PROVE OwnKept
<1>. USE DEF queueVars, loopVars, chanVars, workVars, doneVars, flushVars,
             closeVars, reportVars
<1>1. enq \in [Messages -> EnqStates] /\ msgs \in Seq(Messages)
  BY DEF TypeInv, TypeOK
<1>2. enq[m] \in {"new", "preparing"} => ~Settled(m) /\ ~Owned(m)
  BY DEF PlacesInv, OutcomeOnlyAfterEnqueue, NothingLost
<1>3. \A r : enq' = [enq EXCEPT ![m] = r]
              => enq'[m] = r /\ \A x \in Messages \ {m} : enq'[x] = enq[x]
  BY <1>1
<1>4. ASSUME enq[m] \in {"new", "preparing"}, NEW r \in EnqStates \ {"accepted"},
             enq' = [enq EXCEPT ![m] = r],
             UNCHANGED <<msgs, held, batch, phase, pending, successes, failures, absorbed>>
      PROVE  OwnKept
  <2>1. Queued' = Queued
    BY <1>4 DEF Queued
  <2>2. \A x \in Messages : (Settled(x)' <=> Settled(x)) /\ (Owned(x)' <=> Owned(x))
    BY <1>4, <2>1 DEF Settled, Owned
  <2>3. NothingLost'
    BY <1>2, <1>3, <1>4, <2>2 DEF PlacesInv, NothingLost
  <2>4. OutcomeOnlyAfterEnqueue'
    BY <1>2, <1>3, <1>4, <2>2 DEF PlacesInv, OutcomeOnlyAfterEnqueue
  <2>5. PendingWhileServed' /\ OneOwner' /\ (AtMostOneCallback => AtMostOneCallback')
    BY <1>4, <2>1 DEF PlacesInv, PendingWhileServed, OneOwner, AtMostOneCallback
  <2>. QED BY <2>3, <2>4, <2>5 DEF PlacesInv, OwnKept
<1>5. CASE EnqueueCheckClosed(m)
  BY <1>4, <1>5 DEF EnqueueCheckClosed, EnqStates
<1>6. CASE EnqueueDiscard(m)
  BY <1>4, <1>6 DEF EnqueueDiscard, EnqStates
<1>7. CASE EnqueueUnserializable(m)
  <2>1. /\ enq[m] = "preparing" /\ Notify({}, {m}) /\ absorbed' = absorbed
        /\ enq' = [enq EXCEPT ![m] = "unserializable"]
        /\ UNCHANGED <<msgs, held, batch, phase, pending>>
    BY <1>7 DEF EnqueueUnserializable
  <2>2. /\ AtMostOneCallback => AtMostOneCallback'
        /\ \A x \in Messages : Settled(x)' <=> Settled(x) \/ x = m
    BY <1>2, <2>1, FailOnce DEF TypeInv, PlacesInv
  <2>3. Queued' = Queued
    BY <2>1 DEF Queued
  <2>4. \A x \in Messages : Owned(x)' <=> Owned(x)
    BY <2>1, <2>3 DEF Owned
  <2>5. NothingLost'
    BY <1>2, <1>3, <2>1, <2>2, <2>4 DEF PlacesInv, NothingLost
  <2>6. OutcomeOnlyAfterEnqueue'
    BY <1>3, <2>1, <2>2 DEF PlacesInv, OutcomeOnlyAfterEnqueue
  <2>7. PendingWhileServed' /\ OneOwner'
    BY <2>1, <2>3 DEF PlacesInv, PendingWhileServed, OneOwner
  <2>. QED BY <2>2, <2>5, <2>6, <2>7 DEF PlacesInv, OwnKept
<1>8. CASE /\ SendPrepared(m) /\ msgs' = msgs
           /\ \E r \in {"ErrClosed", "ErrQueueFull"} : enq' = [enq EXCEPT ![m] = r]
  BY <1>4, <1>8 DEF SendPrepared, EnqStates
<1>9. CASE /\ SendPrepared(m) /\ msgs' = Append(msgs, m)
           /\ enq' = [enq EXCEPT ![m] = "accepted"]
  <2>2. /\ enq[m] = "preparing"
        /\ UNCHANGED <<held, batch, phase, pending, successes, failures, absorbed>>
    BY <1>9 DEF SendPrepared
  <2>3. NoRepeat(msgs) /\ Queued = QueueOf(msgs) /\ m \notin Queued
    BY <1>2, <2>2, QueueFacts DEF Owned
  <2>4. NoRepeat(msgs') /\ Queued' = Queued \cup {m}
    BY <1>1, <1>9, <2>3, AppendToQueue DEF Queued, QueueOf
  <2>5. m # held /\ m \notin batch /\ \A d \in Deliveries : m \notin pending[d]
    BY <1>2, <2>2 DEF Owned
  <2>6. \A i, j \in 1..Len(msgs') : msgs'[i] = msgs'[j] => i = j
    BY <2>4 DEF NoRepeat
  <2>7. OneOwner'
    BY <2>2, <2>4, <2>5, <2>6 DEF PlacesInv, OneOwner
  <2>8. \A x \in Messages : /\ Settled(x)' <=> Settled(x)
                            /\ Owned(x)' <=> Owned(x) \/ x = m
    BY <2>2, <2>4 DEF Settled, Owned
  <2>9. NothingLost'
    BY <1>2, <1>3, <1>9, <2>2, <2>8 DEF PlacesInv, NothingLost
  <2>10. OutcomeOnlyAfterEnqueue' /\ PendingWhileServed' /\ (AtMostOneCallback => AtMostOneCallback')
    BY <1>3, <1>9, <2>2, <2>8
    DEF PlacesInv, OutcomeOnlyAfterEnqueue, PendingWhileServed, AtMostOneCallback
  <2>. QED BY <2>7, <2>9, <2>10 DEF PlacesInv, OwnKept
<1>10. SendPrepared(m) => \/ msgs' = msgs /\ \E r \in {"ErrClosed", "ErrQueueFull"} :
                                               enq' = [enq EXCEPT ![m] = r]
                          \/ msgs' = Append(msgs, m) /\ enq' = [enq EXCEPT ![m] = "accepted"]
  BY DEF SendPrepared
<1>. QED BY <1>5, <1>6, <1>7, <1>8, <1>9, <1>10 DEF Enqueue

\* The batch ends: its messages are settled as S and F.
LEMMA OwnFinish ==
  ASSUME TypeInv, PlacesInv, NEW d \in Deliveries, phase[d] # "none",
         NEW S, NEW F, NEW A, Finish(d, S, F), absorbed' = absorbed \cup A,
         S \cap F = {}, S \cap A = {}, F \cap A = {}, S \cup F \cup A = pending[d],
         UNCHANGED <<enq, msgs, held, batch>>
  PROVE  OwnKept
<1>. DEFINE R == {}
<1>1. /\ Notify(S, F) /\ pending' = [pending EXCEPT ![d] = R]
      /\ phase' = [phase EXCEPT ![d] = "exit"]
  BY DEF Finish
<1>2. "exit" \in PhaseStates /\ R = {} /\ R \in SUBSET pending[d]
      /\ S \cup F \cup A = pending[d] \ R
  BY DEF PhaseStates
<1>. HIDE DEF R
<1>. QED BY <1>1, <1>2, OwnSettle

\* All messages of the batch fail.
LEMMA OwnFailAll ==
  ASSUME TypeInv, PlacesInv, NEW d \in Deliveries, phase[d] # "none",
         Finish(d, {}, pending[d]), UNCHANGED <<enq, msgs, held, batch, absorbed>>
  PROVE  OwnKept
<1>. DEFINE S == {}  A == {}
<1>1. /\ Finish(d, S, pending[d]) /\ absorbed' = absorbed \cup A
      /\ S \cap pending[d] = {} /\ S \cap A = {} /\ pending[d] \cap A = {}
      /\ S \cup pending[d] \cup A = pending[d]
  OBVIOUS
<1>. HIDE DEF S, A
<1>. QED BY <1>1, OwnFinish

\* A step of an upload goroutine that settles nothing.
LEMMA OwnPhase ==
  ASSUME TypeInv, PlacesInv, NEW d \in Deliveries, NEW ph,
         phase' = [phase EXCEPT ![d] = ph],
         ph \notin {"none", "exit", "done"} \/ phase[d] = "exit",
         UNCHANGED <<enq, msgs, held, batch, pending, successes, failures, absorbed>>
  PROVE  OwnKept
<1>1. PendingWhileServed'
  BY DEF TypeInv, TypeOK, PlacesInv, PendingWhileServed
<1>. QED BY <1>1, OwnUnchanged

LEMMA OwnUploadPartial ==
  ASSUME TypeInv, PlacesInv, NEW d \in Deliveries, UploadPartial(d) PROVE OwnKept
<1>1. PICK results \in [pending[d] -> {"ok", "drop", "retry", "absent"}] :
        LET Part(r) == PartitionV1Results(d, results, r)
        IN  /\ absorbed' = absorbed \cup Part("absent")
            /\ IF Part("retry") = {} \/ LastAttempt(d)
               THEN Finish(d, Part("ok"), Part("drop") \cup Part("retry"))
               ELSE /\ Notify(Part("ok"), Part("drop"))
                    /\ pending' = [pending EXCEPT ![d] = Part("retry")]
                    /\ phase' = [phase EXCEPT ![d] = "defer"]
  BY DEF UploadPartial
<1>. DEFINE OK == PartitionV1Results(d, results, "ok")
            Drop == PartitionV1Results(d, results, "drop")
            Retry == PartitionV1Results(d, results, "retry")
            Absent == PartitionV1Results(d, results, "absent")
<1>2. /\ OK \cap Drop = {} /\ OK \cap Absent = {} /\ Drop \cap Absent = {}
      /\ Retry \cap (OK \cup Drop \cup Absent) = {}
      /\ OK \cup Drop \cup Retry \cup Absent = pending[d]
  BY DEF PartitionV1Results
<1>3. absorbed' = absorbed \cup Absent /\ phase[d] = "upload"
      /\ UNCHANGED <<enq, msgs, held, batch>>
  BY <1>1 DEF UploadPartial, queueVars, loopVars
<1>4. \/ Finish(d, OK, Drop \cup Retry)
      \/ /\ Notify(OK, Drop) /\ pending' = [pending EXCEPT ![d] = Retry]
         /\ phase' = [phase EXCEPT ![d] = "defer"]
  BY <1>1
<1>. HIDE DEF OK, Drop, Retry, Absent
<1>5. CASE Finish(d, OK, Drop \cup Retry)
  <2>. DEFINE Failed == Drop \cup Retry
  <2>1. /\ Finish(d, OK, Failed) /\ OK \cap Failed = {} /\ Failed \cap Absent = {}
        /\ OK \cup Failed \cup Absent = pending[d]
    BY <1>2, <1>5
  <2>. HIDE DEF Failed
  <2>. QED BY <1>2, <1>3, <2>1, OwnFinish
<1>6. CASE /\ Notify(OK, Drop) /\ pending' = [pending EXCEPT ![d] = Retry]
           /\ phase' = [phase EXCEPT ![d] = "defer"]
  <2>1. /\ Retry \in SUBSET pending[d] /\ OK \cup Drop \cup Absent = pending[d] \ Retry
        /\ "defer" \in PhaseStates /\ "defer" \notin {"none", "exit", "done"}
    BY <1>2 DEF PhaseStates
  <2>. QED BY <1>2, <1>3, <1>6, <2>1, OwnSettle
<1>. QED BY <1>4, <1>5, <1>6

LEMMA OwnWorker ==
  ASSUME TypeInv, PlacesInv, NEW d \in Deliveries, Worker(d) PROVE OwnKept
<1>. USE DEF queueVars, loopVars, reportVars
<1>1. CASE UploadOK(d)
  <2>. DEFINE F == {}  A == {}
  <2>1. /\ Finish(d, pending[d], F) /\ absorbed' = absorbed \cup A /\ phase[d] # "none"
        /\ pending[d] \cap F = {} /\ pending[d] \cap A = {} /\ F \cap A = {}
        /\ pending[d] \cup F \cup A = pending[d]
        /\ UNCHANGED <<enq, msgs, held, batch>>
    BY <1>1 DEF UploadOK
  <2>. HIDE DEF F, A
  <2>. QED BY <2>1, OwnFinish
<1>2. CASE UploadTerminal(d) \/ RetryInterrupted(d)
  BY <1>2, OwnFailAll DEF UploadTerminal, RetryInterrupted
<1>3. CASE UploadRetryable(d) \/ RetryTimer(d)
  <2>1. /\ phase[d] # "none" /\ UNCHANGED <<enq, msgs, held, batch, absorbed>>
        /\ \/ Finish(d, {}, pending[d])
           \/ /\ \E ph \in {"backoff", "defer", "ready"} : phase' = [phase EXCEPT ![d] = ph]
              /\ UNCHANGED <<pending, successes, failures>>
    BY <1>3 DEF UploadRetryable, RetryTimer
  <2>. QED BY <2>1, OwnFailAll, OwnPhase
<1>4. CASE UploadPartial(d)
  BY <1>4, OwnUploadPartial
<1>5. CASE BeginUpload(d) \/ DeferRetry(d) \/ ProcessBatchReturn(d)
  <2>1. /\ UNCHANGED <<enq, msgs, held, batch, pending, successes, failures, absorbed>>
        /\ \E ph : /\ phase' = [phase EXCEPT ![d] = ph]
                   /\ ph \notin {"none", "exit", "done"} \/ phase[d] = "exit"
    BY <1>5 DEF BeginUpload, DeferRetry, ProcessBatchReturn
  <2>. QED BY <2>1, OwnPhase
<1>. QED BY <1>1, <1>2, <1>3, <1>4, <1>5 DEF Worker, UploadEnds

LEMMA OwnProcessBatch ==
  ASSUME TypeInv, PlacesInv, ProcessBatch PROVE OwnKept
<1>1. UNCHANGED <<enq, msgs, held, batch, pending, successes, failures, absorbed>>
  BY DEF ProcessBatch, queueVars, loopVars, reportVars
<1>2. CASE batches # << >>
  <2>1. Head(batches) \in Deliveries
    BY <1>2, HeadTailType DEF TypeInv, TypeOK
  <2>2. phase' = [phase EXCEPT ![Head(batches)] = "ready"]
    BY <1>2 DEF ProcessBatch
  <2>. QED BY <1>1, <2>1, <2>2, OwnPhase
<1>3. CASE batches = << >>
  BY <1>1, <1>3, OwnUnchanged DEF ProcessBatch, PlacesInv, PendingWhileServed
<1>. QED BY <1>2, <1>3

LEMMA OwnFlushClose ==
  ASSUME PlacesInv, (\E f \in Flushers : Flush(f)) \/ (\E k \in Closers : Close(k)) \/ UNCHANGED vars
  PROVE  OwnKept
<1>1. UNCHANGED ownVars
  <2>. USE DEF ownVars, vars, queueVars, loopVars, workVars, reportVars
  <2>1. ASSUME NEW f \in Flushers, Flush(f) PROVE UNCHANGED ownVars
    BY <2>1 DEF Flush, FlushCall, LoopFlushRequest, FlushQuit, FlushCtxDone, FlushReturn
  <2>2. ASSUME NEW k \in Closers, Close(k) PROVE UNCHANGED ownVars
    BY <2>2 DEF Close, CloseCall, CloseQuit, CloseTimeout, CloseReturn, CloseAgain
  <2>. QED BY <2>1, <2>2
<1>. QED BY <1>1, OwnUnchanged DEF ownVars, PlacesInv, PendingWhileServed
LEMMA PlacesNext == ASSUME TypeInv, PlacesInv, [Next]_vars PROVE OwnKept
<1>1. TypeInv'
  BY TypeNext
<1>. QED BY <1>1, OwnEnqueue, OwnLoop, OwnProcessBatch, OwnWorker, OwnFlushClose
     DEF Next, Terminated

LEMMA OwnNext == ASSUME TypeInv, OwnInv, [Next]_vars PROVE OwnInv'
BY PlacesNext DEF OwnInv, PlacesInv, OwnKept

LEMMA Ownership == Spec => []OwnInv
BY TypeInvariant, OwnInit, OwnNext, PTL DEF Spec

\* No message is ever reported twice: at most one callback runs for it, and
\* none when capture-v1 took it in silence.
THEOREM ReportedOnce == Spec => []AtMostOneCallback
BY Ownership, PTL DEF OwnInv

\* A message is in one place only: the queue, the loop's hand, the loop's batch
\* and every delivery are disjoint, so nothing is uploaded by two batches.
THEOREM NeverInTwoBatches == Spec => []OneOwner
BY Ownership, PTL DEF OwnInv

\* A message Enqueue accepted is owned exactly as long as it has no outcome: it
\* cannot be dropped by a full channel, a retry, Flush or Close.
THEOREM NeverLost == Spec => []NothingLost
BY Ownership, PTL DEF OwnInv

\* A message that has its outcome is never part of a later upload attempt: not
\* of a retry of the batch, and not of the partial retries of capture-v1.
THEOREM NeverUploadedAgain == Spec => NoUploadOfSettled
<1>1. ASSUME OwnInv, NEW d \in Deliveries, NEW m \in pending[d], TypeOK
      PROVE  ~Settled(m)
  BY <1>1 DEF OwnInv, NothingLost, Owned, TypeOK
<1>2. OwnInv /\ TypeOK =>
        [\A d \in Deliveries : phase[d] = "ready" /\ phase'[d] = "upload"
           => \A m \in pending[d] : ~Settled(m)]_vars
  BY <1>1
<1>. QED BY <1>2, Ownership, TypeCorrect, PTL DEF NoUploadOfSettled

---------------------------------------------------------------------------
(* Shutdown order: a Close call returns after the loop has closed msgs.     *)

ShutdownOrder ==
  /\ lpc \in {"drain", "await", "return", "closeBatches", "stopped"} => msgsClosed
  /\ shutdown => msgsClosed
  /\ \A k \in Closers : closer[k] \in {"nil", "timeout"} => shutdown

LEMMA ShutdownOrderInit == Init => ShutdownOrder
BY DEF Init, ShutdownOrder

\* processMessage reaches the shutdown part of the loop only from there.
LEMMA ProcessMessageReturns ==
  ASSUME TypeInv, NEW m, ProcessMessage(m)
  PROVE  lpc' \in {"submit", "append", "select", "flush"} \/ (lpc' = "drain" /\ msgsClosed)
BY DEF ProcessMessage, FlushIfAny, FlushBatch, AfterMessage

LEMMA ShutdownOrderLoop ==
  ASSUME TypeInv, ShutdownOrder, LoopStep PROVE ShutdownOrder'
<1>. USE DEF ShutdownOrder, queueVars, loopVars, chanVars, workVars, doneVars,
             flushVars, closeVars, reportVars
<1>1. CASE LoopReceive \/ LoopFlushDrain \/ LoopDrain
  <2>1. /\ UNCHANGED <<msgsClosed, shutdown, closer>>
        /\ lpc' \in {"submit", "append", "select", "flush"} \/ (lpc' = "drain" /\ msgsClosed)
    BY <1>1, ProcessMessageReturns
    DEF LoopReceive, LoopFlushDrain, LoopDrain, ProcessMessage
  <2>. QED BY <2>1
<1>2. CASE LoopTick \/ LoopFlushRest \/ LoopFlushReply
  BY <1>2 DEF LoopTick, LoopFlushRest, LoopFlushReply, FlushIfAny, FlushBatch
<1>3. CASE AppendMessage
  BY <1>3 DEF AppendMessage, AfterMessage, FlushBatch
<1>4. CASE LoopQuit \/ LoopFinalFlush \/ AwaitDrain \/ LoopShutdown \/ LoopCloseBatches
  BY <1>4 DEF LoopQuit, LoopFinalFlush, AwaitDrain, LoopShutdown, LoopCloseBatches,
              FlushIfAny, FlushBatch
<1>5. CASE Submit
  BY <1>5 DEF Submit, SubmitAccepted, SubmitRefused, AfterFlush, AfterMessage
<1>. QED BY <1>1, <1>2, <1>3, <1>4, <1>5 DEF LoopStep

LEMMA ShutdownOrderNext ==
  ASSUME TypeInv, ShutdownOrder, [Next]_vars PROVE ShutdownOrder'
<1>. USE DEF queueVars, loopVars, chanVars, workVars, doneVars, flushVars,
             closeVars, reportVars
<1>1. CASE LoopStep
  BY <1>1, ShutdownOrderLoop
<1>2. ASSUME NEW f \in Flushers, Flush(f) PROVE ShutdownOrder'
  BY <1>2 DEF ShutdownOrder, Flush, FlushCall, LoopFlushRequest, FlushQuit, FlushCtxDone,
              FlushReturn
<1>3. ASSUME NEW k \in Closers, Close(k) PROVE ShutdownOrder'
  <2>1. UNCHANGED <<lpc, msgsClosed, shutdown>>
    BY <1>3 DEF Close, CloseCall, CloseQuit, CloseTimeout, CloseReturn, CloseAgain
  <2>2. \A j \in Closers : closer'[j] \in {"nil", "timeout"}
                             => shutdown \/ closer[j] \in {"nil", "timeout"}
    BY <1>3 DEF TypeInv, TypeOK, Close, CloseCall, CloseQuit, CloseTimeout, CloseReturn,
                CloseAgain
  <2>. QED BY <2>1, <2>2 DEF ShutdownOrder
<1>4. ASSUME UNCHANGED <<lpc, msgsClosed, shutdown, closer>> PROVE ShutdownOrder'
  BY <1>4 DEF ShutdownOrder
<1>5. ASSUME NEW m \in Messages, Enqueue(m) PROVE ShutdownOrder'
  BY <1>4, <1>5 DEF Enqueue, EnqueueCheckClosed, EnqueueDiscard, EnqueueUnserializable,
                    SendPrepared
<1>6. CASE ProcessBatch
  BY <1>4, <1>6 DEF ProcessBatch
<1>7. ASSUME NEW d \in Deliveries, Worker(d) PROVE ShutdownOrder'
  BY <1>4, <1>7 DEF Worker, BeginUpload, UploadEnds, UploadOK, UploadTerminal,
     UploadRetryable, UploadPartial, DeferRetry, RetryTimer, RetryInterrupted,
     ProcessBatchReturn
<1>8. CASE UNCHANGED vars
  BY <1>4, <1>8 DEF vars
<1>. QED BY <1>1, <1>2, <1>3, <1>5, <1>6, <1>7, <1>8 DEF Next, Terminated

\* Enqueue accepts a message by a send on msgs only, and that channel is closed
\* before any Close call returns.
LEMMA AcceptedNeedsOpenQueue ==
  ASSUME TypeInv, [Next]_vars, msgsClosed PROVE Accepted' = Accepted
<1>1. enq' = enq => Accepted' = Accepted
  BY DEF Accepted
<1>2. ASSUME NEW m \in Messages, Enqueue(m) PROVE Accepted' = Accepted
  <2>1. /\ enq[m] \in {"new", "preparing"}
        /\ \E r \in EnqStates \ {"accepted"} : enq' = [enq EXCEPT ![m] = r]
    BY <1>2 DEF Enqueue, EnqueueCheckClosed, EnqueueDiscard, EnqueueUnserializable,
                SendPrepared, EnqStates
  <2>2. \A x \in Messages : enq'[x] = "accepted" <=> enq[x] = "accepted"
    BY <2>1 DEF TypeInv, TypeOK
  <2>. QED BY <2>2 DEF Accepted
<1>3. CASE LoopStep
  BY <1>1, <1>3 DEF LoopStep, LoopReceive, LoopTick, LoopFlushDrain, LoopFlushRest,
     LoopFlushReply, LoopQuit, LoopDrain, LoopFinalFlush, AppendMessage, AwaitDrain,
     LoopShutdown, LoopCloseBatches, Submit, SubmitAccepted, SubmitRefused, ProcessMessage
<1>4. CASE ProcessBatch
  BY <1>1, <1>4 DEF ProcessBatch
<1>5. ASSUME NEW d \in Deliveries, Worker(d) PROVE Accepted' = Accepted
  BY <1>1, <1>5 DEF Worker, BeginUpload, UploadEnds, UploadOK, UploadTerminal,
     UploadRetryable, UploadPartial, DeferRetry, RetryTimer, RetryInterrupted,
     ProcessBatchReturn
<1>6. ASSUME NEW f \in Flushers, Flush(f) PROVE Accepted' = Accepted
  BY <1>1, <1>6 DEF Flush, FlushCall, LoopFlushRequest, FlushQuit, FlushCtxDone, FlushReturn
<1>7. ASSUME NEW k \in Closers, Close(k) PROVE Accepted' = Accepted
  BY <1>1, <1>7 DEF Close, CloseCall, CloseQuit, CloseTimeout, CloseReturn, CloseAgain
<1>8. CASE UNCHANGED vars
  BY <1>1, <1>8 DEF vars
<1>. QED BY <1>2, <1>3, <1>4, <1>5, <1>6, <1>7, <1>8 DEF Next, Terminated

\* Once a Close call has returned, Enqueue accepts nothing, whatever Enqueue
\* calls were under way and whether or not the deadline had passed.
THEOREM ClosedForGood == Spec => NothingAcceptedAfterClose
<1>1. TypeInv /\ ShutdownOrder /\ [Next]_vars =>
        [(\E k \in Closers : closer[k] \in {"nil", "timeout"}) => Accepted' = Accepted]_vars
  BY AcceptedNeedsOpenQueue DEF ShutdownOrder
<1>. QED BY <1>1, TypeInvariant, ShutdownOrderInit, ShutdownOrderNext, PTL
     DEF Spec, NothingAcceptedAfterClose
---------------------------------------------------------------------------
(* Success is honest.                                                       *)

\* A step that reports success for acknowledged messages only keeps the property.
LEMMA AckNotify ==
  ASSUME TypeInv, SuccessMeansAcked, NEW S \in SUBSET acked', NEW F, Notify(S, F),
         acked \subseteq acked'
  PROVE  SuccessMeansAcked'
<1>1. ASSUME NEW m \in Messages, successes'[m] > 0 PROVE m \in acked'
  <2>1. CASE m \in S
    BY <2>1
  <2>2. CASE m \notin S
    <3>1. successes'[m] = successes[m]
      BY <2>2 DEF Notify, TypeInv, TypeOK
    <3>. QED BY <1>1, <3>1 DEF SuccessMeansAcked
  <2>. QED BY <2>1, <2>2
<1>. QED BY <1>1 DEF SuccessMeansAcked

LEMMA AckUnchanged ==
  ASSUME SuccessMeansAcked, UNCHANGED <<successes, acked>> PROVE SuccessMeansAcked'
BY DEF SuccessMeansAcked

LEMMA AckWorker ==
  ASSUME TypeInv, SuccessMeansAcked, NEW d \in Deliveries, Worker(d)
  PROVE  SuccessMeansAcked'
<1>1. CASE UploadOK(d)
  <2>1. Notify(pending[d], {}) /\ acked' = acked \cup pending[d]
    BY <1>1 DEF UploadOK, Finish
  <2>. QED BY <2>1, AckNotify
<1>2. CASE UploadPartial(d)
  <2>1. PICK results \in [pending[d] -> {"ok", "drop", "retry", "absent"}] :
          /\ acked' = acked \cup PartitionV1Results(d, results, "ok")
          /\ \E F : Notify(PartitionV1Results(d, results, "ok"), F)
    BY <1>2 DEF UploadPartial, Finish
  <2>. QED BY <2>1, AckNotify
<1>3. CASE UploadTerminal(d) \/ UploadRetryable(d) \/ RetryTimer(d) \/ RetryInterrupted(d)
  <2>1. acked' = acked /\ (Notify({}, pending[d]) \/ UNCHANGED successes)
    BY <1>3 DEF UploadTerminal, UploadRetryable, RetryTimer, RetryInterrupted, Finish
  <2>. QED BY <2>1, AckNotify, AckUnchanged
<1>4. CASE BeginUpload(d) \/ DeferRetry(d) \/ ProcessBatchReturn(d)
  BY <1>4, AckUnchanged DEF BeginUpload, DeferRetry, ProcessBatchReturn, reportVars
<1>. QED BY <1>1, <1>2, <1>3, <1>4 DEF Worker, UploadEnds

LEMMA AckLoop ==
  ASSUME TypeInv, SuccessMeansAcked, LoopStep PROVE SuccessMeansAcked'
<1>1. CASE LoopReceive \/ LoopFlushDrain \/ LoopDrain
  <2>1. acked' = acked /\ ((\E m : Notify({}, {m})) \/ UNCHANGED successes)
    BY <1>1 DEF LoopReceive, LoopFlushDrain, LoopDrain, ProcessMessage, reportVars
  <2>. QED BY <2>1, AckNotify, AckUnchanged
<1>2. CASE Submit
  <2>1. acked' = acked /\ ((\E d : Notify({}, pending[d])) \/ UNCHANGED successes)
    BY <1>2 DEF Submit, SubmitAccepted, SubmitRefused, reportVars
  <2>. QED BY <2>1, AckNotify, AckUnchanged
<1>3. CASE LoopTick \/ LoopFlushRest \/ LoopFlushReply \/ LoopQuit \/ LoopFinalFlush
           \/ AppendMessage \/ AwaitDrain \/ LoopShutdown \/ LoopCloseBatches
  BY <1>3, AckUnchanged
  DEF LoopTick, LoopFlushRest, LoopFlushReply, LoopQuit, LoopFinalFlush, AppendMessage,
      AwaitDrain, LoopShutdown, LoopCloseBatches, reportVars
<1>. QED BY <1>1, <1>2, <1>3 DEF LoopStep

LEMMA AckNext ==
  ASSUME TypeInv, SuccessMeansAcked, [Next]_vars PROVE SuccessMeansAcked'
<1>1. ASSUME NEW m \in Messages, Enqueue(m) PROVE SuccessMeansAcked'
  <2>1. acked' = acked /\ (Notify({}, {m}) \/ UNCHANGED successes)
    BY <1>1 DEF Enqueue, EnqueueCheckClosed, EnqueueDiscard, EnqueueUnserializable,
                SendPrepared, reportVars
  <2>. QED BY <2>1, AckNotify, AckUnchanged
<1>2. CASE ProcessBatch
  BY <1>2, AckUnchanged DEF ProcessBatch, reportVars
<1>3. ASSUME NEW f \in Flushers, Flush(f) PROVE SuccessMeansAcked'
  BY <1>3, AckUnchanged
  DEF Flush, FlushCall, LoopFlushRequest, FlushQuit, FlushCtxDone, FlushReturn, reportVars
<1>4. ASSUME NEW k \in Closers, Close(k) PROVE SuccessMeansAcked'
  BY <1>4, AckUnchanged
  DEF Close, CloseCall, CloseQuit, CloseTimeout, CloseReturn, CloseAgain, reportVars
<1>5. CASE UNCHANGED vars
  BY <1>5, AckUnchanged DEF vars, reportVars
<1>. QED BY <1>1, <1>2, <1>3, <1>4, <1>5, AckLoop, AckWorker DEF Next, Terminated

\* Callback.Success is only called for a message the server acknowledged, whatever
\* was retried, shed or interrupted before.
THEOREM SuccessIsHonest == Spec => []SuccessMeansAcked
<1>1. Init => SuccessMeansAcked
  BY DEF Init, SuccessMeansAcked
<1>. QED BY <1>1, TypeInvariant, AckNext, PTL DEF Spec
=============================================================================
