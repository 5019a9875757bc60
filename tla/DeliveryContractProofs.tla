----------------------- MODULE DeliveryContractProofs -----------------------
(* Proofs that the pipeline of Delivery keeps what it promises: the         *)
(* contracts of Close and of Flush, those of DeliveryContract, and that     *)
(* nothing is lost when a callback panics.                                  *)
EXTENDS DeliveryProofs, DeliveryRefinement, DeliveryPanic

---------------------------------------------------------------------------
(* What a step does to the batches and their goroutines.                    *)

\* The deliveries that a goroutine, or the loop, still has to bring to an end.
Busy == {d \in Deliveries : phase[d] \notin {"none", "done"}}

LEMMA BusyFinite == IsFiniteSet(Busy) /\ Cardinality(Busy) \in Nat
BY DeliveriesAssumption, FS_Subset, FS_CardinalityType DEF Busy

\* The loop makes a delivery, brings one to the channel or sheds it, or leaves all
\* of them alone.
LEMMA LoopKinds ==
  ASSUME TypeInv, LoopStep
  PROVE  \/ /\ \E B \in SUBSET Messages : FlushBatch(B)
            /\ UNCHANGED <<batches, receivers>>
         \/ UNCHANGED <<workVars, doneVars, batches, receivers>>
         \/ \E d \in Deliveries : SubmitAccepted(d) \/ SubmitRefused(d)
<1>1. batch \in SUBSET Messages
  BY DEF TypeInv, TypeOK
<1>2. CASE LoopReceive \/ LoopFlushDrain \/ LoopDrain \/ LoopTick \/ LoopFlushRest \/ LoopFinalFlush
  BY <1>1, <1>2
  DEF LoopReceive, LoopFlushDrain, LoopDrain, LoopTick, LoopFlushRest, LoopFinalFlush,
      ProcessMessage, FlushIfAny, chanVars
<1>3. CASE AppendMessage
  <2>1. batch \cup {held} \in SUBSET Messages
    BY <1>1, <1>3 DEF AppendMessage, TypeInv, TypeOK, HeldOK
  <2>. QED BY <1>3, <2>1 DEF AppendMessage, chanVars
<1>4. CASE LoopFlushReply \/ LoopQuit \/ AwaitDrain \/ LoopShutdown \/ LoopCloseBatches
  BY <1>4 DEF LoopFlushReply, LoopQuit, AwaitDrain, LoopShutdown, LoopCloseBatches, chanVars
<1>. QED BY <1>2, <1>3, <1>4 DEF LoopStep, Submit

\* The goroutine of a delivery moves on, or returns.
LEMMA WorkerKinds ==
  ASSUME TypeInv, NEW d \in Deliveries, Worker(d)
  PROVE  /\ UNCHANGED <<batches, receivers>>
         /\ \/ /\ \E ph \in PhaseStates \ {"none", "submit", "queued", "done"} :
                    phase' = [phase EXCEPT ![d] = ph]
               /\ phase[d] \notin {"none", "submit", "queued", "done"}
               /\ UNCHANGED inFlight
            \/ ProcessBatchReturn(d)
<1>. USE DEF PhaseStates, chanVars
<1>1. CASE BeginUpload(d) \/ DeferRetry(d)
  BY <1>1 DEF BeginUpload, DeferRetry
<1>2. CASE UploadOK(d) \/ UploadTerminal(d) \/ UploadRetryable(d) \/ RetryTimer(d) \/ RetryInterrupted(d)
  BY <1>2 DEF UploadOK, UploadTerminal, UploadRetryable, RetryTimer, RetryInterrupted, Finish
<1>3. CASE UploadPartial(d)
  BY <1>3 DEF UploadPartial, Finish
<1>4. CASE ProcessBatchReturn(d)
  BY <1>4 DEF ProcessBatchReturn
<1>. QED BY <1>1, <1>2, <1>3, <1>4 DEF Worker, UploadEnds

\* Callers of Enqueue, Flush and Close leave the deliveries alone.
LEMMA CallersKeepWork ==
  ASSUME \/ \E m \in Messages : Enqueue(m)
         \/ \E f \in Flushers : Flush(f)
         \/ \E k \in Closers : Close(k)
         \/ UNCHANGED vars
  PROVE  UNCHANGED <<workVars, doneVars, chanVars>>
<1>1. ASSUME NEW m \in Messages, Enqueue(m) PROVE UNCHANGED <<workVars, doneVars, chanVars>>
  BY <1>1 DEF Enqueue, EnqueueCheckClosed, EnqueueDiscard, EnqueueUnserializable, SendPrepared
<1>2. ASSUME NEW f \in Flushers, Flush(f) PROVE UNCHANGED <<workVars, doneVars, chanVars>>
  BY <1>2 DEF Flush, FlushCall, LoopFlushRequest, FlushQuit, FlushCtxDone, FlushReturn
<1>3. ASSUME NEW k \in Closers, Close(k) PROVE UNCHANGED <<workVars, doneVars, chanVars>>
  BY <1>3 DEF Close, CloseCall, CloseQuit, CloseTimeout, CloseReturn, CloseAgain
<1>. QED BY <1>1, <1>2, <1>3 DEF vars, workVars, doneVars, chanVars

---------------------------------------------------------------------------
(* Counting.  inFlight counts the busy deliveries, and for every batch in   *)
(* the channel there is a goroutine to receive it.                          *)

CountInv ==
  /\ receivers = Len(batches) /\ inFlight = Cardinality(Busy)
  /\ NoRepeat(batches) /\ \A i \in 1..Len(batches) : phase[batches[i]] = "queued"

LEMMA CountInit == Init => CountInv
<1>. SUFFICES ASSUME Init PROVE CountInv
  OBVIOUS
<1>1. Busy = {} /\ batches = << >> /\ receivers = 0 /\ inFlight = 0
  BY DEF Init, Busy
<1>. QED BY <1>1, FS_EmptySet DEF CountInv, NoRepeat

\* Goroutines move on without getting through, the channel stays as it is.
LEMMA CountUnchanged ==
  ASSUME CountInv, UNCHANGED <<batches, receivers, inFlight>>, Busy' = Busy,
         \A d \in Deliveries : phase[d] = "queued" => phase'[d] = "queued",
         TypeOK
  PROVE  CountInv'
<1>1. \A i \in 1..Len(batches) : batches[i] \in Deliveries
  BY DEF TypeOK
<1>. QED BY <1>1 DEF CountInv, NoRepeat

\* One delivery leaves the count.
LEMMA CountDone ==
  ASSUME TypeOK, CountInv, NEW d \in Busy, phase[d] # "queued",
         phase' = [phase EXCEPT ![d] = "done"], inFlight' = inFlight - 1,
         UNCHANGED <<batches, receivers>>
  PROVE  CountInv'
<1>1. d \in Deliveries /\ phase \in [Deliveries -> PhaseStates]
      /\ \A i \in 1..Len(batches) : batches[i] \in Deliveries
  BY DEF Busy, TypeOK
<1>2. Busy' = Busy \ {d}
  BY <1>1 DEF Busy
<1>3. Cardinality(Busy') = Cardinality(Busy) - 1
  BY <1>2, BusyFinite, FS_RemoveElement
<1>4. \A i \in 1..Len(batches) : phase'[batches[i]] = "queued"
  BY <1>1 DEF CountInv
<1>. QED BY <1>3, <1>4 DEF CountInv, NoRepeat

LEMMA CountLoop ==
  ASSUME TypeInv, CountInv, LoopStep PROVE CountInv'
<1>. USE DEF TypeInv
<1>1. ASSUME NEW B \in SUBSET Messages, FlushBatch(B), UNCHANGED <<batches, receivers>>
      PROVE  CountInv'
  <2>. DEFINE n == Fresh
  <2>1. /\ n \in Deliveries /\ phase[n] = "none"
        /\ phase' = [phase EXCEPT ![n] = "submit"] /\ inFlight' = inFlight + 1
    BY <1>1, FreshIsUnused DEF FlushBatch
  <2>. HIDE DEF n
  <2>2. phase \in [Deliveries -> PhaseStates]
        /\ \A i \in 1..Len(batches) : batches[i] \in Deliveries
    BY DEF TypeOK
  <2>3. Busy' = Busy \cup {n} /\ n \notin Busy
    BY <2>1, <2>2 DEF Busy
  <2>4. Cardinality(Busy') = Cardinality(Busy) + 1
    BY <2>3, BusyFinite, FS_AddElement
  <2>5. \A i \in 1..Len(batches) : phase'[batches[i]] = "queued"
    BY <2>1, <2>2 DEF CountInv
  <2>. QED BY <1>1, <2>1, <2>4, <2>5 DEF CountInv, NoRepeat
<1>2. CASE UNCHANGED <<workVars, doneVars, batches, receivers>>
  BY <1>2, CountUnchanged DEF workVars, Busy
<1>3. ASSUME NEW d \in Deliveries, SubmitAccepted(d) PROVE CountInv'
  <2>1. /\ batches' = Append(batches, d) /\ receivers' = receivers + 1
        /\ phase[d] = "submit" /\ phase' = [phase EXCEPT ![d] = "queued"]
        /\ inFlight' = inFlight
    BY <1>3 DEF SubmitAccepted
  <2>2. /\ phase \in [Deliveries -> PhaseStates] /\ batches \in Seq(Deliveries)
        /\ NoRepeat(batches) /\ \A i \in 1..Len(batches) : phase[batches[i]] = "queued"
    BY DEF TypeOK, CountInv
  <2>3. d \notin QueueOf(batches)
    BY <2>1, <2>2 DEF QueueOf
  <2>4. NoRepeat(batches')
    BY <2>1, <2>2, <2>3, AppendToQueue
  <2>5. Len(batches') = Len(batches) + 1 /\ Len(batches) \in Nat
        /\ \A i \in 1..Len(batches') : batches'[i] = d \/ (i \in 1..Len(batches) /\ batches'[i] = batches[i])
    BY <2>1, <2>2
  <2>6. \A i \in 1..Len(batches') : phase'[batches'[i]] = "queued"
    BY <2>1, <2>2, <2>5
  <2>7. Busy' = Busy
    BY <2>1, <2>2 DEF Busy
  <2>. QED BY <2>1, <2>4, <2>5, <2>6, <2>7 DEF CountInv
<1>4. ASSUME NEW d \in Deliveries, SubmitRefused(d) PROVE CountInv'
  BY <1>4, CountDone DEF SubmitRefused, Busy, chanVars
<1>. QED BY <1>1, <1>2, <1>3, <1>4, LoopKinds

LEMMA CountProcessBatch ==
  ASSUME TypeInv, CountInv, ProcessBatch PROVE CountInv'
<1>1. /\ batches \in Seq(Deliveries) /\ phase \in [Deliveries -> PhaseStates]
      /\ NoRepeat(batches) /\ \A i \in 1..Len(batches) : phase[batches[i]] = "queued"
      /\ receivers = Len(batches)
  BY DEF TypeInv, TypeOK, CountInv
<1>2. batches # << >>
  BY <1>1 DEF ProcessBatch
<1>. DEFINE d == Head(batches)
<1>3. /\ receivers' = receivers - 1 /\ batches' = Tail(batches)
      /\ phase' = [phase EXCEPT ![d] = "ready"] /\ inFlight' = inFlight
  BY <1>2 DEF ProcessBatch
<1>4. /\ d \in Deliveries /\ Len(batches') = Len(batches) - 1 /\ batches' \in Seq(Deliveries)
      /\ d \in QueueOf(batches) /\ NoRepeat(batches')
      /\ QueueOf(batches') = QueueOf(batches) \ {d}
  BY <1>1, <1>2, <1>3, HeadTailType, TailOfQueue
<1>. HIDE DEF d
<1>5. phase[d] = "queued" /\ \A e \in QueueOf(batches') : e # d /\ phase[e] = "queued"
  BY <1>1, <1>4 DEF QueueOf
<1>6. \A i \in 1..Len(batches') : phase'[batches'[i]] = "queued"
  BY <1>1, <1>3, <1>4, <1>5 DEF QueueOf
<1>7. Busy' = Busy
  BY <1>1, <1>3, <1>4, <1>5 DEF Busy
<1>. QED BY <1>1, <1>3, <1>4, <1>6, <1>7 DEF CountInv

LEMMA CountNext ==
  ASSUME TypeInv, CountInv, [Next]_vars PROVE CountInv'
<1>. USE DEF TypeInv
<1>1. ASSUME NEW d \in Deliveries, Worker(d) PROVE CountInv'
  <2>0. phase \in [Deliveries -> PhaseStates]
    BY DEF TypeOK
  <2>1. CASE ProcessBatchReturn(d)
    BY <2>1, CountDone DEF ProcessBatchReturn, Busy, chanVars
  <2>2. ASSUME NEW ph \in PhaseStates \ {"none", "submit", "queued", "done"},
               phase' = [phase EXCEPT ![d] = ph],
               phase[d] \notin {"none", "submit", "queued", "done"},
               UNCHANGED <<batches, receivers, inFlight>>
        PROVE  CountInv'
    <3>1. Busy' = Busy
      BY <2>0, <2>2 DEF Busy
    <3>2. \A e \in Deliveries : phase[e] = "queued" => phase'[e] = "queued"
      BY <2>0, <2>2
    <3>. QED BY <2>2, <3>1, <3>2, CountUnchanged
  <2>. QED BY <1>1, <2>1, <2>2, WorkerKinds
<1>2. CASE UNCHANGED <<workVars, doneVars, chanVars>>
  BY <1>2, CountUnchanged DEF workVars, chanVars, Busy
<1>. QED BY <1>1, <1>2, CallersKeepWork, CountLoop, CountProcessBatch DEF Next, Terminated

LEMMA Counting == Spec => []CountInv
BY TypeInvariant, CountInit, CountNext, PTL DEF Spec

---------------------------------------------------------------------------
(* The Close contract.  The loop shuts down with nothing left in its hands  *)
(* and, unless a deadline cancelled the client, with no goroutine busy; and *)
(* sync.Once lets a single Close call report on it.                         *)

\* What shutdown has already brought to an end.
DrainInv ==
  /\ lpc \in {"await", "return", "closeBatches", "stopped"} => msgs = << >> /\ batch = {}
  /\ lpc \in {"return", "closeBatches", "stopped"} => cancelled \/ Busy = {}
  /\ shutdown => lpc \in {"closeBatches", "stopped"}

\* The Close calls that wait, or came too late.
Passive == {"idle", "blocked", "ErrClosed"}

CloserInv ==
  /\ \A j, k \in Closers : closer[j] \notin Passive /\ closer[k] \notin Passive => j = k
  /\ cancelled => \E k \in Closers : closer[k] \in {"cancelled", "timeout"}
  /\ closed <=> \E k \in Closers : closer[k] # "idle"

LEMMA CloserInit == Init => CloserInv
BY DEF Init, CloserInv, Passive

\* Only the Close calls change what they tell each other.
LEMMA OnlyCloseCloses ==
  ASSUME [Next]_vars, ~ \E k \in Closers : Close(k)
  PROVE  UNCHANGED <<closed, quit, cancelled, closer>>
<1>. USE DEF closeVars
<1>1. ASSUME NEW m \in Messages, Enqueue(m) PROVE UNCHANGED <<closed, quit, cancelled, closer>>
  BY <1>1 DEF Enqueue, EnqueueCheckClosed, EnqueueDiscard, EnqueueUnserializable, SendPrepared
<1>2. CASE LoopStep
  BY <1>2 DEF LoopStep, LoopReceive, LoopTick, LoopFlushDrain, LoopFlushRest,
     LoopFlushReply, LoopQuit, LoopDrain, LoopFinalFlush, AppendMessage, AwaitDrain,
     LoopShutdown, LoopCloseBatches, Submit, SubmitAccepted, SubmitRefused, ProcessMessage
<1>3. CASE ProcessBatch
  BY <1>3 DEF ProcessBatch
<1>4. ASSUME NEW d \in Deliveries, Worker(d) PROVE UNCHANGED <<closed, quit, cancelled, closer>>
  BY <1>4 DEF Worker, BeginUpload, UploadEnds, UploadOK, UploadTerminal, UploadRetryable,
     UploadPartial, DeferRetry, RetryTimer, RetryInterrupted, ProcessBatchReturn
<1>5. ASSUME NEW f \in Flushers, Flush(f) PROVE UNCHANGED <<closed, quit, cancelled, closer>>
  BY <1>5 DEF Flush, FlushCall, LoopFlushRequest, FlushQuit, FlushCtxDone, FlushReturn
<1>6. CASE UNCHANGED vars
  BY <1>6 DEF vars
<1>. QED BY <1>1, <1>2, <1>3, <1>4, <1>5, <1>6 DEF Next, Terminated

LEMMA CloserNext ==
  ASSUME TypeInv, CloserInv, [Next]_vars PROVE CloserInv'
<1>. USE DEF CloserInv, Passive
<1>0. closer \in [Closers -> CloseStates]
  BY DEF TypeInv, TypeOK
<1>1. ASSUME NEW k \in Closers, Close(k) PROVE CloserInv'
  <2>1. CASE CloseCall(k)
    BY <1>0, <2>1 DEF CloseCall
  <2>2. CASE CloseQuit(k)
    BY <1>0, <2>2 DEF CloseQuit
  <2>3. CASE CloseTimeout(k)
    BY <1>0, <2>3 DEF CloseTimeout
  <2>4. CASE CloseReturn(k)
    BY <1>0, <2>4 DEF CloseReturn
  <2>5. CASE CloseAgain(k)
    BY <1>0, <2>5 DEF CloseAgain
  <2>. QED BY <1>1, <2>1, <2>2, <2>3, <2>4, <2>5 DEF Close
<1>. QED BY <1>1, OnlyCloseCloses

\* Between two steps of the loop the number of busy deliveries only falls, and
\* nothing enters a closed queue.
LEMMA BusyOnlyByLoop ==
  ASSUME TypeInv, CountInv, [Next]_vars, ~LoopStep
  PROVE  /\ Busy' \subseteq Busy
         /\ UNCHANGED <<batch, msgsClosed, shutdown>>
         /\ msgsClosed => UNCHANGED msgs
<1>. USE DEF queueVars, loopVars, chanVars, flushVars, closeVars, reportVars
<1>0. phase \in [Deliveries -> PhaseStates]
  BY DEF TypeInv, TypeOK
<1>1. ASSUME NEW m \in Messages, Enqueue(m)
      PROVE  UNCHANGED <<phase, batch, msgsClosed, shutdown>> /\ (msgsClosed => UNCHANGED msgs)
  BY <1>1 DEF Enqueue, EnqueueCheckClosed, EnqueueDiscard, EnqueueUnserializable, SendPrepared,
     workVars
<1>2. CASE ProcessBatch
  <2>1. batches # << >> /\ Head(batches) \in Deliveries /\ phase[Head(batches)] = "queued"
    BY <1>2, HeadTailType DEF ProcessBatch, CountInv, TypeInv, TypeOK
  <2>. QED BY <1>0, <1>2, <2>1 DEF ProcessBatch, Busy
<1>3. ASSUME NEW d \in Deliveries, Worker(d)
      PROVE  Busy' \subseteq Busy /\ UNCHANGED <<batch, msgsClosed, shutdown, msgs>>
  <2>1. UNCHANGED <<batch, msgsClosed, shutdown, msgs>>
    BY <1>3 DEF Worker, BeginUpload, UploadEnds, UploadOK, UploadTerminal, UploadRetryable,
       UploadPartial, DeferRetry, RetryTimer, RetryInterrupted, ProcessBatchReturn
  <2>2. Busy' \subseteq Busy
    BY <1>0, <1>3, WorkerKinds DEF ProcessBatchReturn, Busy
  <2>. QED BY <2>1, <2>2
<1>4. ASSUME NEW f \in Flushers, Flush(f)
      PROVE  UNCHANGED <<phase, batch, msgsClosed, shutdown, msgs>>
  BY <1>4 DEF Flush, FlushCall, LoopFlushRequest, FlushQuit, FlushCtxDone, FlushReturn, workVars
<1>5. ASSUME NEW k \in Closers, Close(k)
      PROVE  UNCHANGED <<phase, batch, msgsClosed, shutdown, msgs>>
  BY <1>5 DEF Close, CloseCall, CloseQuit, CloseTimeout, CloseReturn, CloseAgain, workVars
<1>6. CASE UNCHANGED vars
  BY <1>6 DEF vars, workVars, Busy
<1>7. UNCHANGED phase => Busy' = Busy
  BY DEF Busy
<1>. QED BY <1>1, <1>2, <1>3, <1>4, <1>5, <1>6, <1>7 DEF Next, Terminated

LEMMA DrainLoop ==
  ASSUME TypeInv, CountInv, DrainInv, ShutdownOrder, LoopStep PROVE DrainInv'
<1>. USE DEF DrainInv, queueVars, loopVars, chanVars, workVars, closeVars
<1>1. CASE LoopReceive \/ LoopFlushDrain \/ LoopDrain
  <2>1. /\ lpc \in {"select", "flush", "drain"} /\ UNCHANGED shutdown
        /\ lpc' \in {"submit", "append", "select", "flush", "drain"}
    BY <1>1, ProcessMessageReturns
    DEF LoopReceive, LoopFlushDrain, LoopDrain, ProcessMessage
  <2>. QED BY <2>1
<1>2. CASE LoopTick \/ LoopFlushRest \/ LoopFlushReply \/ LoopQuit
  BY <1>2 DEF LoopTick, LoopFlushRest, LoopFlushReply, LoopQuit, FlushIfAny, FlushBatch
<1>3. CASE AppendMessage \/ Submit
  BY <1>3 DEF AppendMessage, Submit, SubmitAccepted, SubmitRefused, FlushBatch, AfterFlush,
              AfterMessage
<1>4. CASE LoopFinalFlush
  BY <1>4 DEF LoopFinalFlush, FlushIfAny, FlushBatch
<1>5. CASE AwaitDrain
  <2>1. inFlight <= 0 => Busy = {}
    BY BusyFinite, FS_EmptySet DEF CountInv
  <2>. QED BY <1>5, <2>1 DEF AwaitDrain, Busy
<1>6. CASE LoopShutdown \/ LoopCloseBatches
  BY <1>6 DEF LoopShutdown, LoopCloseBatches, Busy
<1>. QED BY <1>1, <1>2, <1>3, <1>4, <1>5, <1>6 DEF LoopStep

LEMMA DrainNext ==
  ASSUME TypeInv, CountInv, CloserInv, DrainInv, ShutdownOrder, [Next]_vars PROVE DrainInv'
<1>1. cancelled => cancelled'
  BY OnlyCloseCloses
  DEF Close, CloseCall, CloseQuit, CloseTimeout, CloseReturn, CloseAgain
<1>2. CASE LoopStep
  BY <1>2, DrainLoop
<1>3. CASE ~LoopStep
  <2>1. lpc' = lpc \/ (lpc = "select" /\ lpc' = "flush")
    <3>. USE DEF loopVars
    <3>1. ASSUME NEW f \in Flushers, Flush(f) PROVE lpc' = lpc \/ (lpc = "select" /\ lpc' = "flush")
      BY <3>1 DEF Flush, FlushCall, LoopFlushRequest, FlushQuit, FlushCtxDone, FlushReturn
    <3>2. ASSUME NEW m \in Messages, Enqueue(m) PROVE lpc' = lpc
      BY <3>2 DEF Enqueue, EnqueueCheckClosed, EnqueueDiscard, EnqueueUnserializable, SendPrepared
    <3>3. ASSUME NEW d \in Deliveries, Worker(d) PROVE lpc' = lpc
      BY <3>3 DEF Worker, BeginUpload, UploadEnds, UploadOK, UploadTerminal, UploadRetryable,
         UploadPartial, DeferRetry, RetryTimer, RetryInterrupted, ProcessBatchReturn
    <3>4. ASSUME NEW k \in Closers, Close(k) PROVE lpc' = lpc
      BY <3>4 DEF Close, CloseCall, CloseQuit, CloseTimeout, CloseReturn, CloseAgain
    <3>5. ProcessBatch => lpc' = lpc
      BY DEF ProcessBatch
    <3>. QED BY <1>3, <3>1, <3>2, <3>3, <3>4, <3>5 DEF Next, Terminated, vars
  <2>. QED BY <1>1, <1>3, <2>1, BusyOnlyByLoop DEF DrainInv, ShutdownOrder
<1>. QED BY <1>2, <1>3

CloseInv == CountInv /\ ShutdownOrder /\ CloserInv /\ DrainInv

LEMMA Closing == Spec => [](CloseInv /\ OwnInv /\ TypeInv)
<1>1. Init => CloseInv
  <2>1. Init => DrainInv
    BY DEF Init, DrainInv
  <2>. QED BY <2>1, CountInit, ShutdownOrderInit, CloserInit DEF CloseInv
<1>2. TypeInv /\ CloseInv /\ [Next]_vars => CloseInv'
  BY CountNext, ShutdownOrderNext, CloserNext, DrainNext DEF CloseInv
<1>. QED BY <1>1, <1>2, TypeInvariant, Ownership, PTL DEF Spec

LEMMA CloseNilIsClean ==
  ASSUME TypeInv, OwnInv, CloseInv PROVE CleanClose
<1>. SUFFICES ASSUME NEW k \in Closers, closer[k] = "nil"
              PROVE  /\ \A m \in Accepted : Settled(m)
                     /\ \A d \in Deliveries : phase[d] \in {"none", "done"}
  BY DEF CleanClose
<1>1. shutdown /\ lpc \in {"closeBatches", "stopped"} /\ ~cancelled
  BY DEF CloseInv, ShutdownOrder, DrainInv, CloserInv, Passive
<1>2. msgs = << >> /\ batch = {} /\ Busy = {} /\ held = None
  BY <1>1 DEF CloseInv, DrainInv, TypeInv, HeldOK
<1>3. \A d \in Deliveries : phase[d] \in {"none", "done"} /\ pending[d] = {}
  BY <1>2 DEF Busy, OwnInv, PendingWhileServed
<1>4. \A m \in Messages : ~Owned(m)
  BY <1>2, <1>3, NoneAssumption DEF Owned, Queued
<1>. QED BY <1>3, <1>4 DEF OwnInv, NothingLost, Accepted

\* When Close returns nil, every accepted message has its outcome and no upload
\* goroutine is left: the drain of the queue, the last batch, the retries and the
\* deadline of another Close call leave no gap.
THEOREM CloseIsClean == Spec => []CleanClose
BY Closing, CloseNilIsClean, PTL

---------------------------------------------------------------------------
(* The life of a delivery.  Whatever a step does, it takes every delivery   *)
(* at most one stage further.                                               *)

LEMMA NotifySettles ==
  ASSUME TypeOK, NEW S, NEW F, Notify(S, F), NEW m \in Messages, m \in S \cup F
  PROVE  Settled(m)'
BY DEF Notify, Settled, TypeOK

\* The completion signal of d stays as it is.
DoneKept(d) ==
  /\ gen'[d] = gen[d] /\ retrying'[d] = retrying[d]
  /\ d \in deliveries' <=> d \in deliveries
  /\ \A n \in Nat : <<d, n>> \in closedDone' <=> <<d, n>> \in closedDone

\* The messages d no longer holds have their outcome.
LetsGo(d) == pending'[d] \subseteq pending[d] /\ \A m \in pending[d] \ pending'[d] : Settled(m)'

Stays(d) ==
  phase'[d] = phase[d] /\ pending'[d] = pending[d] /\ attempt'[d] = attempt[d] /\ DoneKept(d)

Begins(d) ==
  /\ phase[d] = "none" /\ phase'[d] = "submit" /\ attempt'[d] = attempt[d]
  /\ gen'[d] = gen[d] /\ retrying'[d] = retrying[d] /\ closedDone' = closedDone
  /\ d \in deliveries'

Advances(d) ==
  /\ <<phase[d], phase'[d]>> \in {<<"submit", "queued">>, <<"queued", "ready">>, <<"upload", "defer">>,
                                  <<"upload", "backoff">>, <<"backoff", "ready">>}
  /\ attempt'[d] = attempt[d] /\ LetsGo(d) /\ DoneKept(d)

Finishes(d) ==
  /\ phase[d] \in {"upload", "backoff"} /\ phase'[d] = "exit"
  /\ pending'[d] = {} /\ LetsGo(d) /\ DoneKept(d)

Ends(d) ==
  /\ phase[d] \in {"submit", "exit"} /\ phase'[d] = "done" /\ LetsGo(d)
  /\ phase[d] = "submit" => pending'[d] = {}
  /\ CompleteDelivery(d)

Life(d) ==
  \/ Stays(d) \/ Begins(d) \/ Advances(d) \/ BeginUpload(d) \/ DeferRetry(d) \/ Finishes(d)
  \/ Ends(d)

LEMMA AllStay ==
  ASSUME UNCHANGED <<workVars, doneVars>> PROVE \A d \in Deliveries : Stays(d)
BY DEF Stays, DoneKept, workVars, doneVars

\* Steps that belong to another delivery.
LEMMA OthersStay ==
  ASSUME TypeOK, NEW d \in Deliveries, NEW e \in Deliveries, d # e,
         NEW ph, phase' = [phase EXCEPT ![d] = ph],
         \/ UNCHANGED pending \/ \E B : pending' = [pending EXCEPT ![d] = B],
         \/ UNCHANGED attempt \/ \E n : attempt' = [attempt EXCEPT ![d] = n],
         \/ UNCHANGED doneVars \/ BeginDeliveryAttempt(d) \/ DeferDeliveryRetry(d)
         \/ CompleteDelivery(d)
         \/ deliveries' = deliveries \cup {d} /\ UNCHANGED <<gen, retrying, closedDone>>
  PROVE  Stays(e)
<1>1. phase'[e] = phase[e] /\ pending'[e] = pending[e] /\ attempt'[e] = attempt[e]
  BY DEF TypeOK
<1>2. DoneKept(e)
  BY DEF TypeOK, DoneKept, doneVars, BeginDeliveryAttempt, DeferDeliveryRetry, CompleteDelivery,
         CurrentDone
<1>. QED BY <1>1, <1>2 DEF Stays

LEMMA LifeOfLoop ==
  ASSUME TypeInv, LoopStep, NEW e \in Deliveries PROVE Life(e)
<1>. USE DEF TypeInv
<1>1. ASSUME NEW B \in SUBSET Messages, FlushBatch(B) PROVE Life(e)
  <2>. DEFINE n == Fresh
  <2>1. /\ n \in Deliveries /\ phase[n] = "none" /\ phase' = [phase EXCEPT ![n] = "submit"]
        /\ pending' = [pending EXCEPT ![n] = B] /\ deliveries' = deliveries \cup {n}
        /\ UNCHANGED <<attempt, gen, retrying, closedDone>>
    BY <1>1, FreshIsUnused DEF FlushBatch
  <2>. HIDE DEF n
  <2>2. CASE e = n
    BY <2>1, <2>2 DEF Life, Begins, TypeOK
  <2>3. CASE e # n
    BY <2>1, <2>3, OthersStay DEF Life
  <2>. QED BY <2>2, <2>3
<1>2. CASE UNCHANGED <<workVars, doneVars>>
  BY <1>2, AllStay DEF Life
<1>3. ASSUME NEW d \in Deliveries, SubmitAccepted(d) PROVE Life(e)
  <2>1. CASE e = d
    BY <1>3, <2>1 DEF Life, Advances, LetsGo, DoneKept, SubmitAccepted, TypeOK, doneVars
  <2>2. CASE e # d
    BY <1>3, <2>2, OthersStay DEF Life, SubmitAccepted
  <2>. QED BY <2>1, <2>2
<1>4. ASSUME NEW d \in Deliveries, SubmitRefused(d) PROVE Life(e)
  <2>1. CASE e = d
    <3>1. \A m \in pending[d] : m \in Messages /\ Settled(m)'
      BY <1>4, NotifySettles DEF SubmitRefused, TypeOK
    <3>. QED BY <1>4, <2>1, <3>1 DEF Life, Ends, LetsGo, SubmitRefused, TypeOK
  <2>2. CASE e # d
    BY <1>4, <2>2, OthersStay DEF Life, SubmitRefused
  <2>. QED BY <2>1, <2>2
<1>. QED BY <1>1, <1>2, <1>3, <1>4, LoopKinds

LEMMA LifeOfFinish ==
  ASSUME TypeInv, NEW d \in Deliveries, NEW S, NEW F, Finish(d, S, F),
         phase[d] \in {"upload", "backoff"}, UNCHANGED doneVars,
         \A m \in pending[d] : m \in S \cup F \cup absorbed'
  PROVE  \A e \in Deliveries : Life(e)
<1>. USE DEF TypeInv
<1>1. \A m \in pending[d] : Settled(m)'
  BY NotifySettles DEF Finish, TypeOK, Settled
<1>2. Life(d)
  BY <1>1 DEF Life, Finishes, Finish, LetsGo, DoneKept, TypeOK, doneVars
<1>3. ASSUME NEW e \in Deliveries, e # d PROVE Life(e)
  BY <1>3, OthersStay DEF Life, Finish
<1>. QED BY <1>2, <1>3

LEMMA LifeOfWorker ==
  ASSUME TypeInv, NEW d \in Deliveries, Worker(d), NEW e \in Deliveries PROVE Life(e)
<1>. USE DEF TypeInv
<1>1. CASE BeginUpload(d)
  <2>1. CASE e # d
    BY <1>1, <2>1, OthersStay DEF Life, BeginUpload
  <2>. QED BY <1>1, <2>1 DEF Life
<1>2. CASE DeferRetry(d)
  <2>1. CASE e # d
    BY <1>2, <2>1, OthersStay DEF Life, DeferRetry
  <2>. QED BY <1>2, <2>1 DEF Life
<1>3. CASE ProcessBatchReturn(d)
  <2>1. CASE e # d
    BY <1>3, <2>1, OthersStay DEF Life, ProcessBatchReturn
  <2>2. CASE e = d
    BY <1>3, <2>2 DEF Life, Ends, LetsGo, ProcessBatchReturn, TypeOK
  <2>. QED BY <2>1, <2>2
<1>4. CASE UploadOK(d) \/ UploadTerminal(d) \/ RetryInterrupted(d)
  <2>1. /\ phase[d] \in {"upload", "backoff"} /\ UNCHANGED doneVars
        /\ Finish(d, pending[d], {}) \/ Finish(d, {}, pending[d])
    BY <1>4 DEF UploadOK, UploadTerminal, RetryInterrupted
  <2>. QED BY <2>1, LifeOfFinish
<1>5. CASE UploadRetryable(d) \/ RetryTimer(d)
  <2>1. CASE Finish(d, {}, pending[d])
    BY <1>5, <2>1, LifeOfFinish DEF UploadRetryable, RetryTimer
  <2>2. ASSUME NEW ph, <<phase[d], ph>> \in {<<"upload", "defer">>, <<"upload", "backoff">>,
                                             <<"backoff", "ready">>},
               phase' = [phase EXCEPT ![d] = ph], UNCHANGED <<pending, attempt, doneVars>>
        PROVE  Life(e)
    <3>1. CASE e = d
      BY <2>2, <3>1 DEF Life, Advances, LetsGo, DoneKept, TypeOK, doneVars
    <3>2. CASE e # d
      BY <2>2, <3>2, OthersStay DEF Life
    <3>. QED BY <3>1, <3>2
  <2>. QED BY <1>5, <2>1, <2>2 DEF UploadRetryable, RetryTimer
<1>6. CASE UploadPartial(d)
  <2>1. PICK results \in [pending[d] -> {"ok", "drop", "retry", "absent"}] :
          LET Part(r) == PartitionV1Results(d, results, r)
          IN  /\ absorbed' = absorbed \cup Part("absent")
              /\ IF Part("retry") = {} \/ LastAttempt(d)
                 THEN Finish(d, Part("ok"), Part("drop") \cup Part("retry"))
                 ELSE /\ Notify(Part("ok"), Part("drop"))
                      /\ pending' = [pending EXCEPT ![d] = Part("retry")]
                      /\ phase' = [phase EXCEPT ![d] = "defer"]
                      /\ UNCHANGED attempt
    BY <1>6 DEF UploadPartial
  <2>. DEFINE OK == PartitionV1Results(d, results, "ok")
              Drop == PartitionV1Results(d, results, "drop")
              Retry == PartitionV1Results(d, results, "retry")
              Absent == PartitionV1Results(d, results, "absent")
  <2>2. OK \cup Drop \cup Retry \cup Absent = pending[d]
    BY DEF PartitionV1Results
  <2>3. /\ absorbed' = absorbed \cup Absent
        /\ \/ Finish(d, OK, Drop \cup Retry)
           \/ /\ Notify(OK, Drop) /\ pending' = [pending EXCEPT ![d] = Retry]
              /\ phase' = [phase EXCEPT ![d] = "defer"] /\ UNCHANGED attempt
        /\ phase[d] = "upload" /\ UNCHANGED doneVars
    BY <1>6, <2>1 DEF UploadPartial
  <2>. HIDE DEF OK, Drop, Retry, Absent
  <2>4. CASE Finish(d, OK, Drop \cup Retry)
    BY <2>2, <2>3, <2>4, LifeOfFinish
  <2>5. CASE /\ Notify(OK, Drop) /\ pending' = [pending EXCEPT ![d] = Retry]
             /\ phase' = [phase EXCEPT ![d] = "defer"] /\ UNCHANGED attempt
    <3>1. ASSUME NEW m \in pending[d], m \notin Retry PROVE Settled(m)'
      <4>1. m \in Messages /\ m \in OK \cup Drop \cup Absent
        BY <2>2, <3>1 DEF TypeOK
      <4>. QED BY <2>3, <2>5, <4>1, NotifySettles DEF Settled
    <3>2. CASE e = d
      BY <2>2, <2>3, <2>5, <3>1, <3>2 DEF Life, Advances, LetsGo, DoneKept, TypeOK, doneVars
    <3>3. CASE e # d
      BY <2>3, <2>5, <3>3, OthersStay DEF Life
    <3>. QED BY <3>2, <3>3
  <2>. QED BY <2>3, <2>4, <2>5
<1>. QED BY <1>1, <1>2, <1>3, <1>4, <1>5, <1>6 DEF Worker, UploadEnds

LEMMA LifeNext ==
  ASSUME TypeInv, OwnInv, CountInv, [Next]_vars PROVE \A e \in Deliveries : Life(e)
<1>. SUFFICES ASSUME NEW e \in Deliveries PROVE Life(e)
  OBVIOUS
<1>1. CASE ProcessBatch
  <2>. DEFINE d == Head(batches)
  <2>1. /\ batches # << >> /\ d \in Deliveries /\ phase[d] = "queued"
    BY <1>1, HeadTailType DEF ProcessBatch, CountInv, TypeInv, TypeOK
  <2>2. /\ phase' = [phase EXCEPT ![d] = "ready"] /\ UNCHANGED <<pending, attempt, doneVars>>
    BY <1>1, <2>1 DEF ProcessBatch
  <2>. HIDE DEF d
  <2>3. CASE e = d
    BY <2>1, <2>2, <2>3 DEF Life, Advances, LetsGo, DoneKept, TypeInv, TypeOK, doneVars
  <2>4. CASE e # d
    BY <2>1, <2>2, <2>4, OthersStay DEF Life, TypeInv
  <2>. QED BY <2>3, <2>4
<1>2. CASE UNCHANGED <<workVars, doneVars, chanVars>>
  BY <1>2, AllStay DEF Life
<1>. QED BY <1>1, <1>2, LifeOfLoop, LifeOfWorker, CallersKeepWork DEF Next, Terminated

---------------------------------------------------------------------------
(* Completion signals.  A done channel is closed exactly when the delivery  *)
(* waits for a retry or has ended.                                          *)

DoneOK(d) ==
  /\ \A n \in Nat : <<d, n>> \in closedDone => n <= gen[d]
  /\ retrying[d] => CurrentDone(d) \in closedDone
  /\ CurrentDone(d) \in closedDone => retrying[d] \/ phase[d] = "done"
  /\ retrying[d] => phase[d] \in {"backoff", "ready", "exit", "done"}
  /\ retrying[d] /\ phase[d] = "ready" => attempt[d] >= 1
  /\ phase[d] \in {"upload", "defer", "backoff"} => attempt[d] >= 1
  /\ d \in Busy => d \in deliveries

DoneInv == \A d \in Deliveries : DoneOK(d)

LEMMA DoneStep ==
  ASSUME TypeInv, TypeInv', NEW d \in Deliveries, DoneOK(d), Life(d) PROVE DoneOK(d)'
<1>. USE DEF TypeInv, TypeOK, DoneOK, CurrentDone, Busy
<1>0. gen[d] \in Nat /\ attempt[d] \in Nat /\ retrying[d] \in BOOLEAN /\ phase[d] \in PhaseStates
      /\ gen'[d] \in Nat /\ closedDone \subseteq Deliveries \X Nat
  OBVIOUS
<1>1. CASE Stays(d)
  BY <1>0, <1>1 DEF Stays, DoneKept
<1>2. CASE Begins(d)
  BY <1>0, <1>2 DEF Begins
<1>3. CASE Advances(d)
  BY <1>0, <1>3 DEF Advances, DoneKept
<1>4. CASE BeginUpload(d)
  <2>1. /\ phase'[d] = "upload" /\ attempt'[d] = attempt[d] + 1
        /\ gen'[d] = (IF retrying[d] THEN gen[d] + 1 ELSE gen[d]) /\ retrying'[d] = FALSE
        /\ UNCHANGED <<deliveries, closedDone>> /\ phase[d] = "ready"
    BY <1>4 DEF BeginUpload, BeginDeliveryAttempt
  <2>2. <<d, gen'[d]>> \notin closedDone'
    <3>1. CASE retrying[d]
      BY <1>0, <2>1, <3>1
    <3>2. CASE ~retrying[d]
      BY <1>0, <2>1, <3>2
    <3>. QED BY <1>0, <3>1, <3>2
  <2>3. \A n \in Nat : <<d, n>> \in closedDone' => n <= gen'[d]
    BY <1>0, <2>1
  <2>4. attempt'[d] >= 1 /\ d \in deliveries'
    BY <1>0, <2>1
  <2>. QED BY <2>1, <2>2, <2>3, <2>4
<1>5. CASE DeferRetry(d)
  <2>1. /\ phase'[d] = "backoff" /\ attempt'[d] = attempt[d] /\ gen'[d] = gen[d] /\ retrying'[d] = TRUE
        /\ closedDone' = closedDone \cup {<<d, gen[d]>>} /\ phase[d] = "defer"
        /\ deliveries' = deliveries
    BY <1>5 DEF DeferRetry, DeferDeliveryRetry
  <2>. QED BY <1>0, <2>1
<1>6. CASE Finishes(d)
  BY <1>0, <1>6 DEF Finishes, DoneKept
<1>7. CASE Ends(d)
  <2>1. /\ phase'[d] = "done" /\ gen'[d] = gen[d] /\ retrying'[d] = retrying[d]
        /\ closedDone' = closedDone \/ closedDone' = closedDone \cup {<<d, gen[d]>>}
        /\ <<d, gen[d]>> \in closedDone'
    BY <1>7 DEF Ends, CompleteDelivery
  <2>. QED BY <1>0, <2>1
<1>. QED BY <1>1, <1>2, <1>3, <1>4, <1>5, <1>6, <1>7 DEF Life

LEMMA DoneInit == Init => DoneInv
BY DEF Init, DoneInv, DoneOK, Busy, CurrentDone

LEMMA DoneNext ==
  ASSUME TypeInv, OwnInv, CountInv, DoneInv, [Next]_vars PROVE DoneInv'
BY TypeNext, LifeNext, DoneStep DEF DoneInv

\* Only the Flush callers and the loop's reply to them write what a Flush call knows.
LEMMA FlushKept ==
  ASSUME [Next]_vars, ~LoopFlushReply, ~ \E f \in Flushers : Flush(f)
  PROVE  UNCHANGED flushVars
<1>. USE DEF flushVars
<1>1. ASSUME NEW m \in Messages, Enqueue(m) PROVE UNCHANGED flushVars
  BY <1>1 DEF Enqueue, EnqueueCheckClosed, EnqueueDiscard, EnqueueUnserializable, SendPrepared
<1>2. CASE LoopStep
  BY <1>2 DEF LoopStep, LoopReceive, LoopTick, LoopFlushDrain, LoopFlushRest, LoopQuit, LoopDrain,
     LoopFinalFlush, AppendMessage, AwaitDrain, LoopShutdown, LoopCloseBatches, Submit,
     SubmitAccepted, SubmitRefused, ProcessMessage
<1>3. CASE ProcessBatch
  BY <1>3 DEF ProcessBatch
<1>4. ASSUME NEW d \in Deliveries, Worker(d) PROVE UNCHANGED flushVars
  BY <1>4 DEF Worker, BeginUpload, UploadEnds, UploadOK, UploadTerminal, UploadRetryable,
     UploadPartial, DeferRetry, RetryTimer, RetryInterrupted, ProcessBatchReturn
<1>5. ASSUME NEW k \in Closers, Close(k) PROVE UNCHANGED flushVars
  BY <1>5 DEF Close, CloseCall, CloseQuit, CloseTimeout, CloseReturn, CloseAgain
<1>6. CASE UNCHANGED vars
  BY <1>6 DEF vars
<1>. QED BY <1>1, <1>2, <1>3, <1>4, <1>5, <1>6 DEF Next, Terminated

\* Only the reply gives a Flush call something to wait for.
LEMMA WaitForShrinks ==
  ASSUME TypeInv, [Next]_vars, ~LoopFlushReply, NEW f \in Flushers
  PROVE  waitFor'[f] \subseteq waitFor[f]
<1>0. waitFor \in [Flushers -> SUBSET (Deliveries \X Nat)]
  BY DEF TypeInv, TypeOK
<1>1. ASSUME NEW g \in Flushers, Flush(g)
      PROVE  UNCHANGED waitFor \/ waitFor' = [waitFor EXCEPT ![g] = {}]
  BY <1>1 DEF Flush, FlushCall, LoopFlushRequest, FlushQuit, FlushCtxDone, FlushReturn
<1>. QED BY <1>0, <1>1, FlushKept DEF flushVars

\* A registered done channel that is open stays the one its delivery will close.
LEMMA DoneHolds ==
  ASSUME TypeInv, NEW d \in Deliveries, DoneOK(d), Life(d), d \in deliveries,
         CurrentDone(d) \notin closedDone
  PROVE  \/ CurrentDone(d) \in closedDone'
         \/ d \in deliveries' /\ CurrentDone(d)' = CurrentDone(d)
<1>. USE DEF TypeInv, TypeOK, DoneOK, CurrentDone
<1>1. CASE Stays(d) \/ Begins(d) \/ Advances(d) \/ Finishes(d)
  BY <1>1 DEF Stays, Begins, Advances, Finishes, DoneKept
<1>2. CASE BeginUpload(d)
  BY <1>2 DEF BeginUpload, BeginDeliveryAttempt
<1>3. CASE DeferRetry(d)
  BY <1>3 DEF DeferRetry, DeferDeliveryRetry
<1>4. CASE Ends(d)
  BY <1>4 DEF Ends, CompleteDelivery
<1>. QED BY <1>1, <1>2, <1>3, <1>4 DEF Life

LEMMA StrandedNext ==
  ASSUME TypeInv, OwnInv, CountInv, DoneInv, FlushNeverStranded, [Next]_vars
  PROVE  FlushNeverStranded'
<1>. SUFFICES ASSUME NEW f \in Flushers, NEW w \in waitFor'[f], w \notin closedDone'
              PROVE  w[1] \in deliveries' /\ w = CurrentDone(w[1])'
  BY DEF FlushNeverStranded
<1>1. CASE LoopFlushReply
  <2>1. waitFor'[f] \subseteq waitFor[f] \cup {CurrentDone(d) : d \in deliveries}
        /\ UNCHANGED doneVars
    BY <1>1 DEF LoopFlushReply, TypeInv, TypeOK
  <2>. QED BY <2>1 DEF FlushNeverStranded, CurrentDone, doneVars
<1>2. CASE ~LoopFlushReply
  <2>1. w \in waitFor[f] /\ w \in Deliveries \X Nat
    BY <1>2, WaitForShrinks DEF TypeInv, TypeOK
  <2>2. closedDone \subseteq closedDone'
    <3>1. ASSUME NEW d \in Deliveries, NEW n \in Nat, <<d, n>> \in closedDone
          PROVE  <<d, n>> \in closedDone'
      BY <3>1, LifeNext
      DEF Life, Stays, Begins, Advances, Finishes, Ends, DoneKept, BeginUpload, DeferRetry,
          BeginDeliveryAttempt, DeferDeliveryRetry, CompleteDelivery
    <3>. QED BY <3>1 DEF TypeInv, TypeOK
  <2>3. w[1] \in deliveries /\ w = CurrentDone(w[1]) /\ w \notin closedDone
    BY <2>1, <2>2 DEF FlushNeverStranded
  <2>. QED BY <2>1, <2>3, LifeNext, DoneHolds DEF DoneInv
<1>. QED BY <1>1, <1>2

LEMMA Signals == Spec => [](CloseInv /\ OwnInv /\ TypeInv /\ DoneInv /\ FlushNeverStranded)
<1>1. Init => FlushNeverStranded
  BY DEF Init, FlushNeverStranded
<1>2. CloseInv /\ OwnInv /\ TypeInv /\ DoneInv /\ FlushNeverStranded /\ [Next]_vars
        => (DoneInv /\ FlushNeverStranded)'
  BY DoneNext, StrandedNext DEF CloseInv
<1>. QED BY <1>1, <1>2, DoneInit, Closing, PTL DEF Spec

\* A Flush caller only ever waits for a done channel that its delivery still
\* holds and will close: neither a retry nor the end of the delivery replaces
\* or drops a channel somebody waits for.
THEOREM FlushIsNeverStranded == Spec => []FlushNeverStranded
BY Signals, PTL

---------------------------------------------------------------------------
(* The Flush contract.                                                      *)

\* The loop serves one Flush call at a time, and the messages it has yet to
\* drain for it are in the queue.
ServingInv ==
  /\ \A f \in Flushers : flush[f] = "awaiting" => serving = f
  /\ serving # None => /\ lpc \in {"flush", "append", "submit", "reply"} /\ left <= Len(msgs)
                       /\ flush[serving] \in {"awaiting", "ctxErr"}
  /\ lpc = "reply" => left = 0 /\ batch = {}

LEMMA ServingInit == Init => ServingInv
BY DEF Init, ServingInv

LEMMA ServingLoop ==
  ASSUME TypeInv, ServingInv, LoopStep PROVE ServingInv'
<1>. USE DEF ServingInv, queueVars, flushVars
<1>1. CASE LoopReceive \/ LoopDrain
  <2>1. serving = None /\ UNCHANGED <<serving, flush>> /\ lpc' # "reply"
    BY <1>1, ProcessMessageReturns DEF LoopReceive, LoopDrain, ProcessMessage
  <2>. QED BY <2>1
<1>2. CASE LoopFlushDrain
  <2>1. Len(msgs') = Len(msgs) - 1 /\ Len(msgs) \in Nat
    BY <1>2, HeadTailType DEF LoopFlushDrain, ProcessMessage, TypeInv, TypeOK
  <2>2. left' = left - 1 /\ left \in Nat /\ UNCHANGED <<serving, flush>>
    BY <1>2 DEF LoopFlushDrain, ProcessMessage, TypeInv, TypeOK
  <2>3. lpc' # "reply" /\ (serving # None => lpc' \in {"flush", "append", "submit"})
    BY <1>2 DEF LoopFlushDrain, ProcessMessage, FlushIfAny, FlushBatch, AfterMessage
  <2>. QED BY <2>1, <2>2, <2>3
<1>3. CASE LoopFlushRest
  BY <1>3 DEF LoopFlushRest, FlushIfAny, FlushBatch
<1>4. CASE LoopFlushReply
  BY <1>4 DEF LoopFlushReply, TypeInv, TypeOK
<1>5. CASE LoopTick \/ LoopFinalFlush \/ LoopQuit \/ AwaitDrain \/ LoopShutdown \/ LoopCloseBatches
  BY <1>5 DEF LoopTick, LoopFinalFlush, LoopQuit, AwaitDrain, LoopShutdown, LoopCloseBatches,
              FlushIfAny, FlushBatch
<1>6. CASE AppendMessage \/ Submit
  <2>1. /\ UNCHANGED <<serving, flush, msgs, left>> /\ lpc \in {"append", "submit"}
        /\ lpc' \in {"submit", AfterMessage, "append"}
    BY <1>6 DEF AppendMessage, Submit, SubmitAccepted, SubmitRefused, FlushBatch, AfterFlush
  <2>2. lpc' # "reply" /\ (serving # None => lpc' \in {"flush", "append", "submit"})
    BY <2>1 DEF AfterMessage
  <2>. QED BY <2>1, <2>2
<1>. QED BY <1>1, <1>2, <1>3, <1>4, <1>5, <1>6 DEF LoopStep

LEMMA ServingNext ==
  ASSUME TypeInv, ServingInv, [Next]_vars PROVE ServingInv'
<1>. USE DEF ServingInv, queueVars, loopVars, flushVars
<1>0. flush \in [Flushers -> FlushStates] /\ msgs \in Seq(Messages) /\ left \in Nat
  BY DEF TypeInv, TypeOK
<1>1. ASSUME NEW m \in Messages, Enqueue(m) PROVE ServingInv'
  <2>1. UNCHANGED <<loopVars, flush>> /\ (msgs' = msgs \/ msgs' = Append(msgs, m))
    BY <1>1 DEF Enqueue, EnqueueCheckClosed, EnqueueDiscard, EnqueueUnserializable, SendPrepared
  <2>2. Len(msgs') >= Len(msgs) /\ Len(msgs) \in Nat /\ Len(msgs') \in Nat
    BY <1>0, <2>1
  <2>. QED BY <1>0, <2>1, <2>2
<1>2. ASSUME NEW f \in Flushers, LoopFlushRequest(f) PROVE ServingInv'
  <2>1. Len(msgs) \in Nat /\ serving = None /\ f # None /\ \A g \in Flushers : flush[g] # "awaiting"
    BY <1>0, <1>2, NoneAssumption DEF LoopFlushRequest
  <2>2. /\ flush' = [flush EXCEPT ![f] = "awaiting"] /\ serving' = f /\ left' = Len(msgs)
        /\ lpc' = "flush" /\ msgs' = msgs
    BY <1>2 DEF LoopFlushRequest
  <2>3. flush'[f] = "awaiting" /\ \A g \in Flushers : flush'[g] = "awaiting" => g = f
    BY <1>0, <2>1, <2>2
  <2>. QED BY <2>1, <2>2, <2>3
<1>3. ASSUME NEW f \in Flushers, FlushCall(f) \/ FlushQuit(f) \/ FlushCtxDone(f) \/ FlushReturn(f)
      PROVE  ServingInv'
  <2>1. /\ UNCHANGED <<msgs, lpc, batch, left, serving>> /\ serving \in Flushers \cup {None}
        /\ \E r \in FlushStates \ {"awaiting"} :
             /\ flush' = [flush EXCEPT ![f] = r]
             /\ flush[f] = "awaiting" => r = "ctxErr"
             /\ flush[f] # "ctxErr"
    BY <1>3 DEF FlushCall, FlushQuit, FlushCtxDone, FlushReturn, FlushStates, TypeInv, TypeOK
  <2>2. \A g \in Flushers : flush'[g] = "awaiting" => flush[g] = "awaiting"
    BY <1>0, <2>1
  <2>3. serving # None => flush'[serving] \in {"awaiting", "ctxErr"}
    BY <1>0, <2>1
  <2>. QED BY <2>1, <2>2, <2>3
<1>4. CASE ProcessBatch
  BY <1>4 DEF ProcessBatch
<1>5. ASSUME NEW d \in Deliveries, Worker(d) PROVE ServingInv'
  BY <1>5 DEF Worker, BeginUpload, UploadEnds, UploadOK, UploadTerminal, UploadRetryable,
     UploadPartial, DeferRetry, RetryTimer, RetryInterrupted, ProcessBatchReturn
<1>6. ASSUME NEW k \in Closers, Close(k) PROVE ServingInv'
  BY <1>6 DEF Close, CloseCall, CloseQuit, CloseTimeout, CloseReturn, CloseAgain
<1>7. CASE UNCHANGED vars
  BY <1>7 DEF vars
<1>. QED BY <1>1, <1>2, <1>3, <1>4, <1>5, <1>6, <1>7, ServingLoop DEF Next, Terminated, Flush

\* Outcomes are never taken back, and an accepted message stays accepted.
LEMMA OutcomesGrow ==
  ASSUME TypeInv, [Next]_vars
  PROVE  \A m \in Messages : /\ Settled(m) => Settled(m)'
                             /\ m \in absorbed => m \in absorbed'
                             /\ successes'[m] >= successes[m] /\ failures'[m] >= failures[m]
                             /\ enq[m] = "accepted" => enq'[m] = "accepted"
<1>. DEFINE Grow == /\ \A m \in Messages : successes'[m] >= successes[m] /\ failures'[m] >= failures[m]
                    /\ absorbed \subseteq absorbed'
            Same == UNCHANGED <<successes, failures, absorbed>>
<1>0. /\ enq \in [Messages -> EnqStates]
      /\ \A m \in Messages : successes[m] \in Nat /\ failures[m] \in Nat
      /\ TypeInv'
  BY TypeNext DEF TypeInv, TypeOK
<1>1. ASSUME NEW S, NEW F, Notify(S, F), absorbed \subseteq absorbed' PROVE Grow
  BY <1>0, <1>1 DEF Notify
<1>2. Same => Grow
  BY <1>0
<1>. USE DEF reportVars, queueVars
<1>3. ASSUME NEW m \in Messages, Enqueue(m)
      PROVE  /\ Same \/ (Notify({}, {m}) /\ absorbed' = absorbed)
             /\ enq[m] \in {"new", "preparing"} /\ \E r : enq' = [enq EXCEPT ![m] = r]
  BY <1>3 DEF Enqueue, EnqueueCheckClosed, EnqueueDiscard, EnqueueUnserializable, SendPrepared
<1>4. ASSUME LoopStep
      PROVE  (Same \/ \E S, F : Notify(S, F) /\ absorbed' = absorbed) /\ enq' = enq
  BY <1>4 DEF LoopStep, LoopReceive, LoopTick, LoopFlushDrain, LoopFlushRest,
     LoopFlushReply, LoopQuit, LoopDrain, LoopFinalFlush, AppendMessage, AwaitDrain,
     LoopShutdown, LoopCloseBatches, Submit, SubmitAccepted, SubmitRefused, ProcessMessage
<1>5. ASSUME NEW d \in Deliveries, Worker(d)
      PROVE  (Same \/ UNCHANGED <<successes, failures>> \/ \E S, F : Notify(S, F))
             /\ absorbed \subseteq absorbed' /\ enq' = enq
  <2>1. CASE UploadPartial(d)
    BY <2>1 DEF UploadPartial, Finish
  <2>2. CASE UploadOK(d) \/ UploadTerminal(d) \/ UploadRetryable(d) \/ RetryTimer(d) \/ RetryInterrupted(d)
    BY <2>2 DEF UploadOK, UploadTerminal, UploadRetryable, RetryTimer, RetryInterrupted, Finish
  <2>3. CASE BeginUpload(d) \/ DeferRetry(d) \/ ProcessBatchReturn(d)
    BY <2>3 DEF BeginUpload, DeferRetry, ProcessBatchReturn
  <2>. QED BY <1>5, <2>1, <2>2, <2>3 DEF Worker, UploadEnds
<1>6. ASSUME \/ ProcessBatch \/ UNCHANGED vars
             \/ \E f \in Flushers : Flush(f)
             \/ \E k \in Closers : Close(k)
      PROVE  Same /\ enq' = enq
  BY <1>6 DEF ProcessBatch, vars, Flush, FlushCall, LoopFlushRequest, FlushQuit, FlushCtxDone,
     FlushReturn, Close, CloseCall, CloseQuit, CloseTimeout, CloseReturn, CloseAgain
<1>7. UNCHANGED <<successes, failures>> /\ absorbed \subseteq absorbed' => Grow
  BY <1>0
<1>8. Grow
  BY <1>1, <1>2, <1>3, <1>4, <1>5, <1>6, <1>7 DEF Next, Terminated
<1>9. \A m \in Messages : enq[m] = "accepted" => enq'[m] = "accepted"
  BY <1>0, <1>3, <1>4, <1>5, <1>6 DEF Next, Terminated
<1>10. \A m \in Messages : successes'[m] \in Nat /\ failures'[m] \in Nat
  BY <1>0 DEF TypeInv, TypeOK
<1>. QED BY <1>0, <1>8, <1>9, <1>10 DEF Settled

\* The delivery has been through an upload attempt that ended, or is in a later one.
Tried(d) == attempt[d] > 1 \/ (attempt[d] = 1 /\ phase[d] \in {"backoff", "ready"})

\* What Flush promises for a message.
Delivered(m) == Settled(m) \/ \E d \in Deliveries : m \in pending[d] /\ Tried(d)

\* A message of a delivery stays with it until it has its outcome; the attempts
\* of the delivery are not forgotten before; and the done channel that is open now
\* stays in place until an attempt has ended.
LEMMA OnItsWay ==
  ASSUME TypeInv, TypeInv', OwnInv, NEW d \in Deliveries, DoneOK(d), Life(d),
         NEW m \in pending[d], ~Settled(m)'
  PROVE  /\ m \in pending'[d]
         /\ Tried(d) => Tried(d)'
         /\ CurrentDone(d) \notin closedDone
              => Tried(d)' \/ (CurrentDone(d)' = CurrentDone(d) /\ CurrentDone(d) \notin closedDone')
<1>. USE DEF TypeInv, TypeOK, DoneOK, CurrentDone, Tried
<1>0. /\ gen[d] \in Nat /\ attempt[d] \in Nat /\ retrying[d] \in BOOLEAN /\ phase[d] \in PhaseStates
      /\ phase[d] \notin {"none", "exit", "done"}
  BY DEF OwnInv, PendingWhileServed
<1>1. CASE Stays(d)
  BY <1>0, <1>1 DEF Stays, DoneKept
<1>2. CASE Advances(d)
  BY <1>0, <1>2 DEF Advances, DoneKept, LetsGo
<1>3. CASE BeginUpload(d)
  <2>1. /\ phase'[d] = "upload" /\ attempt'[d] = attempt[d] + 1
        /\ gen'[d] = (IF retrying[d] THEN gen[d] + 1 ELSE gen[d])
        /\ closedDone' = closedDone /\ pending' = pending
    BY <1>3 DEF BeginUpload, BeginDeliveryAttempt
  <2>2. phase[d] = "ready"
    BY <1>3 DEF BeginUpload
  <2>3. retrying[d] => attempt[d] >= 1
    BY <2>2
  <2>4. ~retrying[d] => gen'[d] = gen[d]
    BY <1>0, <2>1
  <2>. HIDE DEF TypeInv, TypeOK, DoneOK
  <2>5. CASE retrying[d]
    <3>1. attempt'[d] > 1
      BY <1>0, <2>1, <2>3, <2>5
    <3>. QED BY <2>1, <3>1
  <2>6. CASE ~retrying[d]
    <3>1. CurrentDone(d)' = CurrentDone(d) /\ closedDone' = closedDone
      BY <2>1, <2>4, <2>6
    <3>2. Tried(d) => Tried(d)'
      BY <1>0, <2>1
    <3>. QED BY <2>1, <3>1, <3>2
  <2>. QED BY <2>5, <2>6
<1>4. CASE DeferRetry(d)
  <2>1. phase'[d] = "backoff" /\ attempt' = attempt /\ pending' = pending /\ phase[d] = "defer"
    BY <1>4 DEF DeferRetry
  <2>. QED BY <1>0, <2>1
<1>5. CASE Begins(d) \/ Finishes(d) \/ Ends(d)
  BY <1>0, <1>5 DEF Begins, Finishes, Ends, LetsGo
<1>. QED BY <1>1, <1>2, <1>3, <1>4, <1>5 DEF Life

\* The messages the loop still brings into batches for the Flush it serves, and
\* those it has brought there.
InHand(m) ==
  \/ m \in {msgs[i] : i \in 1..left} \/ m = held \/ m \in batch
  \/ \E d \in Deliveries : m \in pending[d]

Barrier(f, m) ==
  /\ flush[f] = "requesting" => enq[m] = "accepted"
  /\ flush[f] = "awaiting" => Settled(m) \/ InHand(m)
  /\ flush[f] = "waiting" =>
       \/ Delivered(m)
       \/ \E d \in Deliveries : m \in pending[d] /\ CurrentDone(d) \in waitFor[f] \ closedDone
  /\ flush[f] = "nil" => Delivered(m)

BarrierInv == \A f \in Flushers : \A m \in before[f] : Barrier(f, m)

LEMMA DeliveredStays ==
  ASSUME TypeInv, OwnInv, CountInv, DoneInv, [Next]_vars, NEW m \in Messages, Delivered(m)
  PROVE  Delivered(m)'
BY TypeNext, OutcomesGrow, LifeNext, OnItsWay DEF Delivered, DoneInv

\* While the loop serves a Flush, every message it has in hand stays there, or
\* gets its outcome.
LEMMA InHandLoop ==
  ASSUME TypeInv, TypeInv', OwnInv, CountInv, DoneInv, ServingInv, LoopStep, serving # None,
         NEW m \in Messages, InHand(m)
  PROVE  Settled(m)' \/ InHand(m)'
<1>. DEFINE Go == \E d \in Deliveries : m \in pending'[d]
<1>. USE DEF InHand, queueVars, loopVars
<1>0. /\ msgs \in Seq(Messages) /\ left \in Nat /\ batch \in SUBSET Messages
      /\ lpc \in {"flush", "append", "submit", "reply"}
  BY DEF TypeInv, TypeOK, ServingInv
<1>1. ASSUME NEW d \in Deliveries, m \in pending[d] PROVE Settled(m)' \/ Go
  <2>1. Life(d) /\ DoneOK(d)
    BY LifeOfLoop DEF DoneInv
  <2>. QED BY <1>1, <2>1, OnItsWay
<1>2. CASE LoopFlushDrain
  <2>. DEFINE h == Head(msgs)
  <2>1. /\ msgs # << >> /\ left > 0 /\ msgs' = Tail(msgs) /\ left' = left - 1
        /\ left <= Len(msgs) /\ h \in Messages /\ held = None
    BY <1>0, <1>2, HeadTailType DEF LoopFlushDrain, ProcessMessage, ServingInv, TypeInv, HeldOK
  <2>2. \A i \in 1..left : i = 1 \/ (i - 1 \in 1..left' /\ msgs[i] = msgs'[i - 1])
    BY <1>0, <2>1
  <2>3. m \in {msgs[i] : i \in 1..left} => m = h \/ m \in {msgs'[i] : i \in 1..left'}
    <3>1. msgs[1] = h
      BY <1>0, <2>1
    <3>. QED BY <2>2, <3>1
  <2>. HIDE DEF h
  <2>4. m = h => Settled(m)' \/ m = held'
    <3>1. Notify({}, {h}) \/ held' = h
      BY <1>2 DEF LoopFlushDrain, ProcessMessage, h
    <3>. QED BY <3>1, <2>1, NotifySettles DEF TypeInv
  <2>5. m \in batch => m \in batch' \/ Go
    <3>1. FlushBatch(batch) \/ batch' = batch
      BY <1>2 DEF LoopFlushDrain, ProcessMessage, FlushIfAny
    <3>2. m \in batch /\ FlushBatch(batch) => Go
      BY <1>0, FreshIsUnused DEF FlushBatch, TypeInv, TypeOK
    <3>. QED BY <3>1, <3>2
  <2>6. m # held
    BY <2>1, NoneAssumption
  <2>. QED BY <1>1, <2>3, <2>4, <2>5, <2>6
<1>3. CASE LoopFlushRest
  <2>1. UNCHANGED <<msgs, left, held>> /\ (FlushBatch(batch) \/ batch' = batch)
    BY <1>3 DEF LoopFlushRest, FlushIfAny
  <2>2. m \in batch /\ FlushBatch(batch) => Go
    BY <1>0, FreshIsUnused DEF FlushBatch, TypeInv, TypeOK
  <2>. QED BY <1>1, <2>1, <2>2
<1>4. CASE AppendMessage
  <2>1. UNCHANGED <<msgs, left>> /\ (FlushBatch(batch \cup {held}) \/ batch' = batch \cup {held})
    BY <1>4 DEF AppendMessage
  <2>2. m \in batch \cup {held} /\ FlushBatch(batch \cup {held}) => Go
    BY <1>0, FreshIsUnused DEF FlushBatch, TypeInv, TypeOK
  <2>. QED BY <1>1, <2>1, <2>2
<1>5. CASE LoopFlushReply \/ Submit
  <2>1. UNCHANGED <<msgs, left, held, batch>>
    BY <1>5 DEF LoopFlushReply, Submit, SubmitAccepted, SubmitRefused
  <2>. QED BY <1>1, <2>1
<1>. QED BY <1>0, <1>2, <1>3, <1>4, <1>5
  DEF LoopStep, LoopReceive, LoopTick, LoopQuit, LoopDrain, LoopFinalFlush, AwaitDrain,
      LoopShutdown, LoopCloseBatches

LEMMA InHandStays ==
  ASSUME TypeInv, OwnInv, CountInv, DoneInv, ServingInv, [Next]_vars, serving # None,
         NEW m \in Messages, InHand(m)
  PROVE  Settled(m)' \/ InHand(m)'
<1>0. /\ TypeInv' /\ msgs \in Seq(Messages) /\ left \in Nat /\ left <= Len(msgs)
      /\ lpc \in {"flush", "append", "submit", "reply"}
  BY TypeNext DEF TypeInv, TypeOK, ServingInv
<1>1. CASE LoopStep
  BY <1>0, <1>1, InHandLoop
<1>2. CASE ~LoopStep
  <2>1. /\ UNCHANGED <<left, held, batch>>
        /\ msgs' = msgs \/ \E x \in Messages : msgs' = Append(msgs, x)
    <3>. USE DEF queueVars, loopVars
    <3>1. ASSUME NEW x \in Messages, Enqueue(x)
          PROVE  UNCHANGED <<left, held, batch>> /\ (msgs' = msgs \/ msgs' = Append(msgs, x))
      BY <3>1 DEF Enqueue, EnqueueCheckClosed, EnqueueDiscard, EnqueueUnserializable, SendPrepared
    <3>2. ASSUME NEW f \in Flushers, Flush(f) PROVE UNCHANGED <<left, held, batch, msgs>>
      BY <1>0, <3>2 DEF Flush, FlushCall, LoopFlushRequest, FlushQuit, FlushCtxDone, FlushReturn
    <3>3. ASSUME NEW d \in Deliveries, Worker(d) PROVE UNCHANGED <<left, held, batch, msgs>>
      BY <3>3 DEF Worker, BeginUpload, UploadEnds, UploadOK, UploadTerminal, UploadRetryable,
         UploadPartial, DeferRetry, RetryTimer, RetryInterrupted, ProcessBatchReturn
    <3>4. ASSUME NEW k \in Closers, Close(k) PROVE UNCHANGED <<left, held, batch, msgs>>
      BY <3>4 DEF Close, CloseCall, CloseQuit, CloseTimeout, CloseReturn, CloseAgain
    <3>5. ProcessBatch \/ UNCHANGED vars => UNCHANGED <<left, held, batch, msgs>>
      BY DEF ProcessBatch, vars
    <3>. QED BY <1>2, <3>1, <3>2, <3>3, <3>4, <3>5 DEF Next, Terminated
  <2>2. \A i \in 1..left : msgs'[i] = msgs[i]
    BY <1>0, <2>1
  <2>3. {msgs'[i] : i \in 1..left'} = {msgs[i] : i \in 1..left}
    BY <2>1, <2>2
  <2>4. ASSUME NEW d \in Deliveries, m \in pending[d]
        PROVE  Settled(m)' \/ \E e \in Deliveries : m \in pending'[e]
    BY <1>0, <2>4, LifeNext, OnItsWay DEF DoneInv
  <2>. QED BY <2>1, <2>3, <2>4 DEF InHand
<1>. QED BY <1>1, <1>2

LEMMA BarrierInit == Init => BarrierInv
BY DEF Init, BarrierInv

FlushInv == TypeInv /\ OwnInv /\ CountInv /\ DoneInv /\ ServingInv

\* Whatever else happens, a Flush call that does not move on keeps its promise.
LEMMA BarrierKept ==
  ASSUME FlushInv, [Next]_vars, NEW f \in Flushers, NEW m \in Messages, Barrier(f, m),
         flush'[f] = flush[f], flush[f] = "waiting" => waitFor'[f] = waitFor[f]
  PROVE  Barrier(f, m)'
<1>. USE DEF Barrier, FlushInv
<1>1. CASE flush[f] = "requesting"
  BY <1>1, OutcomesGrow
<1>2. CASE flush[f] = "awaiting"
  <2>1. serving # None
    BY <1>2, NoneAssumption DEF ServingInv
  <2>. QED BY <1>2, <2>1, OutcomesGrow, InHandStays
<1>3. CASE flush[f] = "waiting"
  <2>1. CASE Delivered(m)
    BY <1>3, <2>1, DeliveredStays
  <2>2. ASSUME NEW d \in Deliveries, m \in pending[d], CurrentDone(d) \in waitFor[f] \ closedDone
        PROVE  Delivered(m)' \/ (m \in pending'[d] /\ CurrentDone(d)' \in waitFor'[f] \ closedDone')
    BY <1>3, <2>2, TypeNext, LifeNext, OnItsWay DEF Delivered, DoneInv
  <2>. QED BY <1>3, <2>1, <2>2
<1>4. CASE flush[f] = "nil"
  BY <1>4, DeliveredStays
<1>. QED BY <1>1, <1>2, <1>3, <1>4

\* The moments at which a Flush call moves on.
LEMMA BarrierMoves ==
  ASSUME FlushInv, BarrierInv, [Next]_vars, NEW f \in Flushers, Flush(f),
         NEW m \in Messages, m \in before'[f]
  PROVE  Barrier(f, m)'
<1>. USE DEF Barrier, FlushInv, FlushStates
<1>0. /\ flush \in [Flushers -> FlushStates] /\ before \in [Flushers -> SUBSET Messages]
      /\ waitFor \in [Flushers -> SUBSET (Deliveries \X Nat)]
  BY DEF TypeInv, TypeOK
<1>1. CASE FlushCall(f)
  BY <1>0, <1>1 DEF FlushCall, Accepted
<1>2. CASE LoopFlushRequest(f)
  <2>1. enq[m] = "accepted" /\ flush'[f] = "awaiting"
    BY <1>0, <1>2 DEF LoopFlushRequest, BarrierInv
  <2>2. Settled(m) \/ Owned(m)
    BY <2>1 DEF OwnInv, NothingLost
  <2>3. /\ left' = Len(msgs) /\ UNCHANGED <<msgs, held, batch, pending, successes, failures, absorbed>>
    BY <1>2 DEF LoopFlushRequest, queueVars, workVars, reportVars
  <2>4. Settled(m)' \/ InHand(m)'
    BY <2>2, <2>3 DEF Settled, Owned, Queued, InHand
  <2>. QED BY <2>1, <2>4
<1>3. CASE FlushQuit(f) \/ FlushCtxDone(f)
  BY <1>0, <1>3 DEF FlushQuit, FlushCtxDone
<1>4. CASE FlushReturn(f)
  <2>1. /\ m \in before[f] /\ flush[f] = "waiting" /\ flush'[f] = "nil"
        /\ waitFor[f] \subseteq closedDone
    BY <1>0, <1>4 DEF FlushReturn
  <2>2. Delivered(m)
    BY <2>1 DEF BarrierInv
  <2>. QED BY <2>1, <2>2, DeliveredStays
<1>. QED BY <1>1, <1>2, <1>3, <1>4 DEF Flush

\* The reply of the loop: every message it took in hand for the caller is settled, or
\* in a batch the caller is told to wait for, or in one that waits for its retry.
LEMMA BarrierReply ==
  ASSUME FlushInv, BarrierInv, LoopFlushReply, NEW f \in Flushers, f = serving,
         NEW m \in Messages, m \in before'[f], flush[f] = "awaiting"
  PROVE  Barrier(f, m)'
<1>. USE DEF FlushInv, CurrentDone
<1>1. /\ flush'[f] = "waiting" /\ waitFor'[f] = {<<d, gen[d]>> : d \in deliveries}
      /\ m \in before[f] /\ UNCHANGED <<workVars, doneVars, reportVars>>
  BY DEF LoopFlushReply, TypeInv, TypeOK
<1>2. Settled(m) \/ \E d \in Deliveries : m \in pending[d]
  <2>1. held = None /\ left = 0 /\ batch = {}
    BY DEF LoopFlushReply, TypeInv, HeldOK, ServingInv
  <2>2. m # None
    BY NoneAssumption
  <2>. QED BY <1>1, <2>1, <2>2 DEF BarrierInv, Barrier, InHand
<1>3. ASSUME NEW d \in Deliveries, m \in pending[d]
      PROVE  Tried(d) \/ <<d, gen[d]>> \in waitFor'[f] \ closedDone
  <2>1. phase[d] \notin {"none", "exit", "done"} /\ d \in deliveries
    BY <1>3 DEF OwnInv, PendingWhileServed, DoneInv, DoneOK, Busy
  <2>2. <<d, gen[d]>> \in closedDone => phase[d] \in {"backoff", "ready"} /\ attempt[d] >= 1
    BY <2>1 DEF DoneInv, DoneOK
  <2>3. attempt[d] \in Nat
    BY DEF TypeInv, TypeOK
  <2>. QED BY <1>1, <2>1, <2>2, <2>3 DEF Tried
<1>. QED BY <1>1, <1>2, <1>3 DEF Barrier, Delivered, Settled, Tried, workVars, doneVars, reportVars

LEMMA BarrierNext ==
  ASSUME FlushInv, BarrierInv, [Next]_vars PROVE BarrierInv'
<1>. SUFFICES ASSUME NEW f \in Flushers, NEW m \in before'[f] PROVE Barrier(f, m)'
  BY DEF BarrierInv
<1>0. /\ TypeInv' /\ flush \in [Flushers -> FlushStates] /\ before \in [Flushers -> SUBSET Messages]
      /\ waitFor \in [Flushers -> SUBSET (Deliveries \X Nat)]
  BY TypeNext DEF FlushInv, TypeInv, TypeOK
<1>1. m \in Messages
  BY <1>0 DEF TypeInv, TypeOK
<1>2. CASE LoopFlushReply
  <2>1. /\ before' = before
        /\ f = serving => flush[f] \in {"awaiting", "ctxErr"}
        /\ f # serving => flush'[f] = flush[f] /\ waitFor'[f] = waitFor[f]
        /\ flush[f] # "awaiting" => flush'[f] = flush[f]
    BY <1>0, <1>2, NoneAssumption DEF LoopFlushReply, FlushInv, ServingInv
  <2>2. CASE f = serving /\ flush[f] = "awaiting"
    BY <1>1, <1>2, <2>2, BarrierReply
  <2>3. CASE ~(f = serving /\ flush[f] = "awaiting")
    BY <1>1, <2>1, <2>3, BarrierKept DEF BarrierInv
  <2>. QED BY <2>2, <2>3
<1>3. ASSUME NEW g \in Flushers, Flush(g) PROVE Barrier(f, m)'
  <2>1. CASE g = f
    BY <1>1, <1>3, <2>1, BarrierMoves
  <2>2. CASE g # f
    <3>1. flush'[f] = flush[f] /\ waitFor'[f] = waitFor[f] /\ before'[f] = before[f]
      BY <1>0, <1>3, <2>2
      DEF Flush, FlushCall, LoopFlushRequest, FlushQuit, FlushCtxDone, FlushReturn
    <3>. QED BY <1>1, <3>1, BarrierKept DEF BarrierInv
  <2>. QED BY <2>1, <2>2
<1>4. CASE UNCHANGED flushVars
  BY <1>1, <1>4, BarrierKept DEF BarrierInv, flushVars
<1>. QED BY <1>2, <1>3, <1>4, FlushKept

\* When Flush returns nil, every message accepted before the call has its outcome or
\* has been through an upload attempt that ended: nothing accepted earlier is
\* overlooked in the queue, in the loop's hand, in its batch or in the channel.
THEOREM FlushIsABarrier == Spec => []FlushBarrier
<1>1. FlushInv /\ BarrierInv /\ [Next]_vars => (ServingInv /\ BarrierInv)'
  BY ServingNext, BarrierNext DEF FlushInv
<1>2. TypeInv /\ BarrierInv => FlushBarrier
  BY DEF BarrierInv, Barrier, FlushBarrier, Delivered, Tried
<1>3. CloseInv /\ OwnInv /\ TypeInv /\ DoneInv /\ ServingInv => FlushInv
  BY DEF FlushInv, CloseInv
<1>. QED BY <1>1, <1>2, <1>3, Signals, ServingInit, BarrierInit, PTL DEF Spec

---------------------------------------------------------------------------
(* The refinement: every step of the pipeline is a step of DeliveryContract *)
(* or changes nothing it speaks of.                                         *)

\* Enqueue reports a message it cannot serialize before it returns.
ReportedAtOnce == \A m \in Messages : enq[m] = "unserializable" => Settled(m)

LEMMA OnlyEnqueueEnqueues ==
  ASSUME [Next]_vars, ~ \E m \in Messages : Enqueue(m) PROVE enq' = enq
<1>1. CASE LoopStep
  BY <1>1 DEF LoopStep, LoopReceive, LoopTick, LoopFlushDrain, LoopFlushRest,
     LoopFlushReply, LoopQuit, LoopDrain, LoopFinalFlush, AppendMessage, AwaitDrain,
     LoopShutdown, LoopCloseBatches, Submit, SubmitAccepted, SubmitRefused, ProcessMessage
<1>2. CASE ProcessBatch \/ UNCHANGED vars
  BY <1>2 DEF ProcessBatch, vars
<1>3. ASSUME NEW d \in Deliveries, Worker(d) PROVE enq' = enq
  BY <1>3 DEF Worker, BeginUpload, UploadEnds, UploadOK, UploadTerminal, UploadRetryable,
     UploadPartial, DeferRetry, RetryTimer, RetryInterrupted, ProcessBatchReturn
<1>4. ASSUME NEW f \in Flushers, Flush(f) PROVE enq' = enq
  BY <1>4 DEF Flush, FlushCall, LoopFlushRequest, FlushQuit, FlushCtxDone, FlushReturn
<1>5. ASSUME NEW k \in Closers, Close(k) PROVE enq' = enq
  BY <1>5 DEF Close, CloseCall, CloseQuit, CloseTimeout, CloseReturn, CloseAgain
<1>. QED BY <1>1, <1>2, <1>3, <1>4, <1>5 DEF Next, Terminated

LEMMA ReportedAtOnceNext ==
  ASSUME TypeInv, ReportedAtOnce, [Next]_vars PROVE ReportedAtOnce'
<1>1. \A m \in Messages : Settled(m) => Settled(m)'
  BY OutcomesGrow
<1>2. ASSUME NEW x \in Messages, Enqueue(x), NEW m \in Messages, enq'[m] = "unserializable"
      PROVE  enq[m] = "unserializable" \/ Settled(m)'
  <2>1. CASE EnqueueUnserializable(x)
    BY <1>2, <2>1, NotifySettles DEF EnqueueUnserializable, TypeInv, TypeOK
  <2>2. CASE EnqueueCheckClosed(x) \/ EnqueueDiscard(x) \/ SendPrepared(x)
    BY <1>2, <2>2 DEF EnqueueCheckClosed, EnqueueDiscard, SendPrepared, TypeInv, TypeOK
  <2>. QED BY <1>2, <2>1, <2>2 DEF Enqueue
<1>3. CASE enq' = enq
  BY <1>1, <1>3 DEF ReportedAtOnce
<1>. QED BY <1>1, <1>2, <1>3, OnlyEnqueueEnqueues DEF ReportedAtOnce

\* A contract step is one about single messages: the stages of all of them.
LEMMA StageStep ==
  ASSUME NEW m \in Messages, NEW r, StageOf(m)' = r,
         \A x \in Messages \ {m} : StageOf(x)' = StageOf(x)
  PROVE  [x \in Messages |-> StageOf(x)]' = [[x \in Messages |-> StageOf(x)] EXCEPT ![m] = r]
OBVIOUS

LEMMA RefinementInit == Init => Contract!Init
<1>. SUFFICES ASSUME Init PROVE Contract!Init
  OBVIOUS
<1>1. \A m \in Messages : StageOf(m) = "new"
  BY DEF Init, StageOf, Settled
<1>2. ClosingOf = "open"
  BY DEF Init, ClosingOf
<1>. QED BY <1>1, <1>2 DEF Contract!Init

\* Enqueue refuses a message, reports it, makes it pending, or is not through.
LEMMA RefinementEnqueue ==
  ASSUME TypeInv, TypeInv', OwnInv, ShutdownOrder, NEW m \in Messages, Enqueue(m)
  PROVE  [Contract!Next]_(Contract!vars)
<1>. USE DEF closeVars, reportVars
<1>1. /\ enq[m] \in {"new", "preparing"} /\ UNCHANGED <<closed, closer, absorbed>>
      /\ enq \in [Messages -> EnqStates]
  BY DEF Enqueue, EnqueueCheckClosed, EnqueueDiscard, EnqueueUnserializable, SendPrepared,
         TypeInv, TypeOK
<1>2. StageOf(m) = "new" /\ ~Settled(m) /\ m \notin absorbed
  BY <1>1 DEF OwnInv, OutcomeOnlyAfterEnqueue, StageOf, Settled
<1>3. UNCHANGED ClosingOf
  BY <1>1 DEF ClosingOf
<1>4. ASSUME NEW x \in Messages \ {m} PROVE StageOf(x)' = StageOf(x)
  <2>1. enq'[x] = enq[x]
    BY <1>1 DEF Enqueue, EnqueueCheckClosed, EnqueueDiscard, EnqueueUnserializable, SendPrepared
  <2>2. successes'[x] = successes[x] /\ failures'[x] = failures[x]
    BY DEF Enqueue, EnqueueCheckClosed, EnqueueDiscard, EnqueueUnserializable, SendPrepared,
           Notify, TypeInv, TypeOK
  <2>. QED BY <1>1, <2>1, <2>2 DEF StageOf, Settled
<1>5. CASE StageOf(m)' = "new"
  BY <1>2, <1>3, <1>4, <1>5 DEF Contract!vars
<1>6. CASE StageOf(m)' = "refused"
  <2>1. Contract!Refuse(m)
    BY <1>2, <1>3, <1>4, <1>6, StageStep DEF Contract!Refuse
  <2>. QED BY <2>1 DEF Contract!Next
<1>7. CASE StageOf(m)' = "reported"
  <2>1. Contract!ReportAtOnce(m)
    BY <1>2, <1>3, <1>4, <1>7, StageStep DEF Contract!ReportAtOnce
  <2>. QED BY <2>1 DEF Contract!Next
<1>8. CASE StageOf(m)' = "pending" /\ ~msgsClosed
  <2>1. ClosingOf \in {"open", "closing"}
    BY <1>8 DEF ShutdownOrder, ClosingOf
  <2>2. Contract!Accept(m)
    BY <1>2, <1>3, <1>4, <1>8, <2>1, StageStep DEF Contract!Accept
  <2>. QED BY <2>2 DEF Contract!Next
<1>9. CASE EnqueueUnserializable(m)
  <2>1. Settled(m)' /\ m \notin absorbed'
    BY <1>1, <1>2, <1>9, NotifySettles DEF EnqueueUnserializable, TypeInv
  <2>. QED BY <1>7, <2>1 DEF StageOf
<1>10. CASE EnqueueCheckClosed(m) \/ EnqueueDiscard(m) \/ SendPrepared(m)
  <2>0. UNCHANGED <<successes, failures>>
    BY <1>10 DEF EnqueueCheckClosed, EnqueueDiscard, SendPrepared
  <2>1. m \notin absorbed' /\ ~Settled(m)'
    BY <1>1, <1>2, <2>0 DEF Settled
  <2>2. \/ enq'[m] \in {"preparing", "ErrClosed", "discarded", "ErrQueueFull"}
        \/ enq'[m] = "accepted" /\ ~msgsClosed
    BY <1>1, <1>10 DEF EnqueueCheckClosed, EnqueueDiscard, SendPrepared
  <2>. QED BY <1>5, <1>6, <1>8, <2>1, <2>2 DEF StageOf
<1>. QED BY <1>9, <1>10 DEF Enqueue

\* The goroutines of the client settle pending messages and nothing else.
LEMMA RefinementSettle ==
  ASSUME TypeInv, TypeInv', OwnInv, OwnInv', ReportedAtOnce, [Next]_vars,
         UNCHANGED <<enq, closed, closer>>
  PROVE  Contract!Settle
<1>1. UNCHANGED ClosingOf
  BY DEF ClosingOf
<1>2. ASSUME NEW m \in Messages
      PROVE  \/ StageOf(m)' = StageOf(m)
             \/ StageOf(m) = "pending" /\ StageOf(m)' \in {"reported", "taken"}
  <2>0. /\ successes[m] \in Nat /\ failures[m] \in Nat
        /\ successes'[m] \in Nat /\ failures'[m] \in Nat
    BY DEF TypeInv, TypeOK
  <2>1. /\ Settled(m) => Settled(m)'
        /\ m \in absorbed => m \in absorbed'
        /\ successes'[m] >= successes[m] /\ failures'[m] >= failures[m]
    BY OutcomesGrow
  <2>2. Settled(m) /\ m \notin absorbed => m \notin absorbed'
    BY <2>0, <2>1 DEF Settled, OwnInv, AtMostOneCallback
  <2>3. ~Settled(m) /\ Settled(m)' => enq[m] = "accepted"
    BY DEF OwnInv, OutcomeOnlyAfterEnqueue, ReportedAtOnce
  <2>4. m \in absorbed => Settled(m)
    BY DEF Settled
  <2>5. m \in absorbed' => Settled(m)'
    BY DEF Settled
  <2>. QED BY <2>1, <2>2, <2>3, <2>4, <2>5 DEF StageOf
<1>3. [m \in Messages |-> StageOf(m)]' \in [Messages -> Contract!Stages]
  BY DEF Contract!Stages, StageOf
<1>. QED BY <1>1, <1>2, <1>3 DEF Contract!Settle

\* The first Close call begins to close and the one that waited reports how it went.
LEMMA RefinementClose ==
  ASSUME TypeInv, TypeInv', OwnInv, OwnInv', CloseInv, CleanClose', NEW k \in Closers, Close(k)
  PROVE  [Contract!Next]_(Contract!vars)
<1>. USE DEF CloseInv, CloserInv, Passive
<1>0. closer \in [Closers -> CloseStates]
  BY DEF TypeInv, TypeOK
<1>1. UNCHANGED [m \in Messages |-> StageOf(m)]
  <2>1. UNCHANGED <<enq, successes, failures, absorbed>>
    BY DEF Close, CloseCall, CloseQuit, CloseTimeout, CloseReturn, CloseAgain, reportVars
  <2>. QED BY <2>1 DEF StageOf, Settled
<1>2. CASE CloseCall(k)
  <2>1. CASE \A j \in Closers : closer[j] = "idle"
    <3>1. ~closed /\ closed' /\ closer' = [closer EXCEPT ![k] = "marked"]
      BY <1>2, <2>1 DEF CloseCall
    <3>2. ClosingOf = "open" /\ ClosingOf' = "closing"
      BY <1>0, <2>1, <3>1 DEF ClosingOf
    <3>. QED BY <1>1, <3>2 DEF Contract!Next, Contract!BeginClose
  <2>2. CASE ~ \A j \in Closers : closer[j] = "idle"
    <3>1. UNCHANGED ClosingOf
      BY <1>0, <1>2, <2>2 DEF CloseCall, ClosingOf
    <3>. QED BY <1>1, <3>1 DEF Contract!vars
  <2>. QED BY <2>1, <2>2
<1>3. CASE CloseQuit(k) \/ CloseTimeout(k) \/ CloseAgain(k)
  <2>1. UNCHANGED closed /\ \E r \in {"waiting", "cancelled", "ErrClosed"} :
                               closer' = [closer EXCEPT ![k] = r]
        /\ closer[k] \notin {"nil", "timeout"}
    BY <1>3 DEF CloseQuit, CloseTimeout, CloseAgain
  <2>2. \A j \in Closers, r \in {"nil", "timeout"} : closer'[j] = r <=> closer[j] = r
    BY <1>0, <2>1
  <2>3. UNCHANGED ClosingOf
    BY <2>1, <2>2 DEF ClosingOf
  <2>. QED BY <1>1, <2>3 DEF Contract!vars
<1>4. CASE CloseReturn(k)
  <2>1. /\ closer[k] \in {"waiting", "cancelled"} /\ closed' = closed
        /\ closer' = [closer EXCEPT ![k] = IF @ = "waiting" THEN "nil" ELSE "timeout"]
    BY <1>4 DEF CloseReturn
  <2>2. \A j \in Closers : closer[j] \notin {"nil", "timeout"}
    BY <2>1
  <2>3. closed
    BY <2>1
  <2>4. ClosingOf = "closing"
    BY <2>2, <2>3 DEF ClosingOf
  <2>5. CASE closer[k] = "waiting"
    <3>1. closer'[k] = "nil"
      BY <1>0, <2>1, <2>5
    <3>2. ClosingOf' = "clean"
      BY <3>1 DEF ClosingOf
    <3>3. \A m \in Messages : StageOf(m)' # "pending"
      BY <3>1 DEF CleanClose, Accepted, StageOf
    <3>4. Contract!Pending = {}
      BY <1>1, <3>3 DEF Contract!Pending
    <3>5. Contract!EndClose("clean")
      BY <1>1, <2>4, <3>2, <3>4 DEF Contract!EndClose
    <3>. QED BY <3>5 DEF Contract!Next
  <2>6. CASE closer[k] = "cancelled"
    <3>1. closer'[k] = "timeout" /\ \A j \in Closers : closer'[j] # "nil"
      BY <1>0, <2>1, <2>2, <2>6
    <3>2. ClosingOf' = "late"
      BY <3>1 DEF ClosingOf
    <3>3. Contract!EndClose("late")
      BY <1>1, <2>4, <3>2 DEF Contract!EndClose
    <3>. QED BY <3>3 DEF Contract!Next
  <2>. QED BY <2>1, <2>5, <2>6
<1>. QED BY <1>2, <1>3, <1>4 DEF Close

LEMMA RefinementNext ==
  ASSUME TypeInv, TypeInv', OwnInv, OwnInv', CloseInv, CleanClose', ReportedAtOnce, [Next]_vars
  PROVE  [Contract!Next]_(Contract!vars)
<1>1. CASE \E m \in Messages : Enqueue(m)
  BY <1>1, RefinementEnqueue DEF CloseInv
<1>2. CASE \E k \in Closers : Close(k)
  BY <1>2, RefinementClose
<1>3. CASE ~(\E m \in Messages : Enqueue(m)) /\ ~(\E k \in Closers : Close(k))
  BY <1>3, OnlyEnqueueEnqueues, OnlyCloseCloses, RefinementSettle DEF Contract!Next
<1>. QED BY <1>1, <1>2, <1>3

\* The pipeline implements DeliveryContract: whatever the goroutines, the queues, the
\* retries, Flush and Close do, an application that only sees results and callbacks
\* sees a message refused, reported at once, or pending and then settled once, and
\* nothing pending after a Close that returned nil.
THEOREM PipelineImplementsContract == Spec => ImplementsContract
<1>1. Init => ReportedAtOnce
  BY DEF Init, ReportedAtOnce
<1>. QED BY <1>1, RefinementInit, RefinementNext, ReportedAtOnceNext, Closing, CloseIsClean, PTL
     DEF Spec, ImplementsContract, Contract!Spec

---------------------------------------------------------------------------
(* Success callbacks that panic.  Messages of a batch may get both outcomes *)
(* then, but none is lost: the recovered goroutine reports the whole batch. *)

\* A delivery holds messages of the batch it was started with, and those of them it
\* no longer holds have their outcome.
ContentsInv ==
  /\ contents \in [Deliveries -> SUBSET Messages]
  /\ \A d \in Deliveries :
       /\ pending[d] \subseteq contents[d]
       /\ \A m \in contents[d] : enq[m] = "accepted" /\ (m \in pending[d] \/ Settled(m))

PanicInv == TypeInv /\ PlacesInv /\ ContentsInv

\* A step of the client fills a batch, or takes messages from it with their outcome.
LEMMA BatchesOnlyShrink ==
  ASSUME TypeInv, PlacesInv, [Next]_vars, NEW d \in Deliveries
  PROVE  phase'[d] = "submit" \/ LetsGo(d)
<1>1. Life(d) => phase'[d] = "submit" \/ LetsGo(d)
  BY DEF Life, Stays, Begins, Advances, BeginUpload, DeferRetry, Finishes, Ends, LetsGo, loopVars
<1>2. pending' = pending => LetsGo(d)
  BY DEF LetsGo
<1>3. ProcessBatch \/ UNCHANGED workVars => pending' = pending
  BY DEF ProcessBatch, workVars
<1>. QED BY <1>1, <1>2, <1>3, LifeOfLoop, LifeOfWorker, CallersKeepWork DEF Next, Terminated

\* The messages S it reports as successes, and F as failures, are its own.
PanicReports(d, S, F) ==
  /\ acked' = acked \cup (IF CaptureV1 THEN S ELSE pending[d])
  /\ successes' = [m \in Messages |-> successes[m] + (IF m \in S THEN 1 ELSE 0)]
  /\ failures' = [m \in Messages |->
                    failures[m] + (IF m \in F THEN 1 ELSE 0)
                                + (IF m \in contents[d] THEN 1 ELSE 0)]

LEMMA PanicReportsOwn ==
  ASSUME NEW d \in Deliveries, PanicInSuccess(d)
  PROVE  \E S, F \in SUBSET pending[d] : PanicReports(d, S, F)
<1>1. PICK S \in SUBSET pending[d] \ {{}} :
        \E F \in IF CaptureV1 THEN SUBSET (pending[d] \ S) ELSE {{}} : PanicReports(d, S, F)
  BY DEF PanicInSuccess, PanicReports
<1>2. PICK F \in IF CaptureV1 THEN SUBSET (pending[d] \ S) ELSE {{}} : PanicReports(d, S, F)
  BY <1>1
<1>3. F \in SUBSET pending[d]
  OBVIOUS
<1>. QED BY <1>2, <1>3

LEMMA PanicKeepsTypes ==
  ASSUME TypeInv, ContentsInv, NEW d \in Deliveries, PanicInSuccess(d)
  PROVE  TypeInv'
<1>1. PICK S, F \in SUBSET pending[d] : PanicReports(d, S, F)
  BY PanicReportsOwn
<1>2. /\ acked' \subseteq Messages
      /\ successes' \in [Messages -> Nat] /\ failures' \in [Messages -> Nat]
  BY <1>1 DEF PanicReports, TypeInv, TypeOK
<1>3. /\ pending' = [pending EXCEPT ![d] = {}] /\ attempt' = [attempt EXCEPT ![d] = 0]
      /\ phase' = [phase EXCEPT ![d] = "exit"]
      /\ UNCHANGED <<enq, queueVars, loopVars, chanVars, inFlight, doneVars, flushVars, closeVars, absorbed>>
  BY DEF PanicInSuccess
<1>4. /\ pending' \in [Deliveries -> SUBSET Messages] /\ attempt' \in [Deliveries -> Nat]
      /\ phase' \in [Deliveries -> PhaseStates]
  BY <1>3 DEF TypeInv, TypeOK, PhaseStates
<1>. QED BY <1>2, <1>3, <1>4 DEF TypeInv, TypeOK, HeldOK, queueVars, loopVars, chanVars, doneVars,
            flushVars, closeVars, CurrentDone

LEMMA PanicStep ==
  ASSUME PanicInv, NEW d \in Deliveries, PanicInSuccess(d)
  PROVE  /\ PlacesInv'
         /\ \A e \in Deliveries : LetsGo(e)
         /\ \A m \in Messages : (Settled(m) => Settled(m)') /\ enq'[m] = enq[m]
<1>1. PICK S, F \in SUBSET pending[d] : PanicReports(d, S, F)
  BY PanicReportsOwn
<1>2. /\ pending' = [pending EXCEPT ![d] = {}] /\ phase' = [phase EXCEPT ![d] = "exit"]
      /\ UNCHANGED <<enq, msgs, held, batch, absorbed>>
  BY DEF PanicInSuccess, queueVars, loopVars
<1>3. /\ pending \in [Deliveries -> SUBSET Messages] /\ phase \in [Deliveries -> PhaseStates]
      /\ \A m \in Messages : successes[m] \in Nat /\ failures[m] \in Nat
      /\ pending[d] \subseteq contents[d] /\ contents[d] \subseteq Messages
  BY DEF PanicInv, TypeInv, TypeOK, ContentsInv
<1>4. ASSUME NEW m \in Messages
      PROVE  Settled(m)' <=> Settled(m) \/ m \in contents[d]
  <2>1. /\ successes'[m] = successes[m] + (IF m \in S THEN 1 ELSE 0)
        /\ failures'[m] = failures[m] + (IF m \in F THEN 1 ELSE 0) + (IF m \in contents[d] THEN 1 ELSE 0)
    BY <1>1 DEF PanicReports
  <2>2. m \in S \/ m \in F => m \in contents[d]
    BY <1>3
  <2>. QED BY <1>2, <1>3, <2>1, <2>2 DEF Settled
<1>5. /\ pending'[d] = {} /\ \A e \in Deliveries : e # d => pending'[e] = pending[e]
      /\ phase'[d] = "exit" /\ \A e \in Deliveries : e # d => phase'[e] = phase[e]
  BY <1>2, <1>3
<1>6. \A e \in Deliveries : LetsGo(e)
  BY <1>3, <1>4, <1>5 DEF LetsGo
<1>7. Queued' = Queued
  BY <1>2 DEF Queued
<1>8. PendingWhileServed'
  BY <1>5 DEF PanicInv, PlacesInv, PendingWhileServed
<1>9. OutcomeOnlyAfterEnqueue'
  <2>1. \A m \in contents[d] : enq[m] = "accepted"
    BY DEF PanicInv, ContentsInv
  <2>. QED BY <1>2, <1>4, <2>1 DEF PanicInv, PlacesInv, OutcomeOnlyAfterEnqueue
<1>10. OneOwner'
  <2>1. \A e \in Deliveries : pending'[e] \subseteq pending[e]
    BY <1>5
  <2>. QED BY <1>2, <1>7, <2>1 DEF PanicInv, PlacesInv, OneOwner
<1>11. ASSUME NEW m \in Messages PROVE Owned(m)' <=> Owned(m) /\ m \notin pending[d]
  <2>1. m \in pending[d] => m \notin Queued /\ m # held /\ m \notin batch
                            /\ \A e \in Deliveries \ {d} : m \notin pending[e]
    BY DEF PanicInv, PlacesInv, OneOwner
  <2>. QED BY <1>2, <1>5, <1>7, <2>1 DEF Owned
<1>12. NothingLost'
  <2>1. \A m \in contents[d] : enq[m] = "accepted" /\ (m \in pending[d] \/ Settled(m))
    BY DEF PanicInv, ContentsInv
  <2>2. ASSUME NEW m \in Messages PROVE Owned(m) <=> enq[m] = "accepted" /\ ~Settled(m)
    BY DEF PanicInv, PlacesInv, NothingLost
  <2>3. \A m \in Messages : Owned(m)' <=> enq'[m] = "accepted" /\ ~Settled(m)'
    BY <1>2, <1>3, <1>4, <1>11, <2>1, <2>2
  <2>. QED BY <2>3 DEF NothingLost
<1>. QED BY <1>2, <1>4, <1>6, <1>8, <1>9, <1>10, <1>12 DEF PlacesInv

\* No message is lost when a Success callback panics: the goroutine that recovers
\* reports every message of its batch, and no other has one of them.
THEOREM NotLostByPanics == PanicSpec => []NothingLost
<1>1. PanicInit => PanicInv
  BY TypeInit, OwnInit DEF PanicInit, PanicInv, ContentsInv, OwnInv, PlacesInv, Init
<1>2. PanicInv /\ [PanicNext]_panicVars => PanicInv'
  <2>. SUFFICES ASSUME PanicInv, [PanicNext]_panicVars PROVE PanicInv'
    OBVIOUS
  <2>1. CASE UNCHANGED panicVars
    <3>1. [Next]_vars /\ contents' = contents
      BY <2>1 DEF panicVars
    <3>2. \A d \in Deliveries : pending'[d] = pending[d]
      BY <2>1 DEF panicVars, vars, workVars
    <3>3. \A m \in Messages : (Settled(m) => Settled(m)') /\ enq'[m] = enq[m]
      BY <2>1 DEF panicVars, vars, reportVars, Settled
    <3>. QED BY <3>1, <3>2, <3>3, TypeNext, PlacesNext DEF PanicInv, OwnKept, ContentsInv
  <2>2. CASE PanicNext
    <3>1. /\ TypeInv' /\ PlacesInv'
          /\ \A d \in Deliveries : phase'[d] = "submit" \/ LetsGo(d)
          /\ \A m \in Messages : (Settled(m) => Settled(m)')
                                 /\ (enq[m] = "accepted" => enq'[m] = "accepted")
      <4>1. CASE Next
        BY <4>1, TypeNext, PlacesNext, BatchesOnlyShrink, OutcomesGrow DEF PanicInv, OwnKept
      <4>2. ASSUME NEW d \in Deliveries, PanicInSuccess(d)
            PROVE  /\ TypeInv' /\ PlacesInv'
                   /\ \A e \in Deliveries : LetsGo(e)
                   /\ \A m \in Messages : (Settled(m) => Settled(m)') /\ enq'[m] = enq[m]
        BY <4>2, PanicStep, PanicKeepsTypes DEF PanicInv
      <4>. QED BY <2>2, <4>1, <4>2 DEF PanicNext
    <3>2. pending' \in [Deliveries -> SUBSET Messages]
      BY <3>1 DEF TypeInv, TypeOK
    <3>3. contents' = [d \in Deliveries |-> IF phase'[d] = "submit" THEN pending'[d] ELSE contents[d]]
      BY <2>2 DEF PanicNext
    <3>4. contents' \in [Deliveries -> SUBSET Messages]
      BY <3>2, <3>3 DEF PanicInv, ContentsInv
    <3>5. ASSUME NEW d \in Deliveries
          PROVE  /\ pending'[d] \subseteq contents'[d]
                 /\ \A m \in contents'[d] : enq'[m] = "accepted" /\ (m \in pending'[d] \/ Settled(m)')
      <4>1. CASE phase'[d] = "submit"
        <5>1. contents'[d] = pending'[d] /\ pending'[d] \subseteq Messages
          BY <3>2, <3>3, <4>1
        <5>2. \A m \in pending'[d] : enq'[m] = "accepted"
          BY <3>1, <5>1 DEF PlacesInv, NothingLost, Owned
        <5>. QED BY <5>1, <5>2
      <4>2. CASE phase'[d] # "submit"
        <5>1. contents'[d] = contents[d] /\ LetsGo(d)
          BY <3>1, <3>3, <4>2
        <5>2. /\ pending[d] \subseteq contents[d] /\ contents[d] \subseteq Messages
              /\ \A m \in contents[d] : enq[m] = "accepted" /\ (m \in pending[d] \/ Settled(m))
          BY DEF PanicInv, ContentsInv
        <5>. QED BY <3>1, <5>1, <5>2 DEF LetsGo
      <4>. QED BY <4>1, <4>2
    <3>. QED BY <3>1, <3>4, <3>5 DEF PanicInv, ContentsInv
  <2>. QED BY <2>1, <2>2
<1>3. PanicInv => NothingLost
  BY DEF PanicInv, PlacesInv
<1>. QED BY <1>1, <1>2, <1>3, PTL DEF PanicSpec
=============================================================================
