----------------------- MODULE DpdfnetProcessorProofs -----------------------
(***************************************************************************)
(* Theorems about DpdfnetProcessor, for every queue size, block size, FIFO *)
(* capacity and number of epochs and sessions.                             *)
(***************************************************************************)
EXTENDS DpdfnetProcessor, TLAPS, SequenceTheorems

-----------------------------------------------------------------------------
(* Lemmas about the queues.                                                *)

\* A push keeps a queue a bounded sequence of blocks and adds at most the
\* pushed block at its end.
LEMMA PushedType ==
  ASSUME NEW S, NEW q \in Seq(S), NEW b \in S, Len(q) <= QueueLimit
  PROVE  /\ Pushed(q, b) \in Seq(S)
         /\ Len(Pushed(q, b)) <= QueueLimit
         /\ Pushed(q, b) # <<>>
         /\ \A i \in 1..Len(Pushed(q, b)) :
              Pushed(q, b)[i] = b \/ (i \in 1..Len(q) /\ Pushed(q, b)[i] = q[i])
  BY SizeAssumption DEF Pushed

\* A pop returns a block of the queue and leaves the others in their order.
LEMMA PoppedType ==
  ASSUME NEW S, NEW q \in Seq(S), q # <<>>
  PROVE  /\ Head(q) \in S
         /\ Head(q) = q[1]
         /\ 1 \in 1..Len(q)
         /\ Tail(q) \in Seq(S)
         /\ Len(Tail(q)) = Len(q) - 1
         /\ Len(q) \in Nat
         /\ \A i \in 1..Len(Tail(q)) : i + 1 \in 1..Len(q) /\ Tail(q)[i] = q[i + 1]
  OBVIOUS

\* What a late store of pop()'s index brings back is a bounded sequence too.
LEMMA WrappedType ==
  ASSUME NEW S, NEW q \in Seq(S), NEW r \in Seq(S),
         Len(q) <= QueueLimit, Len(r) < QueueLimit
  PROVE  Wrapped(r \o q) \in Seq(S) /\ Len(Wrapped(r \o q)) <= QueueLimit
<1>. USE SizeAssumption DEF SizeAssumption
<1>. DEFINE s == r \o q
<1>1. s \in Seq(S) /\ Len(s) = Len(r) + Len(q) /\ Len(r) \in Nat /\ Len(q) \in Nat
  OBVIOUS
<1>2. CASE Len(s) <= QueueLimit
  BY <1>1, <1>2 DEF Wrapped
<1>3. CASE Len(s) > QueueLimit
  <2>1. /\ SubSeq(s, QueueLimit + 2, Len(s)) \in Seq(S)
        /\ Len(SubSeq(s, QueueLimit + 2, Len(s))) <= QueueLimit
    BY <1>1, <1>3, SubSeqProperties
  <2>. QED
    BY <1>1, <1>3, <2>1 DEF Wrapped
<1>. QED
  BY <1>1, <1>2, <1>3

-----------------------------------------------------------------------------
(* Type correctness.                                                       *)

\* The initial state has the types of the variables.
LEMMA TypeInit == Init => TypeOK
<1>. USE SizeAssumption DEF SizeAssumption, WorkerPc, RenderPc, UiPc
<1>. SUFFICES ASSUME Init PROVE TypeOK
  OBVIOUS
<1>1. /\ <<>> \in Seq(InputBlock) /\ Len(inputQueue) <= QueueLimit
      /\ <<>> \in Seq(OutputBlock) /\ Len(outputQueue) <= QueueLimit
  BY DEF Init
<1>2. NoInput \in InputBlock
  BY DEF NoInput, InputBlock
<1>3. 0 \in 0..MaxOutputSamples /\ 0 \in 0..FifoCapacity
  OBVIOUS
<1>4. /\ hand \in [block : OutputBlock, discarded : BOOLEAN, rest : Seq(OutputBlock)]
      /\ Len(hand.rest) < QueueLimit
  <2>1. hand = NoHand /\ NoHand.block \in OutputBlock
    BY DEF Init, NoHand, OutputBlock
  <2>. QED
    BY <2>1 DEF NoHand
<1>. QED
  BY <1>1, <1>2, <1>3, <1>4 DEF Init, TypeOK

\* A step of any thread keeps the types and the limits.
LEMMA TypeStep == TypeOK /\ [Next]_vars => TypeOK'
<1>. USE SizeAssumption DEF SizeAssumption, WorkerPc, RenderPc, UiPc
<1>. SUFFICES ASSUME TypeOK, [Next]_vars PROVE TypeOK'
  OBVIOUS
<1>. USE DEF TypeOK, statusVars, eventVars, resourceVars, workerVars, renderVars,
    uiVars, sessionVars
<1>1. CASE Render
  <2>1. CASE SetEpoch
    BY <2>1 DEF SetEpoch
  <2>2. CASE SetEpochStore
    BY <2>2 DEF SetEpochStore
  <2>3. CASE SetEpochDiscard
    BY <2>3 DEF SetEpochDiscard, Signalled
  <2>4. CASE ProcessBlock
    BY <2>4 DEF ProcessBlock
  <2>5. CASE ProcessBlockStore
    BY <2>5 DEF ProcessBlockStore
  <2>6. CASE ProcessBlockPush
    <3>1. [epoch |-> streamEpoch, session |-> session] \in InputBlock
      BY DEF InputBlock
    <3>2. inputQueue' \in Seq(InputBlock) /\ Len(inputQueue') <= QueueLimit
      BY <2>6, <3>1, PushedType DEF ProcessBlockPush
    <3>. QED
      BY <2>6, <3>2 DEF ProcessBlockPush, Signalled
  <2>7. CASE ProcessBlockPop
    <3>1. CASE outputQueue = <<>>
      BY <2>7, <3>1 DEF ProcessBlockPop
    <3>2. CASE outputQueue # <<>>
      <4>1. Head(outputQueue) \in OutputBlock
        BY <3>2, PoppedType
      <4>2. hand' = [block |-> Head(outputQueue), discarded |-> FALSE, rest |-> <<>>]
        BY <2>7, <3>2 DEF ProcessBlockPop
      <4>3. /\ hand' \in [block : OutputBlock, discarded : BOOLEAN, rest : Seq(OutputBlock)]
            /\ Len(hand'.rest) < QueueLimit
        BY <4>1, <4>2
      <4>. QED
        BY <2>7, <3>2, <4>3 DEF ProcessBlockPop
    <3>. QED
      BY <3>1, <3>2
  <2>8. CASE ProcessBlockPopped
    <3>1. outputQueue' \in Seq(OutputBlock) /\ Len(outputQueue') <= QueueLimit
      <4>1. CASE hand.discarded
        BY <2>8, <4>1, WrappedType DEF ProcessBlockPopped
      <4>2. CASE ~hand.discarded
        BY <2>8, <4>2, PoppedType DEF ProcessBlockPopped
      <4>. QED
        BY <4>1, <4>2
    <3>2. output' \in Played \cup {Silence}
      BY <2>8 DEF ProcessBlockPopped, OutputBlock, Played, Origin
    <3>3. hand' = NoHand /\ NoHand.block \in OutputBlock
      BY <2>8 DEF ProcessBlockPopped, NoHand, OutputBlock
    <3>4. /\ hand' \in [block : OutputBlock, discarded : BOOLEAN, rest : Seq(OutputBlock)]
          /\ Len(hand'.rest) < QueueLimit
      BY <3>3 DEF NoHand
    <3>. QED
      BY <2>8, <3>1, <3>2, <3>4 DEF ProcessBlockPopped
  <2>. QED
    BY <1>1, <2>1, <2>2, <2>3, <2>4, <2>5, <2>6, <2>7, <2>8 DEF Render
<1>2. CASE WorkerStep
  <2>1. CASE WarmupReset
    BY <2>1 DEF WarmupReset
  <2>2. CASE PublishReady
    BY <2>2 DEF PublishReady
  <2>3. CASE WorkerExit
    BY <2>3 DEF WorkerExit
  <2>4. CASE FailedWait
    BY <2>4 DEF FailedWait
  <2>5. CASE FailedWake
    <3>1. wakeEvent' \in BOOLEAN
      BY <2>5 DEF FailedWake
    <3>. QED
      BY <2>5, <3>1 DEF FailedWake
  <2>6. CASE FollowEpoch
    BY <2>6 DEF FollowEpoch, ResetWorkerState
  <2>7. CASE TakeInput
    <3>1. /\ Head(inputQueue) \in InputBlock
          /\ Tail(inputQueue) \in Seq(InputBlock)
          /\ Len(Tail(inputQueue)) <= QueueLimit
      BY <2>7, PoppedType DEF TakeInput
    <3>. QED
      BY <2>7, <3>1 DEF TakeInput
  <2>8. CASE IdleWait
    BY <2>8 DEF IdleWait
  <2>9. CASE IdleWake
    <3>1. wakeEvent' \in BOOLEAN
      BY <2>9 DEF IdleWake
    <3>. QED
      BY <2>9, <3>1 DEF IdleWake
  <2>10. CASE CompareEpoch
    BY <2>10 DEF CompareEpoch, ResetWorkerState, InputBlock
  <2>11. CASE GateRun
    BY <2>11 DEF GateRun
  <2>12. CASE AppendOutput
    BY <2>12 DEF AppendOutput, FifoAfter
  <2>13. CASE DrainFifo
    <3>1. [epoch |-> workerEpoch, from |-> fifoFrom] \in OutputBlock
      BY DEF OutputBlock
    <3>2. outputQueue' \in Seq(OutputBlock) /\ Len(outputQueue') <= QueueLimit
      BY <2>13, <3>1, PushedType DEF DrainFifo
    <3>3. outputQueue' # <<>>
      BY <2>13, <3>1, PushedType DEF DrainFifo
    <3>. QED
      BY <2>13, <3>2, <3>3 DEF DrainFifo
  <2>14. CASE Drained
    BY <2>14 DEF Drained
  <2>. QED
    BY <1>2, <2>1, <2>2, <2>3, <2>4, <2>5, <2>6, <2>7, <2>8, <2>9, <2>10, <2>11,
       <2>12, <2>13, <2>14 DEF WorkerStep
<1>3. CASE NativeReturns
  <2>1. CASE WarmupReturns
    <3>1. ready' \in BOOLEAN /\ failed' \in BOOLEAN /\ wakeEvent' \in BOOLEAN
      BY <2>1 DEF WarmupReturns, FailWorker, Signalled
    <3>. QED
      BY <2>1, <3>1 DEF WarmupReturns, FailWorker, Signalled, Warmup, Origin
  <2>2. CASE RunReturns
    <3>1. ready' \in BOOLEAN /\ failed' \in BOOLEAN /\ wakeEvent' \in BOOLEAN
      BY <2>2 DEF RunReturns, FailWorker, Signalled
    <3>. QED
      BY <2>2, <3>1 DEF RunReturns, FailWorker, Signalled, InputBlock, Origin
  <2>. QED
    BY <1>3, <2>1, <2>2 DEF NativeReturns
<1>4. CASE UiStep
  <2>1. CASE StopUnready
    <3>1. ready' \in BOOLEAN
      BY <2>1 DEF StopUnready
    <3>. QED
      BY <2>1, <3>1 DEF StopUnready
  <2>2. CASE StopRequest
    BY <2>2 DEF StopRequest, Joinable
  <2>3. CASE StopSignal
    BY <2>3 DEF StopSignal, Signalled, Joinable
  <2>4. CASE StopJoin
    <3>1. stopRequested' \in BOOLEAN
      BY <2>4 DEF StopJoin
    <3>. QED
      BY <2>4, <3>1 DEF StopJoin
  <2>5. CASE StopAbandon
    BY <2>5 DEF StopAbandon
  <2>6. CASE StopFree
    <3>1. /\ events' \in BOOLEAN /\ denoiser' \in BOOLEAN /\ wakeEvent' \in BOOLEAN
          /\ readyEvent' \in BOOLEAN
      BY <2>6 DEF StopFree
    <3>. QED
      BY <2>6, <3>1 DEF StopFree
  <2>7. CASE StopLast
    <3>1. ready' \in BOOLEAN
      BY <2>7 DEF StopLast
    <3>. QED
      BY <2>7, <3>1 DEF StopLast
  <2>8. CASE PrepareReset
    <3>1. failed' \in BOOLEAN /\ ready' \in BOOLEAN
      BY <2>8 DEF PrepareReset
    <3>2. CASE workerAbandoned
      BY <2>8, <3>1, <3>2 DEF PrepareReset
    <3>3. CASE ~workerAbandoned
      <4>1. inputQueue' = <<>> /\ outputQueue' = <<>>
        BY <2>8, <3>3 DEF PrepareReset
      <4>2. /\ inputQueue' \in Seq(InputBlock) /\ Len(inputQueue') <= QueueLimit
            /\ outputQueue' \in Seq(OutputBlock) /\ Len(outputQueue') <= QueueLimit
        BY <4>1
      <4>3. /\ hand' \in [block : OutputBlock, discarded : BOOLEAN, rest : Seq(OutputBlock)]
            /\ Len(hand'.rest) < QueueLimit
        <5>1. CASE renderPc = "popped" /\ ~hand.discarded
          <6>1. Tail(outputQueue) \in Seq(OutputBlock) /\ Len(Tail(outputQueue)) < QueueLimit
            BY <5>1, PoppedType
          <6>. QED
            BY <2>8, <3>3, <5>1, <6>1 DEF PrepareReset
        <5>2. CASE ~(renderPc = "popped" /\ ~hand.discarded)
          BY <2>8, <3>3, <5>2 DEF PrepareReset
        <5>. QED
          BY <5>1, <5>2
      <4>4. renderPc' = "popped" => hand'.discarded
        BY <2>8, <3>3 DEF PrepareReset
      <4>5. popRaced' \in BOOLEAN
        BY <2>8, <3>3 DEF PrepareReset
      <4>. QED
        BY <2>8, <3>1, <3>3, <4>2, <4>3, <4>4, <4>5 DEF PrepareReset
    <3>. QED
      BY <3>2, <3>3
  <2>9. CASE PrepareLoadFails
    BY <2>9 DEF PrepareLoadFails
  <2>10. CASE PrepareContractFails
    BY <2>10 DEF PrepareContractFails, CallStop
  <2>11. CASE PrepareCreate
    <3>1. workerExited' \in BOOLEAN /\ denoiser' \in BOOLEAN /\ events' \in BOOLEAN
      BY <2>11 DEF PrepareCreate
    <3>. QED
      BY <2>11, <3>1 DEF PrepareCreate
  <2>12. CASE PrepareStart
    BY <2>12 DEF PrepareStart
  <2>13. CASE PrepareTimeout
    BY <2>13 DEF PrepareTimeout, CallStop
  <2>14. CASE PrepareWarm
    BY <2>14 DEF PrepareWarm, CallStop
  <2>15. CASE PrepareReady
    BY <2>15 DEF PrepareReady
  <2>16. CASE DestroyImpl
    BY <2>16 DEF DestroyImpl
  <2>. QED
    BY <1>4, <2>1, <2>2, <2>3, <2>4, <2>5, <2>6, <2>7, <2>8, <2>9, <2>10, <2>11,
       <2>12, <2>13, <2>14, <2>15, <2>16 DEF UiStep, StopWorker
<1>5. CASE UiCall
  <2>1. CASE Prepare
    BY <2>1 DEF Prepare, CallStop
  <2>2. CASE ReleaseSession
    BY <2>2 DEF ReleaseSession, CallStop
  <2>3. CASE Destroy
    BY <2>3 DEF Destroy, CallStop
  <2>. QED
    BY <1>5, <2>1, <2>2, <2>3 DEF UiCall
<1>6. CASE UNCHANGED vars
  BY <1>6 DEF vars
<1>. QED
  BY <1>1, <1>2, <1>3, <1>4, <1>5, <1>6 DEF Next, Ended

\* Every behaviour stays within the types of its variables and the limits
\* of the queues and of the output FIFO.
THEOREM TypeCorrect == Spec => []TypeOK
  BY TypeInit, TypeStep, PTL DEF Spec

-----------------------------------------------------------------------------
(* The lifetime of the session and of its worker.                          *)

\* A step keeps the worker, the session and the UI thread in step.
LEMMA LifetimeStep == TypeOK /\ LifetimeInv /\ [Next]_vars => LifetimeInv'
<1>. SUFFICES ASSUME TypeOK, LifetimeInv, [Next]_vars PROVE LifetimeInv'
  OBVIOUS
<1>. USE DEF TypeOK, LifetimeInv, WorkerMatchesUi, ExitMatchesStop, WorkerHasSession,
      ReadyMeansWorker, Alive, WorkerPc, UiPc, statusVars, eventVars, resourceVars,
      workerVars, renderVars, uiVars, sessionVars
<1>1. CASE Render
  <2>1. CASE SetEpoch
    BY <2>1 DEF SetEpoch
  <2>2. CASE SetEpochStore
    BY <2>2 DEF SetEpochStore
  <2>3. CASE SetEpochDiscard
    BY <2>3 DEF SetEpochDiscard, Signalled
  <2>4. CASE ProcessBlock
    BY <2>4 DEF ProcessBlock
  <2>5. CASE ProcessBlockStore
    BY <2>5 DEF ProcessBlockStore
  <2>6. CASE ProcessBlockPush
    BY <2>6 DEF ProcessBlockPush
  <2>7. CASE ProcessBlockPop
    BY <2>7 DEF ProcessBlockPop
  <2>8. CASE ProcessBlockPopped
    BY <2>8 DEF ProcessBlockPopped
  <2>. QED
    BY <1>1, <2>1, <2>2, <2>3, <2>4, <2>5, <2>6, <2>7, <2>8 DEF Render
<1>2. CASE WorkerStep
  <2>1. CASE WarmupReset
    BY <2>1 DEF WarmupReset
  <2>2. CASE PublishReady
    BY <2>2 DEF PublishReady
  <2>3. CASE WorkerExit
    BY <2>3 DEF WorkerExit
  <2>4. CASE FailedWait
    BY <2>4 DEF FailedWait
  <2>5. CASE FailedWake
    BY <2>5 DEF FailedWake
  <2>6. CASE FollowEpoch
    BY <2>6 DEF FollowEpoch, ResetWorkerState
  <2>7. CASE TakeInput
    BY <2>7 DEF TakeInput
  <2>8. CASE IdleWait
    BY <2>8 DEF IdleWait
  <2>9. CASE IdleWake
    BY <2>9 DEF IdleWake
  <2>10. CASE CompareEpoch
    BY <2>10 DEF CompareEpoch, ResetWorkerState
  <2>11. CASE GateRun
    BY <2>11 DEF GateRun
  <2>12. CASE AppendOutput
    BY <2>12 DEF AppendOutput, FifoAfter
  <2>13. CASE DrainFifo
    BY <2>13 DEF DrainFifo
  <2>14. CASE Drained
    BY <2>14 DEF Drained
  <2>. QED
    BY <1>2, <2>1, <2>2, <2>3, <2>4, <2>5, <2>6, <2>7, <2>8, <2>9, <2>10, <2>11,
       <2>12, <2>13, <2>14 DEF WorkerStep
<1>3. CASE NativeReturns
  <2>1. CASE WarmupReturns
    BY <2>1 DEF WarmupReturns, FailWorker
  <2>2. CASE RunReturns
    BY <2>2 DEF RunReturns, FailWorker
  <2>. QED
    BY <1>3, <2>1, <2>2 DEF NativeReturns
<1>4. CASE UiStep
  <2>1. CASE StopUnready
    BY <2>1 DEF StopUnready
  <2>2. CASE StopRequest
    BY <2>2 DEF StopRequest, Joinable
  <2>3. CASE StopSignal
    BY <2>3 DEF StopSignal, Joinable
  <2>4. CASE StopJoin
    BY <2>4 DEF StopJoin
  <2>5. CASE StopAbandon
    BY <2>5 DEF StopAbandon
  <2>6. CASE StopFree
    BY <2>6 DEF StopFree
  <2>7. CASE StopLast
    BY <2>7 DEF StopLast
  <2>8. CASE PrepareReset
    BY <2>8 DEF PrepareReset
  <2>9. CASE PrepareLoadFails
    BY <2>9 DEF PrepareLoadFails
  <2>10. CASE PrepareContractFails
    BY <2>10 DEF PrepareContractFails, CallStop
  <2>11. CASE PrepareCreate
    BY <2>11 DEF PrepareCreate
  <2>12. CASE PrepareStart
    BY <2>12 DEF PrepareStart
  <2>13. CASE PrepareTimeout
    BY <2>13 DEF PrepareTimeout, CallStop
  <2>14. CASE PrepareWarm
    BY <2>14 DEF PrepareWarm, CallStop
  <2>15. CASE PrepareReady
    BY <2>15 DEF PrepareReady
  <2>16. CASE DestroyImpl
    BY <2>16 DEF DestroyImpl
  <2>. QED
    BY <1>4, <2>1, <2>2, <2>3, <2>4, <2>5, <2>6, <2>7, <2>8, <2>9, <2>10, <2>11,
       <2>12, <2>13, <2>14, <2>15, <2>16 DEF UiStep, StopWorker
<1>5. CASE UiCall
  <2>1. CASE Prepare
    BY <2>1 DEF Prepare, CallStop
  <2>2. CASE ReleaseSession
    BY <2>2 DEF ReleaseSession, CallStop
  <2>3. CASE Destroy
    BY <2>3 DEF Destroy, CallStop
  <2>. QED
    BY <1>5, <2>1, <2>2, <2>3 DEF UiCall
<1>6. CASE UNCHANGED vars
  BY <1>6 DEF vars
<1>. QED
  BY <1>1, <1>2, <1>3, <1>4, <1>5, <1>6 DEF Next, Ended

\* At start there is no worker and no session.
LEMMA LifetimeInit == Init => LifetimeInv
  BY DEF Init, LifetimeInv, WorkerMatchesUi, ExitMatchesStop, WorkerHasSession,
     ReadyMeansWorker, Alive

\* The session a worker uses is never taken from under it, on any path
\* through stop, timeout, abandonment, re-prepare and destruction; and
\* between UI calls a ready processor has a session and a live worker.
THEOREM LifetimeCorrect == Spec => [](WorkerHasSession /\ ReadyMeansSession)
<1>1. Init => TypeOK /\ LifetimeInv
  BY TypeInit, LifetimeInit
<1>2. TypeOK /\ LifetimeInv /\ [Next]_vars => (TypeOK /\ LifetimeInv)'
  BY TypeStep, LifetimeStep
<1>3. LifetimeInv => WorkerHasSession /\ ReadyMeansSession
  BY DEF LifetimeInv, WorkerHasSession, ReadyMeansWorker, ReadyMeansSession, Alive, IsReady
<1>. QED
  BY <1>1, <1>2, <1>3, PTL DEF Spec
-----------------------------------------------------------------------------
(* The origin of the audio.                                                *)

\* A push of this session's block leaves a queue of this session's blocks.
LEMMA PushKeepsSession ==
  ASSUME NEW q \in Seq(InputBlock), NEW b \in InputBlock, NEW s, b.session = s,
         \A i \in 1..Len(q) : q[i].session = s
  PROVE  \A i \in 1..Len(Pushed(q, b)) : Pushed(q, b)[i].session = s
  BY DEF Pushed

\* A push of a block that tells its origin leaves a queue of such blocks.
LEMMA PushKeepsOrigin ==
  ASSUME NEW q \in Seq(OutputBlock), NEW b \in OutputBlock, NEW s,
         TellsOrigin(b, s), \A i \in 1..Len(q) : TellsOrigin(q[i], s)
  PROVE  \A i \in 1..Len(Pushed(q, b)) : TellsOrigin(Pushed(q, b)[i], s)
  BY DEF Pushed

\* Less than a block is left in the FIFO between two turns of the loop.
LEMMA RemainderStep ==
  TypeOK /\ LifetimeInv /\ RemainderInv /\ [Next]_vars => RemainderInv'
<1>. SUFFICES ASSUME TypeOK, LifetimeInv, RemainderInv, [Next]_vars PROVE RemainderInv'
  OBVIOUS
<1>. USE SizeAssumption DEF SizeAssumption, TypeOK, RemainderInv, statusVars, eventVars,
      resourceVars, workerVars, renderVars, uiVars, sessionVars
<1>1. CASE Render
  <2>1. CASE SetEpoch
    BY <2>1 DEF SetEpoch
  <2>2. CASE SetEpochStore
    BY <2>2 DEF SetEpochStore
  <2>3. CASE SetEpochDiscard
    BY <2>3 DEF SetEpochDiscard, Signalled
  <2>4. CASE ProcessBlock
    BY <2>4 DEF ProcessBlock
  <2>5. CASE ProcessBlockStore
    BY <2>5 DEF ProcessBlockStore
  <2>6. CASE ProcessBlockPush
    BY <2>6 DEF ProcessBlockPush
  <2>7. CASE ProcessBlockPop
    BY <2>7 DEF ProcessBlockPop
  <2>8. CASE ProcessBlockPopped
    BY <2>8 DEF ProcessBlockPopped
  <2>. QED
    BY <1>1, <2>1, <2>2, <2>3, <2>4, <2>5, <2>6, <2>7, <2>8 DEF Render
<1>2. CASE WorkerStep
  <2>1. CASE WarmupReset
    BY <2>1 DEF WarmupReset
  <2>2. CASE PublishReady
    BY <2>2 DEF PublishReady
  <2>3. CASE WorkerExit
    BY <2>3 DEF WorkerExit
  <2>4. CASE FailedWait
    BY <2>4 DEF FailedWait
  <2>5. CASE FailedWake
    BY <2>5 DEF FailedWake
  <2>6. CASE FollowEpoch
    BY <2>6 DEF FollowEpoch, ResetWorkerState
  <2>7. CASE TakeInput
    BY <2>7 DEF TakeInput
  <2>8. CASE IdleWait
    BY <2>8 DEF IdleWait
  <2>9. CASE IdleWake
    BY <2>9 DEF IdleWake
  <2>10. CASE CompareEpoch
    BY <2>10 DEF CompareEpoch, ResetWorkerState
  <2>11. CASE GateRun
    BY <2>11 DEF GateRun
  <2>12. CASE AppendOutput
    BY <2>12 DEF AppendOutput, FifoAfter
  <2>13. CASE DrainFifo
    BY <2>13 DEF DrainFifo
  <2>14. CASE Drained
    BY <2>14 DEF Drained
  <2>. QED
    BY <1>2, <2>1, <2>2, <2>3, <2>4, <2>5, <2>6, <2>7, <2>8, <2>9, <2>10, <2>11,
       <2>12, <2>13, <2>14 DEF WorkerStep
<1>3. CASE NativeReturns
  <2>1. CASE WarmupReturns
    BY <2>1 DEF WarmupReturns, FailWorker
  <2>2. CASE RunReturns
    BY <2>2 DEF RunReturns, FailWorker
  <2>. QED
    BY <1>3, <2>1, <2>2 DEF NativeReturns
<1>4. CASE UiStep
  <2>1. CASE StopUnready
    BY <2>1 DEF StopUnready
  <2>2. CASE StopRequest
    BY <2>2 DEF StopRequest, Joinable
  <2>3. CASE StopSignal
    BY <2>3 DEF StopSignal, Joinable
  <2>4. CASE StopJoin
    BY <2>4 DEF StopJoin, LifetimeInv, WorkerMatchesUi, ExitMatchesStop, Alive
  <2>5. CASE StopAbandon
    BY <2>5 DEF StopAbandon
  <2>6. CASE StopFree
    BY <2>6 DEF StopFree
  <2>7. CASE StopLast
    BY <2>7 DEF StopLast
  <2>8. CASE PrepareReset
    BY <2>8 DEF PrepareReset
  <2>9. CASE PrepareLoadFails
    BY <2>9 DEF PrepareLoadFails
  <2>10. CASE PrepareContractFails
    BY <2>10 DEF PrepareContractFails, CallStop
  <2>11. CASE PrepareCreate
    BY <2>11 DEF PrepareCreate
  <2>12. CASE PrepareStart
    BY <2>12 DEF PrepareStart, LifetimeInv, WorkerMatchesUi, ExitMatchesStop, Alive
  <2>13. CASE PrepareTimeout
    BY <2>13 DEF PrepareTimeout, CallStop
  <2>14. CASE PrepareWarm
    BY <2>14 DEF PrepareWarm, CallStop
  <2>15. CASE PrepareReady
    BY <2>15 DEF PrepareReady
  <2>16. CASE DestroyImpl
    BY <2>16 DEF DestroyImpl
  <2>. QED
    BY <1>4, <2>1, <2>2, <2>3, <2>4, <2>5, <2>6, <2>7, <2>8, <2>9, <2>10, <2>11,
       <2>12, <2>13, <2>14, <2>15, <2>16 DEF UiStep, StopWorker
<1>5. CASE UiCall
  <2>1. CASE Prepare
    BY <2>1 DEF Prepare, CallStop
  <2>2. CASE ReleaseSession
    BY <2>2 DEF ReleaseSession, CallStop
  <2>3. CASE Destroy
    BY <2>3 DEF Destroy, CallStop
  <2>. QED
    BY <1>5, <2>1, <2>2, <2>3 DEF UiCall
<1>6. CASE UNCHANGED vars
  BY <1>6 DEF vars
<1>. QED
  BY <1>1, <1>2, <1>3, <1>4, <1>5, <1>6 DEF Next, Ended

\* The FIFO never overflows: what a Run() leaves behind and what the next
\* one returns fit, so appendOutput() never drops audio.
THEOREM FifoCorrect == Spec => []FifoNeverOverflows
<1>. DEFINE Inv == TypeOK /\ LifetimeInv /\ RemainderInv
<1>1. Init => Inv
  <2>1. Init => RemainderInv
    BY SizeAssumption DEF Init, RemainderInv, SizeAssumption
  <2>. QED
    BY <2>1, TypeInit, LifetimeInit
<1>2. Inv /\ [Next]_vars => Inv'
  BY TypeStep, LifetimeStep, RemainderStep
<1>3. Inv => FifoNeverOverflows
  BY SizeAssumption DEF TypeOK, RemainderInv, FifoNeverOverflows, SizeAssumption
<1>. QED
  BY <1>1, <1>2, <1>3, PTL DEF Spec

\* A step keeps every sample's origin with it.
LEMMA OriginStep ==
  TypeOK /\ LifetimeInv /\ OriginInv /\ [Next]_vars => OriginInv'
<1>. SUFFICES ASSUME TypeOK, LifetimeInv, OriginInv, [Next]_vars PROVE OriginInv'
  OBVIOUS
<1>. USE SizeAssumption DEF SizeAssumption, TypeOK, WorkerPc, UiPc, RenderPc, OriginInv,
      QueuesTellOrigin, InputInv, StreamInv, NoStaleOutput, Serving, Current, statusVars,
      eventVars, resourceVars, workerVars, renderVars, uiVars, sessionVars
<1>1. CASE Render
  <2>1. CASE SetEpoch
    BY <2>1 DEF SetEpoch
  <2>2. CASE SetEpochStore
    BY <2>2 DEF SetEpochStore
  <2>3. CASE SetEpochDiscard
    BY <2>3 DEF SetEpochDiscard, Signalled
  <2>4. CASE ProcessBlock
    BY <2>4 DEF ProcessBlock
  <2>5. CASE ProcessBlockStore
    BY <2>5 DEF ProcessBlockStore
  <2>6. CASE ProcessBlockPush
    <3>. DEFINE block == [epoch |-> streamEpoch, session |-> session]
    <3>1. block \in InputBlock
      BY DEF InputBlock
    <3>2. \A i \in 1..Len(Pushed(inputQueue, block)) :
            Pushed(inputQueue, block)[i].session = session
      BY <3>1, PushKeepsSession
    <3>3. \A i \in 1..Len(inputQueue') : inputQueue'[i].session = session
      BY <2>6, <3>2 DEF ProcessBlockPush
    <3>. QED
      BY <2>6, <3>3 DEF ProcessBlockPush
  <2>7. CASE ProcessBlockPop
    <3>1. CASE outputQueue = <<>>
      BY <2>7, <3>1 DEF ProcessBlockPop
    <3>2. CASE outputQueue # <<>>
      <4>1. hand' = [block |-> Head(outputQueue), discarded |-> FALSE, rest |-> <<>>]
        BY <2>7, <3>2 DEF ProcessBlockPop
      <4>2. ~popRaced => TellsOrigin(hand'.block, session)
        BY <3>2, <4>1, PoppedType
      <4>. QED
        BY <2>7, <4>1, <4>2 DEF ProcessBlockPop
    <3>. QED
      BY <3>1, <3>2
  <2>8. CASE ProcessBlockPopped
    <3>1. CASE popRaced
      BY <2>8, <3>1 DEF ProcessBlockPopped
    <3>2. CASE ~popRaced
      <4>1. ~hand.discarded
        BY <2>8, <3>2 DEF ProcessBlockPopped
      <4>2. outputQueue' = Tail(outputQueue) /\ outputQueue # <<>>
        BY <2>8, <4>1 DEF ProcessBlockPopped
      <4>3. \A i \in 1..Len(outputQueue') : TellsOrigin(outputQueue'[i], session)
        BY <3>2, <4>2, PoppedType
      <4>4. TellsOrigin(hand.block, session)
        BY <2>8, <3>2 DEF ProcessBlockPopped
      <4>5. output' # Silence => output'.from = {output'.wanted}
        BY <2>8, <3>2, <4>4 DEF ProcessBlockPopped, IsWanted, TellsOrigin
      <4>. QED
        BY <2>8, <4>3, <4>5 DEF ProcessBlockPopped
    <3>. QED
      BY <3>1, <3>2
  <2>. QED
    BY <1>1, <2>1, <2>2, <2>3, <2>4, <2>5, <2>6, <2>7, <2>8 DEF Render
<1>2. CASE WorkerStep
  <2>1. CASE WarmupReset
    BY <2>1 DEF WarmupReset
  <2>2. CASE PublishReady
    BY <2>2 DEF PublishReady
  <2>3. CASE WorkerExit
    BY <2>3 DEF WorkerExit
  <2>4. CASE FailedWait
    BY <2>4 DEF FailedWait
  <2>5. CASE FailedWake
    BY <2>5 DEF FailedWake
  <2>6. CASE FollowEpoch
    BY <2>6 DEF FollowEpoch, ResetWorkerState
  <2>7. CASE TakeInput
    <3>1. \A i \in 1..Len(inputQueue') : inputQueue'[i].session = session
      BY <2>7, PoppedType DEF TakeInput
    <3>2. input'.session = session
      BY <2>7, PoppedType DEF TakeInput
    <3>. QED
      BY <2>7, <3>1, <3>2 DEF TakeInput
  <2>8. CASE IdleWait
    BY <2>8 DEF IdleWait
  <2>9. CASE IdleWake
    BY <2>9 DEF IdleWake
  <2>10. CASE CompareEpoch
    BY <2>10 DEF CompareEpoch, ResetWorkerState
  <2>11. CASE GateRun
    BY <2>11 DEF GateRun
  <2>12. CASE AppendOutput
    <3>1. CASE IsCurrent
      <4>1. fifoFrom' \subseteq {Current}
        BY <2>12, <3>1 DEF AppendOutput
      <4>2. fifoCount' > 0 => fifoFrom' # {}
        <5>1. CASE result = 0
          BY <2>12, <3>1, <5>1 DEF AppendOutput, FifoAfter
        <5>2. CASE result # 0
          BY <2>12, <3>1, <5>2 DEF AppendOutput
        <5>. QED
          BY <5>1, <5>2
      <4>3. context' = context /\ context \subseteq {Current} /\ Current' = Current
        BY <2>12 DEF AppendOutput
      <4>4. ~failed' /\ workerPc' = "drain" /\ uiPc' = uiPc
        BY <2>12, <3>1 DEF AppendOutput
      <4>5. uiPc \notin {"prepareLoad", "prepareStart"}
        BY <2>12 DEF AppendOutput, LifetimeInv, WorkerMatchesUi
      <4>6. StreamInv'
        BY <4>1, <4>2, <4>3, <4>4, <4>5
      <4>. QED
        BY <2>12, <3>1, <4>6 DEF AppendOutput
    <3>2. CASE ~IsCurrent
      BY <2>12, <3>2 DEF AppendOutput
    <3>. QED
      BY <3>1, <3>2
  <2>13. CASE DrainFifo
    <3>. DEFINE block == [epoch |-> workerEpoch, from |-> fifoFrom]
    <3>1. fifoFrom = {Current}
      BY <2>13 DEF DrainFifo
    <3>2. block \in OutputBlock
      BY DEF OutputBlock
    <3>3. TellsOrigin(block, session)
      BY <3>1 DEF TellsOrigin
    <3>4. ~popRaced => \A i \in 1..Len(Pushed(outputQueue, block)) :
                         TellsOrigin(Pushed(outputQueue, block)[i], session)
      BY <3>2, <3>3, PushKeepsOrigin
    <3>5. ~popRaced => \A i \in 1..Len(outputQueue') : TellsOrigin(outputQueue'[i], session)
      BY <2>13, <3>4 DEF DrainFifo
    <3>. QED
      BY <2>13, <3>5 DEF DrainFifo
  <2>14. CASE Drained
    BY <2>14 DEF Drained
  <2>. QED
    BY <1>2, <2>1, <2>2, <2>3, <2>4, <2>5, <2>6, <2>7, <2>8, <2>9, <2>10, <2>11,
       <2>12, <2>13, <2>14 DEF WorkerStep
<1>3. CASE NativeReturns
  <2>1. CASE WarmupReturns
    BY <2>1 DEF WarmupReturns, FailWorker
  <2>2. CASE RunReturns
    <3>1. [session |-> input.session, epoch |-> input.epoch] = Current
      BY <2>2 DEF RunReturns
    <3>2. context' \subseteq {Current} /\ context' # {}
      BY <2>2, <3>1 DEF RunReturns
    <3>. QED
      BY <2>2, <3>2 DEF RunReturns, FailWorker
  <2>. QED
    BY <1>3, <2>1, <2>2 DEF NativeReturns
<1>4. CASE UiStep
  <2>1. CASE StopUnready
    BY <2>1 DEF StopUnready, LifetimeInv, WorkerMatchesUi, ExitMatchesStop, Alive
  <2>2. CASE StopRequest
    BY <2>2 DEF StopRequest, Joinable
  <2>3. CASE StopSignal
    BY <2>3 DEF StopSignal, Joinable
  <2>4. CASE StopJoin
    BY <2>4 DEF StopJoin, LifetimeInv, WorkerMatchesUi, ExitMatchesStop, Alive
  <2>5. CASE StopAbandon
    BY <2>5 DEF StopAbandon
  <2>6. CASE StopFree
    BY <2>6 DEF StopFree
  <2>7. CASE StopLast
    BY <2>7 DEF StopLast, LifetimeInv, WorkerMatchesUi, ExitMatchesStop, Alive
  <2>8. CASE PrepareReset
    <3>1. CASE workerAbandoned
      BY <2>8, <3>1 DEF PrepareReset
    <3>2. CASE ~workerAbandoned
      <4>1. workerPc = "none" /\ workerPc' = "none"
        BY <2>8, <3>2 DEF PrepareReset, LifetimeInv, WorkerMatchesUi
      <4>2. inputQueue' = <<>> /\ outputQueue' = <<>> /\ output' = output
        BY <2>8, <3>2 DEF PrepareReset
      <4>3. renderPc' = renderPc /\ (renderPc = "popped" => popRaced')
        BY <2>8, <3>2 DEF PrepareReset
      <4>4. popRaced => popRaced'
        BY <2>8, <3>2 DEF PrepareReset
      <4>5. QueuesTellOrigin'
        BY <4>2, <4>3
      <4>6. NoStaleOutput'
        BY <4>2, <4>4
      <4>7. StreamInv'
        BY <2>8, <3>2, <4>1 DEF PrepareReset
      <4>. QED
        BY <4>1, <4>5, <4>6, <4>7
    <3>. QED
      BY <3>1, <3>2
  <2>9. CASE PrepareLoadFails
    BY <2>9 DEF PrepareLoadFails, LifetimeInv, WorkerMatchesUi, ExitMatchesStop, Alive
  <2>10. CASE PrepareContractFails
    BY <2>10 DEF PrepareContractFails, CallStop
  <2>11. CASE PrepareCreate
    BY <2>11 DEF PrepareCreate, LifetimeInv, WorkerMatchesUi, ExitMatchesStop, Alive
  <2>12. CASE PrepareStart
    BY <2>12 DEF PrepareStart, LifetimeInv, WorkerMatchesUi, ExitMatchesStop, Alive
  <2>13. CASE PrepareTimeout
    BY <2>13 DEF PrepareTimeout, CallStop
  <2>14. CASE PrepareWarm
    BY <2>14 DEF PrepareWarm, CallStop
  <2>15. CASE PrepareReady
    BY <2>15 DEF PrepareReady
  <2>16. CASE DestroyImpl
    BY <2>16 DEF DestroyImpl
  <2>. QED
    BY <1>4, <2>1, <2>2, <2>3, <2>4, <2>5, <2>6, <2>7, <2>8, <2>9, <2>10, <2>11,
       <2>12, <2>13, <2>14, <2>15, <2>16 DEF UiStep, StopWorker
<1>5. CASE UiCall
  <2>1. CASE Prepare
    BY <2>1 DEF Prepare, CallStop
  <2>2. CASE ReleaseSession
    BY <2>2 DEF ReleaseSession, CallStop
  <2>3. CASE Destroy
    BY <2>3 DEF Destroy, CallStop
  <2>. QED
    BY <1>5, <2>1, <2>2, <2>3 DEF UiCall
<1>6. CASE UNCHANGED vars
  BY <1>6 DEF vars
<1>. QED
  BY <1>1, <1>2, <1>3, <1>4, <1>5, <1>6 DEF Next, Ended

\* At start there is no audio to tell the origin of.
LEMMA OriginInit == Init => OriginInv
  BY DEF Init, OriginInv, QueuesTellOrigin, InputInv, StreamInv, NoStaleOutput, Serving

\* Audio processBlock() returns comes from the epoch and the session it was
\* asked for, and from nothing else.
THEOREM OriginCorrect == Spec => []NoStaleOutput
<1>. DEFINE Inv == TypeOK /\ LifetimeInv /\ OriginInv
<1>1. Init => Inv
  BY TypeInit, LifetimeInit, OriginInit
<1>2. Inv /\ [Next]_vars => Inv'
  BY TypeStep, LifetimeStep, OriginStep
<1>3. Inv => NoStaleOutput
  BY DEF OriginInv
<1>. QED
  BY <1>1, <1>2, <1>3, PTL DEF Spec
-----------------------------------------------------------------------------
(* The epochs, and the wake-up of a stop.                                  *)

\* A push of a block whose epoch is within a limit leaves a queue of such blocks.
LEMMA PushKeepsLimit ==
  ASSUME NEW q \in Seq(InputBlock), NEW b \in InputBlock, NEW limit \in Nat,
         b.epoch <= limit, \A i \in 1..Len(q) : q[i].epoch <= limit
  PROVE  \A i \in 1..Len(Pushed(q, b)) : Pushed(q, b)[i].epoch <= limit
  BY DEF Pushed

\* The epoch of a queued block is a number.
LEMMA EpochIsNat ==
  ASSUME NEW q \in Seq(InputBlock)
  PROVE  \A i \in 1..Len(q) : q[i].epoch \in Nat
<1>1. \A i \in 1..Len(q) : q[i] \in InputBlock
  OBVIOUS
<1>. QED
  BY <1>1 DEF InputBlock

\* A step leaves no tag ahead of the published epoch.
LEMMA EpochStep ==
  TypeOK /\ LifetimeInv /\ EpochInv /\ [Next]_vars => EpochInv'
<1>. SUFFICES ASSUME TypeOK, LifetimeInv, EpochInv, [Next]_vars PROVE EpochInv'
  OBVIOUS
<1>. USE DEF TypeOK, EpochInv, EpochsUpTo, Rewound, FreshTakesNothing, InputBlock, WorkerPc,
      RenderPc, UiPc, statusVars, eventVars, resourceVars, workerVars, renderVars, uiVars,
      sessionVars
<1>1. CASE Render
  <2>1. CASE SetEpoch
    <3>1. /\ streamEpoch' = streamEpoch + 1 /\ renderPc = "idle"
          /\ renderPc' = IF TakesAudio THEN "setEpoch" ELSE "idle"
          /\ UNCHANGED <<requestedEpoch, inputQueue, workerPc, workerEpoch, input, session,
                         ready, uiPc>>
      BY <2>1 DEF SetEpoch
    <3>2. \A i \in 1..Len(inputQueue) : inputQueue[i].epoch \in Nat
      BY EpochIsNat
    <3>3. EpochsUpTo(streamEpoch)'
      BY <3>1, <3>2
    <3>4. ~Rewound' => EpochsUpTo(requestedEpoch)'
      BY <3>1
    <3>5. FreshTakesNothing'
      BY <3>1 DEF TakesAudio
    <3>. QED
      BY <3>1, <3>3, <3>4, <3>5
  <2>2. CASE SetEpochStore
    <3>1. /\ requestedEpoch' = streamEpoch /\ renderPc = "setEpoch" /\ renderPc' = "discard"
          /\ UNCHANGED <<streamEpoch, inputQueue, workerPc, workerEpoch, input, session, ready,
                         uiPc>>
      BY <2>2 DEF SetEpochStore
    <3>2. EpochsUpTo(streamEpoch)' /\ EpochsUpTo(requestedEpoch)'
      BY <3>1
    <3>3. FreshTakesNothing'
      BY <3>1
    <3>. QED
      BY <3>1, <3>2, <3>3
  <2>3. CASE SetEpochDiscard
    BY <2>3 DEF SetEpochDiscard, Signalled
  <2>4. CASE ProcessBlock
    BY <2>4 DEF ProcessBlock, TakesAudio
  <2>5. CASE ProcessBlockStore
    BY <2>5 DEF ProcessBlockStore
  <2>6. CASE ProcessBlockPush
    <3>. DEFINE block == [epoch |-> streamEpoch, session |-> session]
    <3>1. block \in InputBlock /\ block.epoch = streamEpoch
      OBVIOUS
    <3>2. \A limit \in Nat :
            streamEpoch <= limit /\ (\A i \in 1..Len(inputQueue) : inputQueue[i].epoch <= limit)
            => \A i \in 1..Len(inputQueue') : inputQueue'[i].epoch <= limit
      BY <2>6, <3>1, PushKeepsLimit DEF ProcessBlockPush
    <3>. QED
      BY <2>6, <3>2 DEF ProcessBlockPush
  <2>7. CASE ProcessBlockPop
    BY <2>7 DEF ProcessBlockPop
  <2>8. CASE ProcessBlockPopped
    BY <2>8 DEF ProcessBlockPopped
  <2>. QED
    BY <1>1, <2>1, <2>2, <2>3, <2>4, <2>5, <2>6, <2>7, <2>8 DEF Render
<1>2. CASE WorkerStep
  <2>1. CASE WarmupReset
    BY <2>1 DEF WarmupReset
  <2>2. CASE PublishReady
    BY <2>2 DEF PublishReady
  <2>3. CASE WorkerExit
    BY <2>3 DEF WorkerExit
  <2>4. CASE FailedWait
    BY <2>4 DEF FailedWait
  <2>5. CASE FailedWake
    BY <2>5 DEF FailedWake
  <2>6. CASE FollowEpoch
    BY <2>6 DEF FollowEpoch, ResetWorkerState
  <2>7. CASE TakeInput
    <3>0. /\ inputQueue \in Seq(InputBlock) /\ inputQueue # <<>>
          /\ input' = inputQueue[1] /\ inputQueue' = Tail(inputQueue)
          /\ 1 \in 1..Len(inputQueue)
          /\ \A i \in 1..Len(Tail(inputQueue)) :
               i + 1 \in 1..Len(inputQueue) /\ Tail(inputQueue)[i] = inputQueue[i + 1]
      BY <2>7, PoppedType DEF TakeInput
    <3>1. \A limit \in Nat :
            (\A i \in 1..Len(inputQueue) : inputQueue[i].epoch <= limit)
            => /\ \A i \in 1..Len(inputQueue') : inputQueue'[i].epoch <= limit
               /\ input'.epoch <= limit
      BY <3>0
    <3>. QED
      BY <2>7, <3>1 DEF TakeInput
  <2>8. CASE IdleWait
    BY <2>8 DEF IdleWait
  <2>9. CASE IdleWake
    BY <2>9 DEF IdleWake
  <2>10. CASE CompareEpoch
    BY <2>10 DEF CompareEpoch, ResetWorkerState
  <2>11. CASE GateRun
    BY <2>11 DEF GateRun
  <2>12. CASE AppendOutput
    BY <2>12 DEF AppendOutput, FifoAfter
  <2>13. CASE DrainFifo
    BY <2>13 DEF DrainFifo
  <2>14. CASE Drained
    BY <2>14 DEF Drained
  <2>. QED
    BY <1>2, <2>1, <2>2, <2>3, <2>4, <2>5, <2>6, <2>7, <2>8, <2>9, <2>10, <2>11,
       <2>12, <2>13, <2>14 DEF WorkerStep
<1>3. CASE NativeReturns
  <2>1. CASE WarmupReturns
    BY <2>1 DEF WarmupReturns, FailWorker
  <2>2. CASE RunReturns
    BY <2>2 DEF RunReturns, FailWorker
  <2>. QED
    BY <1>3, <2>1, <2>2 DEF NativeReturns
<1>4. CASE UiStep
  <2>1. CASE StopUnready
    BY <2>1 DEF StopUnready
  <2>2. CASE StopRequest
    BY <2>2 DEF StopRequest, Joinable
  <2>3. CASE StopSignal
    BY <2>3 DEF StopSignal, Joinable
  <2>4. CASE StopJoin
    BY <2>4 DEF StopJoin, LifetimeInv, WorkerMatchesUi, ExitMatchesStop, Alive
  <2>5. CASE StopAbandon
    BY <2>5 DEF StopAbandon
  <2>6. CASE StopFree
    BY <2>6 DEF StopFree
  <2>7. CASE StopLast
    BY <2>7 DEF StopLast
  <2>8. CASE PrepareReset
    <3>1. CASE workerAbandoned
      BY <2>8, <3>1 DEF PrepareReset
    <3>2. CASE ~workerAbandoned
      <4>1. /\ workerPc = "none" /\ workerPc' = "none" /\ inputQueue' = <<>>
            /\ session' = session + 1 /\ uiPc' = "prepareLoad" /\ ready' = FALSE
            /\ UNCHANGED <<requestedEpoch, streamEpoch, workerEpoch, renderPc>>
        BY <2>8, <3>2 DEF PrepareReset, LifetimeInv, WorkerMatchesUi
      <4>2. \A limit \in Nat : \A i \in 1..Len(inputQueue') : inputQueue'[i].epoch <= limit
        BY <4>1
      <4>3. ~Rewound' => ~Rewound
        BY <4>1
      <4>4. renderPc = "push" => requestedEpoch = streamEpoch \/ Rewound'
        BY <4>1
      <4>5. session' > 0 /\ (session' = 1 => session = 0)
        BY <4>1
      <4>6. FreshTakesNothing'
        BY <4>1, <4>5
      <4>. QED
        BY <4>1, <4>2, <4>3, <4>4, <4>6
    <3>. QED
      BY <3>1, <3>2
  <2>9. CASE PrepareLoadFails
    BY <2>9 DEF PrepareLoadFails
  <2>10. CASE PrepareContractFails
    BY <2>10 DEF PrepareContractFails, CallStop
  <2>11. CASE PrepareCreate
    BY <2>11 DEF PrepareCreate
  <2>12. CASE PrepareStart
    BY <2>12 DEF PrepareStart, LifetimeInv, WorkerMatchesUi, ExitMatchesStop, Alive
  <2>13. CASE PrepareTimeout
    BY <2>13 DEF PrepareTimeout, CallStop
  <2>14. CASE PrepareWarm
    BY <2>14 DEF PrepareWarm, CallStop
  <2>15. CASE PrepareReady
    BY <2>15 DEF PrepareReady
  <2>16. CASE DestroyImpl
    BY <2>16 DEF DestroyImpl
  <2>. QED
    BY <1>4, <2>1, <2>2, <2>3, <2>4, <2>5, <2>6, <2>7, <2>8, <2>9, <2>10, <2>11,
       <2>12, <2>13, <2>14, <2>15, <2>16 DEF UiStep, StopWorker
<1>5. CASE UiCall
  <2>1. CASE Prepare
    BY <2>1 DEF Prepare, CallStop
  <2>2. CASE ReleaseSession
    BY <2>2 DEF ReleaseSession, CallStop
  <2>3. CASE Destroy
    BY <2>3 DEF Destroy, CallStop
  <2>. QED
    BY <1>5, <2>1, <2>2, <2>3 DEF UiCall
<1>6. CASE UNCHANGED vars
  BY <1>6 DEF vars
<1>. QED
  BY <1>1, <1>2, <1>3, <1>4, <1>5, <1>6 DEF Next, Ended

\* A step keeps the promise that a stop is heard.
LEMMA StopHeardStep ==
  TypeOK /\ LifetimeInv /\ StopHeard /\ [Next]_vars => StopHeard'
<1>. SUFFICES ASSUME TypeOK, LifetimeInv, StopHeard, [Next]_vars PROVE StopHeard'
  OBVIOUS
<1>. USE DEF TypeOK, LifetimeInv, WorkerMatchesUi, ExitMatchesStop, WorkerHasSession, Alive,
      StopHeard, Signalled, WorkerPc, UiPc, statusVars, eventVars, resourceVars,
      workerVars, renderVars, uiVars, sessionVars
<1>1. CASE Render
  <2>1. CASE SetEpoch
    BY <2>1 DEF SetEpoch
  <2>2. CASE SetEpochStore
    BY <2>2 DEF SetEpochStore
  <2>3. CASE SetEpochDiscard
    BY <2>3 DEF SetEpochDiscard, Signalled
  <2>4. CASE ProcessBlock
    BY <2>4 DEF ProcessBlock
  <2>5. CASE ProcessBlockStore
    BY <2>5 DEF ProcessBlockStore
  <2>6. CASE ProcessBlockPush
    BY <2>6 DEF ProcessBlockPush
  <2>7. CASE ProcessBlockPop
    BY <2>7 DEF ProcessBlockPop
  <2>8. CASE ProcessBlockPopped
    BY <2>8 DEF ProcessBlockPopped
  <2>. QED
    BY <1>1, <2>1, <2>2, <2>3, <2>4, <2>5, <2>6, <2>7, <2>8 DEF Render
<1>2. CASE WorkerStep
  <2>1. CASE WarmupReset
    BY <2>1 DEF WarmupReset
  <2>2. CASE PublishReady
    BY <2>2 DEF PublishReady
  <2>3. CASE WorkerExit
    BY <2>3 DEF WorkerExit
  <2>4. CASE FailedWait
    BY <2>4 DEF FailedWait
  <2>5. CASE FailedWake
    BY <2>5 DEF FailedWake
  <2>6. CASE FollowEpoch
    BY <2>6 DEF FollowEpoch, ResetWorkerState
  <2>7. CASE TakeInput
    BY <2>7 DEF TakeInput
  <2>8. CASE IdleWait
    BY <2>8 DEF IdleWait
  <2>9. CASE IdleWake
    BY <2>9 DEF IdleWake
  <2>10. CASE CompareEpoch
    BY <2>10 DEF CompareEpoch, ResetWorkerState
  <2>11. CASE GateRun
    BY <2>11 DEF GateRun
  <2>12. CASE AppendOutput
    BY <2>12 DEF AppendOutput, FifoAfter
  <2>13. CASE DrainFifo
    BY <2>13 DEF DrainFifo
  <2>14. CASE Drained
    BY <2>14 DEF Drained
  <2>. QED
    BY <1>2, <2>1, <2>2, <2>3, <2>4, <2>5, <2>6, <2>7, <2>8, <2>9, <2>10, <2>11,
       <2>12, <2>13, <2>14 DEF WorkerStep
<1>3. CASE NativeReturns
  <2>1. CASE WarmupReturns
    BY <2>1 DEF WarmupReturns, FailWorker
  <2>2. CASE RunReturns
    BY <2>2 DEF RunReturns, FailWorker
  <2>. QED
    BY <1>3, <2>1, <2>2 DEF NativeReturns
<1>4. CASE UiStep
  <2>1. CASE StopUnready
    BY <2>1 DEF StopUnready
  <2>2. CASE StopRequest
    BY <2>2 DEF StopRequest, Joinable
  <2>3. CASE StopSignal
    BY <2>3 DEF StopSignal, Joinable
  <2>4. CASE StopJoin
    BY <2>4 DEF StopJoin
  <2>5. CASE StopAbandon
    BY <2>5 DEF StopAbandon
  <2>6. CASE StopFree
    BY <2>6 DEF StopFree
  <2>7. CASE StopLast
    BY <2>7 DEF StopLast
  <2>8. CASE PrepareReset
    BY <2>8 DEF PrepareReset
  <2>9. CASE PrepareLoadFails
    BY <2>9 DEF PrepareLoadFails
  <2>10. CASE PrepareContractFails
    BY <2>10 DEF PrepareContractFails, CallStop
  <2>11. CASE PrepareCreate
    BY <2>11 DEF PrepareCreate
  <2>12. CASE PrepareStart
    BY <2>12 DEF PrepareStart
  <2>13. CASE PrepareTimeout
    BY <2>13 DEF PrepareTimeout, CallStop
  <2>14. CASE PrepareWarm
    BY <2>14 DEF PrepareWarm, CallStop
  <2>15. CASE PrepareReady
    BY <2>15 DEF PrepareReady
  <2>16. CASE DestroyImpl
    BY <2>16 DEF DestroyImpl
  <2>. QED
    BY <1>4, <2>1, <2>2, <2>3, <2>4, <2>5, <2>6, <2>7, <2>8, <2>9, <2>10, <2>11,
       <2>12, <2>13, <2>14, <2>15, <2>16 DEF UiStep, StopWorker
<1>5. CASE UiCall
  <2>1. CASE Prepare
    BY <2>1 DEF Prepare, CallStop
  <2>2. CASE ReleaseSession
    BY <2>2 DEF ReleaseSession, CallStop
  <2>3. CASE Destroy
    BY <2>3 DEF Destroy, CallStop
  <2>. QED
    BY <1>5, <2>1, <2>2, <2>3 DEF UiCall
<1>6. CASE UNCHANGED vars
  BY <1>6 DEF vars
<1>. QED
  BY <1>1, <1>2, <1>3, <1>4, <1>5, <1>6 DEF Next, Ended

\* The worker throws an input block away only for a later epoch, or when a second prepare()
\* has set the requested epoch back.
THEOREM DropCorrect == Spec => DropOnlySuperseded
<1>. DEFINE Inv == TypeOK /\ LifetimeInv /\ EpochInv
            Dropped == (workerPc = "compare" \/ workerPc = "gate") /\ workerPc' = "loop"
            Superseded == requestedEpoch > input.epoch \/ (session > 1 /\ requestedEpoch = 1)
<1>1. Init => Inv
  <2>1. Init => EpochInv
    BY DEF Init, EpochInv, EpochsUpTo, Rewound, FreshTakesNothing
  <2>. QED
    BY <2>1, TypeInit, LifetimeInit
<1>2. Inv /\ [Next]_vars => Inv'
  BY TypeStep, LifetimeStep, EpochStep
<1>3. Inv /\ [Next]_vars => [Dropped => Superseded]_vars
  <2>. SUFFICES ASSUME Inv, [Next]_vars, Dropped PROVE Superseded
    OBVIOUS
  <2>1. CompareEpoch \/ GateRun
    <3>1. ~UNCHANGED workerPc /\ workerPc \in {"compare", "gate"}
      OBVIOUS
    <3>2. ~UiCall /\ ~Ended /\ ~Render /\ ~UNCHANGED vars
      BY <3>1 DEF UiCall, Prepare, ReleaseSession, Destroy, Ended, Render, SetEpoch, SetEpochStore,
         SetEpochDiscard, ProcessBlock, ProcessBlockStore, ProcessBlockPush, ProcessBlockPop,
         ProcessBlockPopped, vars, workerVars
    <3>3. ~NativeReturns
      BY DEF NativeReturns, WarmupReturns, RunReturns
    <3>4. ~UiStep
      BY <3>1 DEF UiStep, StopWorker, StopUnready, StopRequest, StopSignal, StopJoin, StopAbandon,
         StopFree, StopLast, PrepareReset, PrepareLoadFails, PrepareContractFails, PrepareCreate,
         PrepareStart, PrepareTimeout, PrepareWarm, PrepareReady, DestroyImpl, workerVars
    <3>5. WorkerStep
      BY <3>2, <3>3, <3>4 DEF Next
    <3>. QED
      BY <3>1, <3>5 DEF WorkerStep, WarmupReset, PublishReady, WorkerExit, FailedWait, FailedWake,
         FollowEpoch, TakeInput, IdleWait, IdleWake, AppendOutput, DrainFifo, Drained
  <2>2. /\ requestedEpoch \in Nat /\ workerEpoch \in Nat /\ input.epoch \in Nat
        /\ session \in Nat
    BY DEF TypeOK, InputBlock
  <2>3. CASE Rewound
    BY <2>3 DEF Rewound
  <2>4. CASE ~Rewound
    <3>1. input.epoch <= requestedEpoch /\ workerEpoch <= requestedEpoch
      BY <2>4 DEF EpochInv, EpochsUpTo
    <3>2. CASE CompareEpoch
      BY <2>2, <3>1, <3>2 DEF CompareEpoch
    <3>3. CASE GateRun
      BY <2>2, <3>1, <3>3 DEF GateRun, IsCurrent, EpochInv
    <3>. QED
      BY <2>1, <3>2, <3>3
  <2>. QED
    BY <2>3, <2>4
<1>. QED
  BY <1>1, <1>2, <1>3, PTL DEF Spec, DropOnlySuperseded

\* A worker that was asked to stop never sleeps without a wake-up on its way: whatever it was
\* doing when it failed, the one signal of the stop is not consumed before it waits.
THEOREM StopHeardCorrect == Spec => []StopHeard
<1>. DEFINE Inv == TypeOK /\ LifetimeInv /\ StopHeard
<1>1. Init => Inv
  <2>1. Init => StopHeard
    BY DEF Init, StopHeard
  <2>. QED
    BY <2>1, TypeInit, LifetimeInit
<1>2. Inv /\ [Next]_vars => Inv'
  BY TypeStep, LifetimeStep, StopHeardStep
<1>. QED
  BY <1>1, <1>2, PTL DEF Spec

-----------------------------------------------------------------------------
(* The session the pipeline takes the processor for.                       *)

\* What the places of the UI's calls say about session, events and worker is kept by every step.
LEMMA CallStep == TypeOK /\ LifetimeInv /\ CallInv /\ [Next]_vars => CallInv'
<1>. SUFFICES ASSUME TypeOK, LifetimeInv, CallInv, [Next]_vars PROVE CallInv'
  OBVIOUS
<1>. USE DEF TypeOK, CallInv, Warming, LifetimeInv, WorkerMatchesUi, ExitMatchesStop,
      WorkerHasSession, ReadyMeansWorker, Alive, WorkerPc, UiPc, statusVars, eventVars, resourceVars,
      workerVars, renderVars, uiVars, sessionVars
<1>1. CASE Render
  <2>1. CASE SetEpoch
    BY <2>1 DEF SetEpoch
  <2>2. CASE SetEpochStore
    BY <2>2 DEF SetEpochStore
  <2>3. CASE SetEpochDiscard
    BY <2>3 DEF SetEpochDiscard, Signalled
  <2>4. CASE ProcessBlock
    BY <2>4 DEF ProcessBlock
  <2>5. CASE ProcessBlockStore
    BY <2>5 DEF ProcessBlockStore
  <2>6. CASE ProcessBlockPush
    BY <2>6 DEF ProcessBlockPush
  <2>7. CASE ProcessBlockPop
    BY <2>7 DEF ProcessBlockPop
  <2>8. CASE ProcessBlockPopped
    BY <2>8 DEF ProcessBlockPopped
  <2>. QED
    BY <1>1, <2>1, <2>2, <2>3, <2>4, <2>5, <2>6, <2>7, <2>8 DEF Render
<1>2. CASE WorkerStep
  <2>1. CASE WarmupReset
    BY <2>1 DEF WarmupReset
  <2>2. CASE PublishReady
    BY <2>2 DEF PublishReady
  <2>3. CASE WorkerExit
    BY <2>3 DEF WorkerExit
  <2>4. CASE FailedWait
    BY <2>4 DEF FailedWait
  <2>5. CASE FailedWake
    BY <2>5 DEF FailedWake
  <2>6. CASE FollowEpoch
    BY <2>6 DEF FollowEpoch, ResetWorkerState
  <2>7. CASE TakeInput
    BY <2>7 DEF TakeInput
  <2>8. CASE IdleWait
    BY <2>8 DEF IdleWait
  <2>9. CASE IdleWake
    BY <2>9 DEF IdleWake
  <2>10. CASE CompareEpoch
    BY <2>10 DEF CompareEpoch, ResetWorkerState
  <2>11. CASE GateRun
    BY <2>11 DEF GateRun
  <2>12. CASE AppendOutput
    BY <2>12 DEF AppendOutput, FifoAfter
  <2>13. CASE DrainFifo
    BY <2>13 DEF DrainFifo
  <2>14. CASE Drained
    BY <2>14 DEF Drained
  <2>. QED
    BY <1>2, <2>1, <2>2, <2>3, <2>4, <2>5, <2>6, <2>7, <2>8, <2>9, <2>10, <2>11,
       <2>12, <2>13, <2>14 DEF WorkerStep
<1>3. CASE NativeReturns
  <2>1. CASE WarmupReturns
    BY <2>1 DEF WarmupReturns, FailWorker
  <2>2. CASE RunReturns
    BY <2>2 DEF RunReturns, FailWorker
  <2>. QED
    BY <1>3, <2>1, <2>2 DEF NativeReturns
<1>4. CASE UiStep
  <2>1. CASE StopUnready
    BY <2>1 DEF StopUnready
  <2>2. CASE StopRequest
    BY <2>2 DEF StopRequest, Joinable
  <2>3. CASE StopSignal
    BY <2>3 DEF StopSignal, Joinable
  <2>4. CASE StopJoin
    BY <2>4 DEF StopJoin
  <2>5. CASE StopAbandon
    BY <2>5 DEF StopAbandon
  <2>6. CASE StopFree
    BY <2>6 DEF StopFree
  <2>7. CASE StopLast
    BY <2>7 DEF StopLast
  <2>8. CASE PrepareReset
    BY <2>8 DEF PrepareReset
  <2>9. CASE PrepareLoadFails
    BY <2>9 DEF PrepareLoadFails
  <2>10. CASE PrepareContractFails
    BY <2>10 DEF PrepareContractFails, CallStop
  <2>11. CASE PrepareCreate
    BY <2>11 DEF PrepareCreate
  <2>12. CASE PrepareStart
    BY <2>12 DEF PrepareStart
  <2>13. CASE PrepareTimeout
    BY <2>13 DEF PrepareTimeout, CallStop
  <2>14. CASE PrepareWarm
    BY <2>14 DEF PrepareWarm, CallStop
  <2>15. CASE PrepareReady
    BY <2>15 DEF PrepareReady
  <2>16. CASE DestroyImpl
    BY <2>16 DEF DestroyImpl
  <2>. QED
    BY <1>4, <2>1, <2>2, <2>3, <2>4, <2>5, <2>6, <2>7, <2>8, <2>9, <2>10, <2>11,
       <2>12, <2>13, <2>14, <2>15, <2>16 DEF UiStep, StopWorker
<1>5. CASE UiCall
  <2>1. CASE Prepare
    BY <2>1 DEF Prepare, CallStop
  <2>2. CASE ReleaseSession
    BY <2>2 DEF ReleaseSession, CallStop
  <2>3. CASE Destroy
    BY <2>3 DEF Destroy, CallStop
  <2>. QED
    BY <1>5, <2>1, <2>2, <2>3 DEF UiCall
<1>6. CASE UNCHANGED vars
  BY <1>6 DEF vars
<1>. QED
  BY <1>1, <1>2, <1>3, <1>4, <1>5, <1>6 DEF Next, Ended

\* A step that leaves the flags, the session and the place of the UI thread alone is none of the
\* session's.
LEMMA SessionStutters ==
  ASSUME UNCHANGED <<ready, failed, workerAbandoned, denoiser, uiPc, afterStop>>
  PROVE  UNCHANGED <<Status, denoiser, Call>>
  BY DEF Status, Call, IsReady

\* The first failure of a worker is the session's; a later one tells nothing new.
LEMMA FailIsFail ==
  ASSUME denoiser, FailWorker, UNCHANGED <<workerAbandoned, denoiser, uiPc, afterStop>>
  PROVE  [Contract!Fails /\ UNCHANGED Call]_<<Status, denoiser, Call>>
<1>1. UNCHANGED Call
  BY DEF Call
<1>2. CASE failed \/ workerAbandoned
  BY <1>1, <1>2 DEF FailWorker, Status
<1>3. CASE ~failed /\ ~workerAbandoned
  BY <1>1, <1>3 DEF FailWorker, Status, IsReady, Contract!Fails
<1>. QED
  BY <1>2, <1>3

\* Every step of the three threads is a step of the session, or changes nothing of it.
LEMMA SessionStep ==
  TypeOK /\ LifetimeInv /\ CallInv /\ [Next]_vars
    => [Contract!Next]_<<Status, denoiser, Call>>
<1>. SUFFICES ASSUME TypeOK, LifetimeInv, CallInv, [Next]_vars
              PROVE  [Contract!Next]_<<Status, denoiser, Call>>
  OBVIOUS
<1>. USE DEF statusVars, eventVars, resourceVars, workerVars, renderVars, uiVars, sessionVars
<1>1. CASE Render
  BY <1>1, SessionStutters
     DEF Render, SetEpoch, SetEpochStore, SetEpochDiscard, ProcessBlock, ProcessBlockStore,
         ProcessBlockPush, ProcessBlockPop, ProcessBlockPopped
<1>2. CASE WorkerStep
  <2>1. CASE PublishReady
    <3>1. UNCHANGED Call
      BY <2>1 DEF PublishReady, Call
    <3>2. CASE failed \/ workerAbandoned \/ ready
      BY <2>1, <3>1, <3>2 DEF PublishReady, Status, IsReady
    <3>3. CASE ~failed /\ ~workerAbandoned /\ ~ready
      <4>1. Status = "none" /\ Status' = "ready"
        BY <2>1, <3>3 DEF PublishReady, Status, IsReady
      <4>2. Call \in {"warming", "stopping"}
        BY <2>1, <3>3 DEF PublishReady, CallInv, Warming, Call
      <4>3. denoiser /\ UNCHANGED denoiser
        BY <2>1 DEF PublishReady, LifetimeInv, WorkerHasSession
      <4>. QED
        BY <3>1, <4>1, <4>2, <4>3 DEF Contract!Next, Contract!Publishes
    <3>. QED
      BY <3>2, <3>3
  <2>2. CASE ~PublishReady
    BY <1>2, <2>2, SessionStutters
       DEF WorkerStep, WarmupReset, WorkerExit, FailedWait, FailedWake, FollowEpoch, TakeInput,
           IdleWait, IdleWake, CompareEpoch, GateRun, AppendOutput, DrainFifo, Drained
  <2>. QED
    BY <2>1, <2>2
<1>3. CASE NativeReturns
  <2>1. denoiser /\ UNCHANGED <<workerAbandoned, denoiser, uiPc, afterStop>>
    BY <1>3 DEF NativeReturns, WarmupReturns, RunReturns, LifetimeInv, WorkerHasSession
  <2>2. CASE FailWorker
    BY <2>1, <2>2, FailIsFail DEF Contract!Next
  <2>3. CASE UNCHANGED <<ready, failed>>
    BY <2>1, <2>3, SessionStutters
  <2>. QED
    BY <1>3, <2>2, <2>3 DEF NativeReturns, WarmupReturns, RunReturns
<1>4. CASE UiStep
  <2>1. CASE StopUnready
    <3>1. uiPc = "stop" /\ UNCHANGED <<failed, workerAbandoned, denoiser, afterStop>>
      BY <2>1 DEF StopUnready
    <3>2. Call \in {"replacing", "stopping"}
      BY <3>1 DEF Call
    <3>3. CASE workerAbandoned
      <4>1. Status = "abandoned" /\ UNCHANGED Status
        BY <3>1, <3>3 DEF Status
      <4>2. Call' = "none"
        BY <2>1, <3>1, <3>3 DEF StopUnready, Call, TypeOK
      <4>. QED
        BY <3>1, <3>2, <4>1, <4>2
           DEF Contract!Next, Contract!Step, Contract!Refuses, Contract!Stopped, Contract!isReady
    <3>4. CASE ~workerAbandoned
      <4>1. UNCHANGED Call
        BY <2>1, <3>1, <3>4 DEF StopUnready, Call
      <4>2. UNCHANGED Status \/ (Status = "ready" /\ Status' = "none")
        BY <2>1, <3>1, <3>4 DEF StopUnready, Status, IsReady
      <4>. QED
        BY <3>1, <3>2, <4>1, <4>2
           DEF Contract!Next, Contract!Step, Contract!Withdraws, Contract!isReady
    <3>. QED
      BY <3>3, <3>4
  <2>2. CASE StopRequest \/ StopSignal \/ StopJoin
    <3>1. /\ uiPc \in {"stopRequest", "stopSignal", "stopWait"}
          /\ uiPc' \in {"stopSignal", "stopWait", "stopFree"}
          /\ UNCHANGED <<ready, failed, workerAbandoned, denoiser, afterStop>>
      BY <2>2 DEF StopRequest, StopSignal, StopJoin
    <3>. QED
      BY <3>1 DEF Status, Call, IsReady
  <2>3. CASE StopAbandon
    <3>1. /\ uiPc = "stopWait" /\ uiPc' = afterStop /\ ~workerAbandoned /\ workerAbandoned'
          /\ UNCHANGED <<denoiser, afterStop>>
      BY <2>3 DEF StopAbandon, LifetimeInv, WorkerMatchesUi
    <3>2. denoiser
      BY <2>3, <3>1 DEF StopAbandon, CallInv, LifetimeInv, WorkerHasSession
    <3>3. Call \in {"replacing", "stopping"} /\ Call' = "none"
      BY <3>1 DEF Call, TypeOK
    <3>4. Status # "abandoned" /\ Status' = "abandoned"
      BY <3>1 DEF Status
    <3>. QED
      BY <3>1, <3>2, <3>3, <3>4 DEF Contract!Next, Contract!Step, Contract!Abandons
  <2>4. CASE StopFree
    <3>1. /\ uiPc = "stopFree" /\ uiPc' = "stopLast" /\ ~workerAbandoned /\ denoiser' = FALSE
          /\ UNCHANGED <<ready, failed, workerAbandoned, afterStop>>
      BY <2>4 DEF StopFree, LifetimeInv, WorkerMatchesUi
    <3>2. Call \in {"replacing", "stopping"} /\ UNCHANGED <<Status, Call>>
      BY <3>1 DEF Call, Status, IsReady
    <3>3. Status # "abandoned"
      BY <3>1 DEF Status
    <3>4. CASE denoiser
      BY <3>1, <3>2, <3>3, <3>4 DEF Contract!Next, Contract!Step, Contract!Frees
    <3>5. CASE ~denoiser
      <4>1. denoiser = FALSE
        BY <3>5 DEF TypeOK
      <4>. QED
        BY <3>1, <3>2, <4>1
    <3>. QED
      BY <3>4, <3>5
  <2>5. CASE StopLast
    <3>1. /\ uiPc = "stopLast" /\ uiPc' = afterStop /\ ~workerAbandoned /\ ~denoiser
          /\ UNCHANGED <<failed, workerAbandoned, denoiser, afterStop>>
      BY <2>5 DEF StopLast, LifetimeInv, WorkerMatchesUi, CallInv
    <3>2. Status' = IF Status = "ready" THEN "none" ELSE Status
      BY <2>5, <3>1 DEF StopLast, Status, IsReady
    <3>3. CASE afterStop = "prepareReset"
      <4>1. Call = "replacing" /\ Call' = "replacing"
        BY <3>1, <3>3 DEF Call
      <4>. QED
        BY <3>1, <3>2, <4>1 DEF Contract!Next, Contract!Step, Contract!Withdraws, Contract!isReady
    <3>4. CASE afterStop # "prepareReset"
      <4>1. Call = "stopping" /\ Call' = "none"
        BY <3>1, <3>4 DEF Call, TypeOK
      <4>. QED
        BY <3>1, <3>2, <4>1 DEF Contract!Next, Contract!Step, Contract!Stopped, Contract!isReady
    <3>. QED
      BY <3>3, <3>4
  <2>6. CASE PrepareReset
    <3>1. uiPc = "prepareReset" /\ UNCHANGED <<workerAbandoned, denoiser, afterStop>>
      BY <2>6 DEF PrepareReset
    <3>2. CASE workerAbandoned
      BY <2>6, <3>1, <3>2 DEF PrepareReset, Status, Call
    <3>3. CASE ~workerAbandoned
      <4>1. Call = "replacing" /\ Call' = "loading" /\ ~denoiser
        BY <2>6, <3>1, <3>3 DEF PrepareReset, Call, CallInv
      <4>2. Status # "abandoned" /\ Status' = "none"
        BY <2>6, <3>1, <3>3 DEF PrepareReset, Status, IsReady
      <4>. QED
        BY <3>1, <4>1, <4>2 DEF Contract!Next, Contract!Step, Contract!Clears
    <3>. QED
      BY <3>2, <3>3
  <2>7. CASE PrepareLoadFails
    <3>1. Call = "loading" /\ Call' = "none" /\ UNCHANGED <<Status, denoiser>>
      BY <2>7 DEF PrepareLoadFails, Call, Status, IsReady
    <3>. QED
      BY <3>1 DEF Contract!Next, Contract!Step, Contract!Refuses
  <2>8. CASE PrepareContractFails \/ PrepareCreate
    <3>1. Call = "loading" /\ Call' \in {"warming", "stopping"} /\ denoiser' = TRUE
      BY <2>8 DEF PrepareContractFails, PrepareCreate, CallStop, Call
    <3>2. UNCHANGED Status
      BY <2>8 DEF PrepareContractFails, PrepareCreate, Status, IsReady
    <3>. QED
      BY <3>1, <3>2 DEF Contract!Next, Contract!Step, Contract!Loads
  <2>9. CASE PrepareStart
    BY <2>9 DEF PrepareStart, Status, Call, IsReady
  <2>10. CASE PrepareTimeout \/ (PrepareWarm /\ failed)
    <3>1. Call = "warming" /\ Call' = "stopping" /\ UNCHANGED <<Status, denoiser>>
      BY <2>10 DEF PrepareTimeout, PrepareWarm, CallStop, Call, Status, IsReady
    <3>. QED
      BY <3>1 DEF Contract!Next, Contract!Step, Contract!Undoes
  <2>11. CASE PrepareWarm /\ ~failed
    <3>1. Call = "warming" /\ Call' = "none" /\ UNCHANGED <<Status, denoiser>>
      BY <2>11 DEF PrepareWarm, Call, Status, IsReady
    <3>2. Status = "ready"
      BY <2>11 DEF PrepareWarm, CallInv, LifetimeInv, WorkerMatchesUi, Status, IsReady
    <3>. QED
      BY <3>1, <3>2 DEF Contract!Next, Contract!Step, Contract!Succeeds, Contract!isReady
  <2>12. CASE PrepareReady
    <3>1. ready \/ failed
      BY <2>12 DEF PrepareReady, CallInv
    <3>. QED
      BY <2>12, <3>1 DEF PrepareReady, Status, Call, IsReady
  <2>13. CASE DestroyImpl
    BY <2>13 DEF DestroyImpl, Status, Call, IsReady
  <2>. QED
    BY <1>4, <2>1, <2>2, <2>3, <2>4, <2>5, <2>6, <2>7, <2>8, <2>9, <2>10, <2>11, <2>12, <2>13
       DEF UiStep, StopWorker
<1>5. CASE UiCall
  <2>1. Call = "none" /\ UNCHANGED <<Status, denoiser>>
    BY <1>5 DEF UiCall, Prepare, ReleaseSession, Destroy, CallStop, Call, Status, IsReady
  <2>2. /\ Call' \in {"replacing", "stopping"}
        /\ Call' = "replacing" => Status # "ready"
    BY <1>5 DEF UiCall, Prepare, ReleaseSession, Destroy, CallStop, Call, Status, IsReady
  <2>. QED
    BY <2>1, <2>2 DEF Contract!Next, Contract!Begins, Contract!isReady
<1>6. CASE UNCHANGED vars
  BY <1>6, SessionStutters DEF vars
<1>. QED
  BY <1>1, <1>2, <1>3, <1>4, <1>5, <1>6 DEF Next, Ended

\* For any number of sessions, epochs and queue sizes the processor is, for its one caller, the
\* session DenoisePipeline builds on.
THEOREM SessionCorrect == Spec => ImplementsSession
<1>. DEFINE Inv == TypeOK /\ LifetimeInv /\ CallInv
<1>1. Init => Inv /\ Contract!Init
  <2>1. Init => CallInv /\ Contract!Init
    BY DEF Init, CallInv, Warming, Contract!Init, Status, Call, IsReady
  <2>. QED
    BY <2>1, TypeInit, LifetimeInit
<1>2. Inv /\ [Next]_vars => Inv'
  BY TypeStep, LifetimeStep, CallStep
<1>3. Inv /\ [Next]_vars => [Contract!Next]_<<Status, denoiser, Call>>
  BY SessionStep
<1>. QED
  BY <1>1, <1>2, <1>3, PTL DEF Spec, ImplementsSession, Contract!Spec
=============================================================================
