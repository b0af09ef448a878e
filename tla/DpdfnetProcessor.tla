-------------------------- MODULE DpdfnetProcessor --------------------------
(***************************************************************************)
(* dsp/dpdfnet_processor.cpp: the bridge between the real-time render      *)
(* thread and the worker thread that runs the DPDFNet model.  Three        *)
(* threads meet in one Impl:                                               *)
(*                                                                         *)
(*   render  setEpoch() and processBlock(), never blocks                   *)
(*   worker  workerLoop(): the only thread inside the native Run()         *)
(*   UI      prepare(), releaseSession() and the destructor                *)
(*                                                                         *)
(* Every access to a shared atomic is a step of its own unless two         *)
(* neighbouring accesses touch state no other thread can tell apart in     *)
(* between.  The queues are bounded FIFOs (module TaggedBlockQueue shows   *)
(* that the rings implement them).  Audio is reduced to its provenance:    *)
(* from which inputs the samples of a block were computed.                 *)
(***************************************************************************)
EXTENDS Integers, Sequences

CONSTANTS
  QueueLimit,       \* blocks a TaggedBlockQueue holds (QUEUE_CAPACITY - 1)
  BlockSamples,     \* DPDFNET_BLOCK_SAMPLES, in units of audio
  MaxOutputSamples, \* most units one Run() may return (validAudio)
  FifoCapacity,     \* units the output FIFO holds (FIFO_CAPACITY)
  Silence,          \* the zeroed output of processBlock
  MaxEpoch,         \* bound: stream epochs the render thread may reach
  MaxSessions       \* bound: sessions prepare() may start

ASSUME SizeAssumption ==
  /\ QueueLimit \in Nat \ {0}
  /\ BlockSamples \in Nat \ {0}
  /\ MaxOutputSamples \in Nat
  /\ FifoCapacity \in Nat
  /\ MaxOutputSamples + BlockSamples <= FifoCapacity

ASSUME BoundAssumption == MaxEpoch \in Nat /\ MaxSessions \in Nat

\* Where audio comes from: a stream epoch of a session, or the warm-up run.
Warmup == [session |-> 0, epoch |-> 0]
Origin == [session : Nat, epoch : Nat]

ASSUME SilenceAssumption == Silence \notin [wanted : Origin, from : SUBSET Origin]

InputBlock == [epoch : Nat, session : Nat]
OutputBlock == [epoch : Nat, from : SUBSET Origin]
Played == [wanted : Origin, from : SUBSET Origin]

VARIABLES
  ready, failed,    \* the worker can take audio; the session is broken
  workerAbandoned,  \* a stop timed out: the session is poisoned
  workerExited,     \* the worker's last store
  stopRequested,    \* the stop token of the current jthread
  requestedEpoch,   \* the epoch the render thread wants
  wakeEvent,        \* auto-reset event, TRUE when signalled
  readyEvent,       \* manual-reset event, TRUE when signalled
  inputQueue, outputQueue,
  denoiser,         \* the native session and the loaded library exist
  events,           \* wakeEvent and readyEvent are open
  impl,             \* the Impl itself: "live", "leaked" or "freed"
  workerPc, workerEpoch, input,
  context,          \* origins the model's recurrent state depends on
  result,           \* units of audio the last Run() returned
  fifoCount,        \* outputFifoCount
  fifoFrom,         \* origins of the audio in outputFifo
  renderPc, streamEpoch,
  output,           \* what processBlock wrote to its output
  hand,             \* the block pop() has copied, until it stores the index
  uiPc, afterStop,  \* where the UI thread is; where stopWorker returns to
  session,          \* how many sessions prepare() has started
  popRaced          \* history: a discard by prepare() has met a pop in flight

statusVars == <<ready, failed, workerAbandoned, workerExited, stopRequested>>
eventVars == <<wakeEvent, readyEvent>>
resourceVars == <<denoiser, events, impl>>
workerVars == <<workerPc, workerEpoch, input, context, result, fifoCount, fifoFrom>>
renderVars == <<renderPc, streamEpoch, output, hand>>
sessionVars == <<session, popRaced>>
uiVars == <<uiPc, afterStop, sessionVars>>
vars == <<statusVars, requestedEpoch, eventVars, inputQueue, outputQueue,
          resourceVars, workerVars, renderVars, uiVars>>

NoInput == [epoch |-> 0, session |-> 0]
NoHand == [block |-> [epoch |-> 0, from |-> {}], discarded |-> FALSE, rest |-> <<>>]

Init ==
  /\ ready = FALSE
  /\ failed = FALSE
  /\ workerAbandoned = FALSE
  /\ workerExited = FALSE
  /\ stopRequested = FALSE
  /\ requestedEpoch = 1
  /\ wakeEvent = FALSE
  /\ readyEvent = FALSE
  /\ inputQueue = <<>>
  /\ outputQueue = <<>>
  /\ denoiser = FALSE
  /\ events = FALSE
  /\ impl = "live"
  /\ workerPc = "none"
  /\ workerEpoch = 1
  /\ input = NoInput
  /\ context = {}
  /\ result = 0
  /\ fifoCount = 0
  /\ fifoFrom = {}
  /\ renderPc = "idle"
  /\ streamEpoch = 1
  /\ output = Silence
  /\ hand = NoHand
  /\ uiPc = "idle"
  /\ afterStop = "idle"
  /\ session = 0
  /\ popRaced = FALSE

IsReady == ready /\ ~failed /\ ~workerAbandoned
HasFailed == failed \/ workerAbandoned

\* signalWorker(): SetEvent on the wake event, when there is one.
Signalled == wakeEvent \/ events

\* TaggedBlockQueue::push: a full queue refuses the block, and both callers
\* then only count it (inputDrops, outputDrops).
Pushed(queue, block) ==
  IF Len(queue) < QueueLimit THEN Append(queue, block) ELSE queue

\* The test both render entry points start with.  Its two loads are one
\* step: a render thread that stalls after it covers every later outcome.
TakesAudio == ready /\ ~failed

-----------------------------------------------------------------------------
(* Render thread: setEpoch(epoch), called with a fresh stream epoch.       *)

SetEpoch ==
  /\ impl = "live"
  /\ renderPc = "idle"
  /\ streamEpoch < MaxEpoch
  /\ streamEpoch' = streamEpoch + 1
  /\ renderPc' = IF TakesAudio THEN "setEpoch" ELSE "idle"
  /\ UNCHANGED <<statusVars, requestedEpoch, eventVars, inputQueue, outputQueue,
                 resourceVars, workerVars, output, hand, uiVars>>

SetEpochStore ==
  /\ renderPc = "setEpoch"
  /\ requestedEpoch' = streamEpoch
  /\ renderPc' = "discard"
  /\ UNCHANGED <<statusVars, eventVars, inputQueue, outputQueue, resourceVars,
                 workerVars, streamEpoch, output, hand, uiVars>>

SetEpochDiscard ==
  /\ renderPc = "discard"
  /\ outputQueue' = <<>>
  /\ wakeEvent' = Signalled
  /\ renderPc' = "idle"
  /\ UNCHANGED <<statusVars, requestedEpoch, readyEvent, inputQueue, resourceVars,
                 workerVars, streamEpoch, output, hand, uiVars>>

(* Render thread: processBlock(input, output, epoch).                      *)

ProcessBlock_WithoutStore ==
  /\ impl = "live"
  /\ renderPc = "idle"
  /\ output' = Silence
  /\ renderPc' = IF TakesAudio THEN "push" ELSE "idle"
  /\ UNCHANGED <<statusVars, requestedEpoch, eventVars, inputQueue, outputQueue,
                 resourceVars, workerVars, streamEpoch, hand, uiVars>>

ProcessBlock ==
  /\ impl = "live"
  /\ renderPc = "idle"
  /\ output' = Silence
  /\ renderPc' = IF TakesAudio THEN "store" ELSE "idle"
  /\ UNCHANGED <<statusVars, requestedEpoch, eventVars, inputQueue, outputQueue,
                 resourceVars, workerVars, streamEpoch, hand, uiVars>>

ProcessBlockStore ==
  /\ renderPc = "store"
  /\ requestedEpoch' = streamEpoch
  /\ renderPc' = "push"
  /\ UNCHANGED <<statusVars, eventVars, inputQueue, outputQueue, resourceVars,
                 workerVars, streamEpoch, output, hand, uiVars>>

\* The worker is woken even when the queue refused the block.
ProcessBlockPush ==
  /\ renderPc = "push"
  /\ inputQueue' = Pushed(inputQueue, [epoch |-> streamEpoch, session |-> session])
  /\ wakeEvent' = Signalled
  /\ renderPc' = "pop"
  /\ UNCHANGED <<statusVars, requestedEpoch, readyEvent, outputQueue, resourceVars,
                 workerVars, streamEpoch, output, hand, uiVars>>

\* The block that ends processBlock's pop loop.
IsWanted(block) == block.epoch = streamEpoch

\* One turn of the pop loop: pop() finds the queue empty, or copies the
\* oldest block out of it ...
ProcessBlockPop ==
  /\ renderPc = "pop"
  /\ IF outputQueue = <<>>
       THEN renderPc' = "idle" /\ UNCHANGED hand
       ELSE /\ renderPc' = "popped"
            /\ hand' = [block |-> Head(outputQueue), discarded |-> FALSE, rest |-> <<>>]
  /\ UNCHANGED <<statusVars, requestedEpoch, eventVars, inputQueue, outputQueue,
                 resourceVars, workerVars, streamEpoch, output, uiVars>>

\* The ring holds a longer sequence only modulo its size.
Wrapped(queue) ==
  IF Len(queue) <= QueueLimit THEN queue ELSE SubSeq(queue, QueueLimit + 2, Len(queue))

\* ... and stores the read index it computed before the copy, which brings
\* back what another thread has discarded meanwhile.  The block is returned
\* if it has the wanted epoch.
ProcessBlockPopped ==
  /\ renderPc = "popped"
  /\ outputQueue' = IF hand.discarded THEN Wrapped(hand.rest \o outputQueue)
                    ELSE Tail(outputQueue)
  /\ IF IsWanted(hand.block)
       THEN /\ output' = [wanted |-> [session |-> session, epoch |-> streamEpoch],
                          from |-> hand.block.from]
            /\ renderPc' = "idle"
       ELSE /\ renderPc' = "pop"
            /\ UNCHANGED output
  /\ hand' = NoHand
  /\ UNCHANGED <<statusVars, requestedEpoch, eventVars, inputQueue, resourceVars,
                 workerVars, streamEpoch, uiVars>>

Render ==
  \/ SetEpoch \/ SetEpochStore \/ SetEpochDiscard
  \/ ProcessBlock \/ ProcessBlockStore \/ ProcessBlockPush
  \/ ProcessBlockPop \/ ProcessBlockPopped

-----------------------------------------------------------------------------
(* Worker thread: workerLoop(stopToken).                                   *)

\* failWorker(): publish the failure, withdraw readiness, wake the loop.
FailWorker ==
  /\ failed' = TRUE
  /\ ready' = FALSE
  /\ wakeEvent' = Signalled

\* resetWorkerState(epoch): forget the model's state and the unread output.
ResetWorkerState_KeepsFifo(epoch) ==
  /\ context' = {}
  /\ workerEpoch' = epoch
  /\ UNCHANGED <<fifoCount, fifoFrom>>
ResetWorkerState(epoch) ==
  /\ context' = {}
  /\ workerEpoch' = epoch
  /\ fifoCount' = 0
  /\ fifoFrom' = {}

\* The warm-up Run() returns: no audio or valid audio, or invalid audio.
WarmupReturns ==
  /\ workerPc = "warmup"
  /\ context' = context \cup {Warmup}
  /\ \/ workerPc' = "warmed" /\ UNCHANGED <<ready, failed, wakeEvent>>
     \/ workerPc' = "warmed" /\ FailWorker
  /\ UNCHANGED <<workerAbandoned, workerExited, stopRequested, requestedEpoch, readyEvent,
                 inputQueue, outputQueue, resourceVars, workerEpoch, input, result,
                 fifoCount, fifoFrom, renderVars, uiVars>>

\* A good warm-up is erased from the model before the session is offered.
WarmupReset ==
  /\ workerPc = "warmed"
  /\ IF failed
       THEN UNCHANGED <<context, workerEpoch>>
       ELSE /\ context' = {}
            /\ workerEpoch' = requestedEpoch
  /\ workerPc' = "publish"
  /\ UNCHANGED <<statusVars, requestedEpoch, eventVars, inputQueue, outputQueue,
                 resourceVars, input, result, fifoCount, fifoFrom, renderVars, uiVars>>

PublishReady ==
  /\ workerPc = "publish"
  /\ ready' = ~failed
  /\ readyEvent' = TRUE
  /\ workerPc' = "loop"
  /\ UNCHANGED <<failed, workerAbandoned, workerExited, stopRequested, requestedEpoch,
                 wakeEvent, inputQueue, outputQueue, resourceVars, workerEpoch, input,
                 context, result, fifoCount, fifoFrom, renderVars, uiVars>>

\* The loop condition fails: the last store of the thread.
WorkerExit ==
  /\ workerPc = "loop"
  /\ stopRequested
  /\ workerExited' = TRUE
  /\ workerPc' = "exited"
  /\ UNCHANGED <<ready, failed, workerAbandoned, stopRequested, requestedEpoch, eventVars,
                 inputQueue, outputQueue, resourceVars, workerEpoch, input, context,
                 result, fifoCount, fifoFrom, renderVars, uiVars>>

\* A failed worker waits without a timeout until it is signalled.
FailedWait ==
  /\ workerPc = "loop"
  /\ ~stopRequested
  /\ failed
  /\ workerPc' = "failedWait"
  /\ UNCHANGED <<statusVars, requestedEpoch, eventVars, inputQueue, outputQueue,
                 resourceVars, workerEpoch, input, context, result, fifoCount, fifoFrom,
                 renderVars, uiVars>>

FailedWake ==
  /\ workerPc = "failedWait"
  /\ wakeEvent
  /\ wakeEvent' = FALSE
  /\ workerPc' = "loop"
  /\ UNCHANGED <<statusVars, requestedEpoch, readyEvent, inputQueue, outputQueue,
                 resourceVars, workerEpoch, input, context, result, fifoCount, fifoFrom,
                 renderVars, uiVars>>

\* The top of the loop: follow the requested epoch before taking input.
FollowEpoch ==
  /\ workerPc = "loop"
  /\ ~stopRequested
  /\ ~failed
  /\ IF requestedEpoch # workerEpoch
       THEN ResetWorkerState(requestedEpoch)
       ELSE UNCHANGED <<context, workerEpoch, fifoCount, fifoFrom>>
  /\ workerPc' = "take"
  /\ UNCHANGED <<statusVars, requestedEpoch, eventVars, inputQueue, outputQueue,
                 resourceVars, input, result, renderVars, uiVars>>

TakeInput ==
  /\ workerPc = "take"
  /\ inputQueue # <<>>
  /\ input' = Head(inputQueue)
  /\ inputQueue' = Tail(inputQueue)
  /\ workerPc' = "compare"
  /\ UNCHANGED <<statusVars, requestedEpoch, eventVars, outputQueue, resourceVars,
                 workerEpoch, context, result, fifoCount, fifoFrom, renderVars, uiVars>>

\* No input: wait for a signal or 20 ms, whichever comes first.
IdleWait ==
  /\ workerPc = "take"
  /\ inputQueue = <<>>
  /\ workerPc' = "idleWait"
  /\ UNCHANGED <<statusVars, requestedEpoch, eventVars, inputQueue, outputQueue,
                 resourceVars, workerEpoch, input, context, result, fifoCount, fifoFrom,
                 renderVars, uiVars>>

IdleWake ==
  /\ workerPc = "idleWait"
  /\ wakeEvent' = FALSE
  /\ workerPc' = "loop"
  /\ UNCHANGED <<statusVars, requestedEpoch, readyEvent, inputQueue, outputQueue,
                 resourceVars, workerEpoch, input, context, result, fifoCount, fifoFrom,
                 renderVars, uiVars>>

\* The epoch of the block against the worker's: older is dropped, newer
\* makes the worker move on unless the render thread has moved further.
CompareEpoch ==
  /\ workerPc = "compare"
  /\ \/ /\ input.epoch < workerEpoch
        /\ workerPc' = "loop"
        /\ UNCHANGED <<context, workerEpoch, fifoCount, fifoFrom>>
     \/ /\ input.epoch = workerEpoch
        /\ workerPc' = "gate"
        /\ UNCHANGED <<context, workerEpoch, fifoCount, fifoFrom>>
     \/ /\ input.epoch > workerEpoch
        /\ requestedEpoch > input.epoch
        /\ workerPc' = "loop"
        /\ UNCHANGED <<context, workerEpoch, fifoCount, fifoFrom>>
     \/ /\ input.epoch > workerEpoch
        /\ requestedEpoch <= input.epoch
        /\ ResetWorkerState(input.epoch)
        /\ workerPc' = "gate"
  /\ UNCHANGED <<statusVars, requestedEpoch, eventVars, inputQueue, outputQueue,
                 resourceVars, input, result, renderVars, uiVars>>

IsCurrent == requestedEpoch = workerEpoch

\* The last look before Run().
GateRun ==
  /\ workerPc = "gate"
  /\ workerPc' = IF input.epoch = workerEpoch /\ IsCurrent THEN "run" ELSE "loop"
  /\ UNCHANGED <<statusVars, requestedEpoch, eventVars, inputQueue, outputQueue,
                 resourceVars, workerEpoch, input, context, result, fifoCount, fifoFrom,
                 renderVars, uiVars>>

\* Run() returns: nothing, n units of valid audio, or invalid audio.
RunReturns ==
  /\ workerPc = "run"
  /\ context' = context \cup {[session |-> input.session, epoch |-> input.epoch]}
  /\ \/ workerPc' = "loop" /\ UNCHANGED <<ready, failed, wakeEvent, result>>
     \/ workerPc' = "loop" /\ FailWorker /\ UNCHANGED result
     \/ /\ \E n \in 0..MaxOutputSamples : result' = n
        /\ workerPc' = "append"
        /\ UNCHANGED <<ready, failed, wakeEvent>>
  /\ UNCHANGED <<workerAbandoned, workerExited, stopRequested, requestedEpoch, readyEvent,
                 inputQueue, outputQueue, resourceVars, workerEpoch, input,
                 fifoCount, fifoFrom, renderVars, uiVars>>

\* A FIFO filled to the brim drops everything it holds.
FifoAfter(n) == IF fifoCount + n > FifoCapacity THEN 0 ELSE fifoCount + n

\* A reset that arrived during Run() makes its result stale.
AppendOutput ==
  /\ workerPc = "append"
  /\ IF IsCurrent
       THEN /\ fifoCount' = FifoAfter(result)
            /\ fifoFrom' = IF result = 0 THEN fifoFrom ELSE fifoFrom \cup context
            /\ workerPc' = "drain"
       ELSE /\ workerPc' = "loop"
            /\ UNCHANGED <<fifoCount, fifoFrom>>
  /\ UNCHANGED <<statusVars, requestedEpoch, eventVars, inputQueue, outputQueue,
                 resourceVars, workerEpoch, input, context, result, renderVars, uiVars>>

\* One turn of appendOutput's second loop.
DrainFifo ==
  /\ workerPc = "drain"
  /\ fifoCount >= BlockSamples
  /\ outputQueue' = Pushed(outputQueue, [epoch |-> workerEpoch, from |-> fifoFrom])
  /\ fifoCount' = fifoCount - BlockSamples
  /\ UNCHANGED <<statusVars, requestedEpoch, eventVars, inputQueue, resourceVars, workerPc,
                 workerEpoch, input, context, result, fifoFrom, renderVars, uiVars>>

Drained ==
  /\ workerPc = "drain"
  /\ fifoCount < BlockSamples
  /\ workerPc' = "loop"
  /\ fifoFrom' = IF fifoCount = 0 THEN {} ELSE fifoFrom
  /\ UNCHANGED <<statusVars, requestedEpoch, eventVars, inputQueue, outputQueue,
                 resourceVars, workerEpoch, input, context, result, fifoCount,
                 renderVars, uiVars>>

\* The worker's steps other than the return of a native Run().
WorkerStep ==
  \/ WarmupReset \/ PublishReady \/ WorkerExit \/ FailedWait \/ FailedWake
  \/ FollowEpoch \/ TakeInput \/ IdleWait \/ IdleWake \/ CompareEpoch
  \/ GateRun \/ AppendOutput \/ DrainFifo \/ Drained

NativeReturns == WarmupReturns \/ RunReturns

-----------------------------------------------------------------------------
(* UI thread: stopWorker(), then returning to afterStop.                   *)

Joinable == workerPc # "none" /\ ~workerAbandoned

StopUnready ==
  /\ uiPc = "stop"
  /\ IF workerAbandoned
       THEN uiPc' = afterStop /\ UNCHANGED ready
       ELSE uiPc' = "stopRequest" /\ ready' = FALSE
  /\ UNCHANGED <<failed, workerAbandoned, workerExited, stopRequested, requestedEpoch,
                 eventVars, inputQueue, outputQueue, resourceVars, workerVars, renderVars,
                 afterStop, sessionVars>>

StopRequest ==
  /\ uiPc = "stopRequest"
  /\ stopRequested' = Joinable
  /\ uiPc' = "stopSignal"
  /\ UNCHANGED <<ready, failed, workerAbandoned, workerExited, requestedEpoch, eventVars,
                 inputQueue, outputQueue, resourceVars, workerVars, renderVars,
                 afterStop, sessionVars>>

StopSignal_Silent ==
  /\ uiPc = "stopSignal"
  /\ uiPc' = IF Joinable THEN "stopWait" ELSE "stopFree"
  /\ UNCHANGED <<statusVars, requestedEpoch, eventVars, inputQueue, outputQueue,
                 resourceVars, workerVars, renderVars, afterStop, sessionVars>>

StopSignal ==
  /\ uiPc = "stopSignal"
  /\ wakeEvent' = Signalled
  /\ uiPc' = IF Joinable THEN "stopWait" ELSE "stopFree"
  /\ UNCHANGED <<statusVars, requestedEpoch, readyEvent, inputQueue, outputQueue,
                 resourceVars, workerVars, renderVars, afterStop, sessionVars>>

StopJoin ==
  /\ uiPc = "stopWait"
  /\ workerExited
  /\ workerPc' = "none"
  /\ stopRequested' = FALSE
  /\ uiPc' = "stopFree"
  /\ UNCHANGED <<ready, failed, workerAbandoned, workerExited, requestedEpoch, eventVars,
                 inputQueue, outputQueue, resourceVars, workerEpoch, input, context,
                 result, fifoCount, fifoFrom, renderVars, afterStop, sessionVars>>

\* The stop budget is spent: detach the thread and poison the session.
StopAbandon_Never == FALSE /\ UNCHANGED vars

StopAbandon_FreesAnyway ==
  /\ uiPc = "stopWait"
  /\ ~workerExited
  /\ workerAbandoned' = TRUE
  /\ uiPc' = "stopFree"
  /\ UNCHANGED <<ready, failed, workerExited, stopRequested, requestedEpoch, eventVars,
                 inputQueue, outputQueue, resourceVars, workerVars, renderVars,
                 afterStop, sessionVars>>

StopAbandon ==
  /\ uiPc = "stopWait"
  /\ ~workerExited
  /\ workerAbandoned' = TRUE
  /\ uiPc' = afterStop
  /\ UNCHANGED <<ready, failed, workerExited, stopRequested, requestedEpoch, eventVars,
                 inputQueue, outputQueue, resourceVars, workerVars, renderVars,
                 afterStop, sessionVars>>

StopFree ==
  /\ uiPc = "stopFree"
  /\ events' = FALSE
  /\ wakeEvent' = FALSE
  /\ readyEvent' = FALSE
  /\ denoiser' = FALSE
  /\ uiPc' = "stopLast"
  /\ UNCHANGED <<statusVars, requestedEpoch, inputQueue, outputQueue, impl, workerVars,
                 renderVars, afterStop, sessionVars>>

StopLast_Once ==
  /\ uiPc = "stopLast"
  /\ uiPc' = afterStop
  /\ UNCHANGED <<statusVars, requestedEpoch, eventVars, inputQueue, outputQueue,
                 resourceVars, workerVars, renderVars, afterStop, sessionVars>>

\* ready is withdrawn a second time: a worker finishing its warm-up after
\* the first withdrawal has published it again.
StopLast ==
  /\ uiPc = "stopLast"
  /\ ready' = FALSE
  /\ uiPc' = afterStop
  /\ UNCHANGED <<failed, workerAbandoned, workerExited, stopRequested, requestedEpoch,
                 eventVars, inputQueue, outputQueue, resourceVars, workerVars, renderVars,
                 afterStop, sessionVars>>

StopWorker ==
  \/ StopUnready \/ StopRequest \/ StopSignal \/ StopJoin \/ StopAbandon
  \/ StopFree \/ StopLast

-----------------------------------------------------------------------------
(* UI thread: prepare(), releaseSession() and the destructor.              *)

\* stopWorker() is called, to come back to the given place.
CallStop(return) ==
  /\ uiPc' = "stop"
  /\ afterStop' = return

\* An abandoned session refuses to be prepared again; the pipeline asks only
\* for a processor that is not ready.
Prepare ==
  /\ uiPc = "idle"
  /\ impl = "live"
  /\ ~IsReady
  /\ ~workerAbandoned
  /\ session < MaxSessions
  /\ CallStop("prepareReset")
  /\ UNCHANGED <<statusVars, requestedEpoch, eventVars, inputQueue, outputQueue,
                 resourceVars, workerVars, renderVars, sessionVars>>

\* The stop this call made may itself have abandoned the worker.  The render
\* thread may be inside a pop() of the output queue that is discarded here.
PrepareReset ==
  /\ uiPc = "prepareReset"
  /\ IF workerAbandoned
       THEN /\ uiPc' = "idle"
            /\ UNCHANGED <<ready, failed, inputQueue, outputQueue, fifoCount, fifoFrom,
                           hand, sessionVars>>
       ELSE /\ failed' = FALSE
            /\ ready' = FALSE
            /\ inputQueue' = <<>>
            /\ outputQueue' = <<>>
            /\ fifoCount' = 0
            /\ fifoFrom' = {}
            /\ IF renderPc = "popped" /\ ~hand.discarded
                 THEN hand' = [hand EXCEPT !.discarded = TRUE, !.rest = Tail(outputQueue)]
                 ELSE UNCHANGED hand
            /\ popRaced' = (popRaced \/ renderPc = "popped")
            /\ session' = session + 1
            /\ uiPc' = "prepareLoad"
  /\ UNCHANGED <<workerAbandoned, workerExited, stopRequested, requestedEpoch, eventVars,
                 resourceVars, workerPc, workerEpoch, input, context, result, renderPc,
                 streamEpoch, output, afterStop>>

\* A missing file or symbol, or a session that cannot be created.
PrepareLoadFails ==
  /\ uiPc = "prepareLoad"
  /\ uiPc' = "idle"
  /\ UNCHANGED <<statusVars, requestedEpoch, eventVars, inputQueue, outputQueue,
                 resourceVars, workerVars, renderVars, afterStop, sessionVars>>

\* The session exists but breaks its contract, or has no events: undo it.
PrepareContractFails ==
  /\ uiPc = "prepareLoad"
  /\ denoiser' = TRUE
  /\ CallStop("idle")
  /\ UNCHANGED <<statusVars, requestedEpoch, eventVars, inputQueue, outputQueue, events,
                 impl, workerVars, renderVars, sessionVars>>

PrepareCreate ==
  /\ uiPc = "prepareLoad"
  /\ denoiser' = TRUE
  /\ events' = TRUE
  /\ context' = {}
  /\ workerExited' = FALSE
  /\ uiPc' = "prepareStart"
  /\ UNCHANGED <<ready, failed, workerAbandoned, stopRequested, requestedEpoch, eventVars,
                 inputQueue, outputQueue, impl, workerPc, workerEpoch, input, result,
                 fifoCount, fifoFrom, renderVars, afterStop, sessionVars>>

PrepareStart ==
  /\ uiPc = "prepareStart"
  /\ requestedEpoch' = 1
  /\ workerEpoch' = 1
  /\ workerPc' = "warmup"
  /\ uiPc' = "prepareWait"
  /\ UNCHANGED <<statusVars, eventVars, inputQueue, outputQueue, resourceVars, input,
                 context, result, fifoCount, fifoFrom, renderVars, afterStop, sessionVars>>

PrepareTimeout ==
  /\ uiPc = "prepareWait"
  /\ ~readyEvent
  /\ CallStop("idle")
  /\ UNCHANGED <<statusVars, requestedEpoch, eventVars, inputQueue, outputQueue,
                 resourceVars, workerVars, renderVars, sessionVars>>

PrepareWarm ==
  /\ uiPc = "prepareWait"
  /\ readyEvent
  /\ IF failed
       THEN CallStop("idle")
       ELSE uiPc' = "prepareReady" /\ UNCHANGED afterStop
  /\ UNCHANGED <<statusVars, requestedEpoch, eventVars, inputQueue, outputQueue,
                 resourceVars, workerVars, renderVars, sessionVars>>

PrepareReady ==
  /\ uiPc = "prepareReady"
  /\ ready' = TRUE
  /\ uiPc' = "idle"
  /\ UNCHANGED <<failed, workerAbandoned, workerExited, stopRequested, requestedEpoch,
                 eventVars, inputQueue, outputQueue, resourceVars, workerVars, renderVars,
                 afterStop, sessionVars>>

ReleaseSession ==
  /\ uiPc = "idle"
  /\ impl = "live"
  /\ session > 0
  /\ CallStop("idle")
  /\ UNCHANGED <<statusVars, requestedEpoch, eventVars, inputQueue, outputQueue,
                 resourceVars, workerVars, renderVars, sessionVars>>

\* The destructor runs after the render thread has been joined.
Destroy ==
  /\ uiPc = "idle"
  /\ impl = "live"
  /\ renderPc = "idle"
  /\ impl' = "closing"
  /\ CallStop("destroy")
  /\ UNCHANGED <<statusVars, requestedEpoch, eventVars, inputQueue, outputQueue,
                 denoiser, events, workerVars, renderVars, sessionVars>>

\* An abandoned worker may still be using the Impl, which is then leaked.
DestroyImpl ==
  /\ uiPc = "destroy"
  /\ impl' = IF workerAbandoned THEN "leaked" ELSE "freed"
  /\ uiPc' = "gone"
  /\ UNCHANGED <<statusVars, requestedEpoch, eventVars, inputQueue, outputQueue,
                 denoiser, events, workerVars, renderVars, afterStop, sessionVars>>

\* The UI thread inside a call it has made.
UiStep ==
  \/ StopWorker \/ PrepareReset \/ PrepareLoadFails \/ PrepareContractFails
  \/ PrepareCreate \/ PrepareStart \/ PrepareTimeout \/ PrepareWarm \/ PrepareReady
  \/ DestroyImpl

UiCall == Prepare \/ ReleaseSession \/ Destroy

\* The process has ended: the destructor has run and no worker can move.
Ended ==
  /\ uiPc = "gone"
  /\ workerPc \in {"none", "exited"}
  /\ UNCHANGED vars

Next == Render \/ WorkerStep \/ NativeReturns \/ UiStep \/ UiCall \/ Ended

Spec == Init /\ [][Next]_vars

\* The operating system schedules the worker and the UI thread; nothing is
\* assumed of the native Run() nor of the render thread.
FairSpec == Spec /\ WF_vars(WorkerStep) /\ WF_vars(UiStep)

-----------------------------------------------------------------------------
(* Properties.                                                             *)

WorkerPc ==
  {"none", "warmup", "warmed", "publish", "loop", "failedWait", "take", "idleWait",
   "compare", "gate", "run", "append", "drain", "exited"}
RenderPc == {"idle", "setEpoch", "discard", "store", "push", "pop", "popped"}
UiPc ==
  {"idle", "stop", "stopRequest", "stopSignal", "stopWait", "stopFree", "stopLast",
   "prepareReset", "prepareLoad", "prepareStart", "prepareWait", "prepareReady",
   "destroy", "gone"}

TypeOK ==
  /\ ready \in BOOLEAN /\ failed \in BOOLEAN /\ workerAbandoned \in BOOLEAN
  /\ workerExited \in BOOLEAN /\ stopRequested \in BOOLEAN
  /\ requestedEpoch \in Nat /\ streamEpoch \in Nat /\ workerEpoch \in Nat
  /\ session \in Nat
  /\ wakeEvent \in BOOLEAN /\ readyEvent \in BOOLEAN
  /\ denoiser \in BOOLEAN /\ events \in BOOLEAN
  /\ impl \in {"live", "closing", "leaked", "freed"}
  /\ inputQueue \in Seq(InputBlock) /\ Len(inputQueue) <= QueueLimit
  /\ outputQueue \in Seq(OutputBlock) /\ Len(outputQueue) <= QueueLimit
  /\ workerPc \in WorkerPc /\ renderPc \in RenderPc /\ uiPc \in UiPc
  /\ afterStop \in {"idle", "prepareReset", "destroy"}
  /\ input \in InputBlock
  /\ context \in SUBSET Origin /\ fifoFrom \in SUBSET Origin
  /\ result \in 0..MaxOutputSamples
  /\ fifoCount \in 0..FifoCapacity
  /\ output \in Played \cup {Silence}
  /\ hand \in [block : OutputBlock, discarded : BOOLEAN, rest : Seq(OutputBlock)]
  /\ Len(hand.rest) < QueueLimit
  /\ renderPc = "popped" /\ ~hand.discarded => outputQueue # <<>>
  /\ popRaced \in BOOLEAN

\* A block processBlock() returns was computed only from input of the epoch
\* and session it was asked for: neither from audio of an earlier stream or
\* of an earlier session, nor through model state or FIFO remains left by
\* them, whenever the reset arrived (before, during or after a Run()).  The
\* one exception is a prepare() that discards the output queue under a pop
\* in flight, which nothing in the code prevents (dpdfnet_processor.cpp:434).
NoStaleOutput ==
  output # Silence /\ ~popRaced => output.from = {output.wanted}

\* The native session, its library and the events are there for as long as
\* a worker may use them, on every path through stop, timeout, re-prepare
\* and destruction.
WorkerHasSession ==
  workerPc \notin {"none", "exited"} =>
    /\ denoiser /\ events
    /\ impl # "freed"

\* Between UI calls, a processor that calls itself ready has a session and a
\* worker to serve it (isReady() is what the pipeline routes audio by).
ReadyMeansSession ==
  uiPc = "idle" /\ IsReady => denoiser /\ workerPc \notin {"none", "exited"}

\* appendOutput() never has to drop the FIFO: what is left over from the
\* last Run() and what the next one returns always fit.
FifoNeverOverflows ==
  workerPc = "append" => fifoCount + result <= FifoCapacity

\* The worker throws an input block away only when the render thread has
\* moved on to a later epoch: the first block of a new epoch is never lost
\* to the race between storing requestedEpoch and pushing the block.  (A
\* second prepare() sets requestedEpoch back to 1 between the two.)
DropOnlySuperseded ==
  [][(workerPc = "compare" \/ workerPc = "gate") /\ workerPc' = "loop"
       => requestedEpoch > input.epoch \/ (session > 1 /\ requestedEpoch = 1)]_vars

\* stopWorker(), and so prepare(), release and shutdown, always come back,
\* even if the native Run() never does: the stop then detaches the worker and
\* leaves it what it uses.  (ARCHITECTURE.md:132 and CHANGELOG.md:100 still call
\* this a limitation, and say that no worker is detached.)
UiReturns == uiPc \notin {"idle", "gone"} ~> uiPc \in {"idle", "gone"}

\* A worker asked to stop exits if Run() always returns, also from the wait
\* without timeout that follows a failure: the wake-up is never lost.
WorkerStops == WF_vars(NativeReturns) => (stopRequested ~> workerExited)

\* What the pipeline sees of all this.
Status ==
  IF workerAbandoned THEN "abandoned"
  ELSE IF failed THEN "failed" ELSE IF ready THEN "ready" ELSE "none"

\* The place of the UI thread's call.  A call has ended when its outcome is
\* decided, and a stop that gave the worker up has nothing more to do.
Call ==
  CASE uiPc \in {"idle", "prepareReady", "destroy", "gone"} -> "none"
    [] uiPc = "prepareReset" -> IF workerAbandoned THEN "none" ELSE "replacing"
    [] uiPc = "prepareLoad" -> "loading"
    [] uiPc \in {"prepareStart", "prepareWait"} -> "warming"
    [] OTHER -> IF afterStop = "prepareReset" THEN "replacing" ELSE "stopping"

Contract == INSTANCE OneCaller WITH status <- Status, loaded <- denoiser, call <- Call

\* For its one caller, whatever worker and render thread do meanwhile, the
\* processor is the session DenoisePipeline takes it for: readiness, failure,
\* abandonment and the native session change by the steps of that module only.
ImplementsSession == Contract!Spec

-----------------------------------------------------------------------------
(* The inductive invariant behind the safety properties.                   *)

Alive == workerPc \notin {"none", "exited"}

\* Where the UI thread is says whether a worker can exist.
WorkerMatchesUi ==
  /\ uiPc \in {"stopFree", "stopLast", "prepareLoad", "prepareStart"}
       => workerPc = "none" /\ ~workerAbandoned
  /\ uiPc \in {"prepareReset", "destroy"} /\ ~workerAbandoned => workerPc = "none"
  /\ uiPc \in {"stopRequest", "stopSignal", "stopWait"} => ~workerAbandoned
  /\ uiPc \in {"prepareWait", "prepareReady"} => workerPc # "none" /\ ~workerAbandoned
  /\ uiPc = "prepareStart" => ~workerExited /\ denoiser /\ events
  /\ impl = "freed" => uiPc = "gone"

\* A worker ends only at the request of the stop that is waiting for it.
ExitMatchesStop ==
  /\ workerExited => ~Alive
  /\ workerPc = "exited" => stopRequested
  /\ stopRequested => workerPc # "none"
  /\ stopRequested /\ ~workerAbandoned => uiPc \in {"stopSignal", "stopWait"}

\* Until a stop has reached its request, ready is only true of a live worker.
ReadyMeansWorker ==
  /\ ready /\ ~workerAbandoned
  /\ uiPc \notin {"stopSignal", "stopWait", "stopFree", "stopLast"}
  => Alive

LifetimeInv ==
  /\ WorkerMatchesUi
  /\ ExitMatchesStop
  /\ WorkerHasSession
  /\ ReadyMeansWorker

\* Between two turns of the loop less than a block is left in the FIFO.
RemainderInv == workerPc # "drain" => fifoCount < BlockSamples

\* The one origin audio of the worker's current stream has.
Current == [session |-> session, epoch |-> workerEpoch]

\* The worker is past the failure test of its loop.
Serving == workerPc \in {"take", "idleWait", "compare", "gate", "run", "append", "drain"}

\* An output block was computed from what its tag says, in the given session.
TellsOrigin(block, ses) == block.from = {[session |-> ses, epoch |-> block.epoch]}

\* Every queued block is of this session; output blocks tell their origin.
QueuesTellOrigin ==
  /\ \A i \in 1..Len(inputQueue) : inputQueue[i].session = session
  /\ ~popRaced => \A i \in 1..Len(outputQueue) : TellsOrigin(outputQueue[i], session)
  /\ renderPc = "popped" /\ ~popRaced => TellsOrigin(hand.block, session)
  /\ renderPc = "popped" /\ hand.discarded => popRaced

\* The block in the worker's hand.
InputInv ==
  /\ workerPc \in {"compare", "gate", "run"} => input.session = session
  /\ workerPc = "run" => input.epoch = workerEpoch

\* Model and FIFO know nothing but the current stream.
StreamInv ==
  /\ Serving => ~failed
  /\ workerPc = "failedWait" => failed
  /\ Serving \/ (workerPc \in {"publish", "loop"} /\ ~failed)
       => context \subseteq {Current} /\ fifoFrom \subseteq {Current}
  /\ workerPc \in {"warmup", "warmed"} \/ uiPc \in {"prepareLoad", "prepareStart"}
       => fifoFrom = {}
  /\ workerPc = "append" => context # {}
  /\ fifoCount > 0 => fifoFrom # {}

OriginInv ==
  /\ QueuesTellOrigin
  /\ InputInv
  /\ StreamInv
  /\ NoStaleOutput

\* A second prepare() has set the requested epoch back, and the render thread
\* has not stored its own again.
Rewound == session > 1 /\ requestedEpoch = 1

\* Until its first worker starts, a processor takes no audio.
FreshTakesNothing ==
  /\ uiPc \in {"prepareLoad", "prepareStart", "prepareWait", "prepareReady"} => session > 0
  /\ session = 0 \/ (session = 1 /\ uiPc \in {"prepareLoad", "prepareStart"})
       => ~ready /\ workerPc = "none" /\ renderPc = "idle" /\ inputQueue = <<>>

\* No tag is ahead of the given epoch.
EpochsUpTo(epoch) ==
  /\ \A i \in 1..Len(inputQueue) : inputQueue[i].epoch <= epoch
  /\ workerPc \in {"compare", "gate"} => input.epoch <= epoch
  /\ workerEpoch <= epoch

\* The render thread publishes an epoch before it sends the first block of it.
EpochInv ==
  /\ 1 <= requestedEpoch /\ requestedEpoch <= streamEpoch
  /\ EpochsUpTo(streamEpoch)
  /\ ~Rewound => EpochsUpTo(requestedEpoch)
  /\ renderPc = "push" => requestedEpoch = streamEpoch \/ Rewound
  /\ workerPc = "gate" => input.epoch = workerEpoch
  /\ FreshTakesNothing

\* A worker that was asked to stop while it waits without a timeout has been
\* signalled, or is about to be.
StopHeard ==
  stopRequested /\ workerPc = "failedWait" => wakeEvent \/ uiPc = "stopSignal"

\* The worker has not ended its warm-up.
Warming == workerPc \in {"warmup", "warmed", "publish"}

\* What the places of the UI's calls say about the session: a worker warms up
\* only while prepare() waits for it or takes it back, and once it has said
\* that it is ready, or failed, prepare() can rely on it.
CallInv ==
  /\ uiPc \in {"stopLast", "prepareLoad"} => ~denoiser /\ ~readyEvent
  /\ uiPc = "prepareReset" /\ ~workerAbandoned => ~denoiser /\ ~readyEvent
  /\ uiPc = "prepareStart" => ~readyEvent
  /\ uiPc = "stopWait" => workerPc # "none"
  /\ workerPc = "exited" => workerExited
  /\ Warming /\ ~workerAbandoned =>
       /\ ~readyEvent
       /\ \/ uiPc = "prepareWait"
          \/ uiPc \in {"stop", "stopRequest", "stopSignal", "stopWait"} /\ afterStop = "idle"
  /\ uiPc = "prepareReady" \/ (uiPc = "prepareWait" /\ readyEvent) => ready \/ failed

IInv ==
  /\ TypeOK
  /\ LifetimeInv
  /\ RemainderInv
  /\ OriginInv
  /\ EpochInv
  /\ StopHeard
  /\ CallInv
=============================================================================
