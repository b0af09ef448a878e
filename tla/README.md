# Verification of vox_mic

TLA+ models of vox_mic, the Windows program that turns an Android phone into a
microphone, with TLC runs and TLAPS proofs. Paths are relative to the
repository; line numbers are in `PROJECT.json`, where every definition of the
models names the code it stands for.

## 1. The system

A phone records PCM and sends it over an ADB-forwarded TCP connection. On the
PC four threads and one worker share the process-wide `AppState`:

| part | state it keeps | operations | talks to |
|---|---|---|---|
| **Audio bridge** thread (`main.cpp:180`) | socket, gate, `wasIdle`, stall and recovery counters (`BridgeRecoveryState`) | connect, receive, gate, trim, push, reconnect, ADB recovery with back-off | phone (TCP, `adb`), ring buffer (producer, and now and then consumer), `AppState` atoms |
| **Sample ring buffer** (`ring_buffer.h`) | samples, read and write positions | push, pop, reset | bridge, render |
| **Render** thread (`wasapi_output.cpp:143`) | WASAPI buffers, stall score | pop, `DspPipeline::process`, underrun fill | ring buffer, pipeline |
| **Denoise pipeline** (`dsp/pipeline.h`) | settings it has seen, active backend, watchdog counters, degraded flag | `process`, `loadDpdfnetIfNeeded`, `releaseDpdfnet`, degrade | setting and status atoms, DPDFNet processor, RNNoise |
| **DPDFNet processor** (`dsp/dpdfnet_processor.cpp`) | `Impl`: status flags, requested epoch, two events, two queues, the native session, output FIFO | UI: `prepare`, `releaseSession`, destructor; render: `setEpoch`, `processBlock`; worker: `workerLoop` | native sherpa-onnx library |
| **Tagged block queue** (`dsp/tagged_block_queue.h`) | ring of tagged blocks, two indices | `push`, `pop`, `discardAll` | render and worker, one queue per direction |
| **Settings dialog** (`settings_dialog.cpp`, UI thread) | controls, snapshot, dirty flag | edit with live preview, commit, cancel, reset, refresh, tray toggles | `config.ini`, registry, `AppState`, pipeline |
| **Settings layout** (`settings_layout.cpp`, `settings_fields.h`, `settings_metrics.h`) | scale, place of every widget | build, relayout, change of DPI | the dialog's window |
| **Configuration**, **startup registration**, **tray menu** (`config.cpp`, `startup_registration.cpp`, `tray_icon.cpp`) | file, registry value, menu checks | load/save, query/set, add | settings dialog |
| **Microphone usage monitor** (`mic_usage_monitor.cpp`) | tracked sessions, requested gate, grace deadline | COM callbacks, `reconcile`, `waitForChange`, mode change | Windows audio sessions, the bridge's gate |
| **Android recorder** (`MainActivity`, `RecordService`, `RecordThread`) | service state, recording thread, server socket | start, stop, destroy, accept, record | the bridge |

What makes it hard: the render thread must never block, so everything it shares
is lock-free and read at several places of one block; a native `Run()` takes
tens of milliseconds, may never return, and gives back audio of a stream that
has been reset meanwhile; the UI may load, release or abandon the session at
any of these moments; the bridge thread, the phone and Windows audio sessions
come and go on their own; a setting lives in four places that are written one
after the other, and a message box lets the tray menu run in the middle.

### What makes each part correct

* **Tagged block queue** – bounded FIFO without loss, duplication or torn
  blocks for one producer and one consumer (proved).
* **DPDFNet processor** – no audio of another stream or session comes out; the
  native session outlives its worker; no block of a new stream is thrown away; its
  owner sees the steps of an abstract session only; the FIFO fits (proved); stop
  returns and no wake-up is lost (checked).
* **Denoise pipeline** – bounded silence while a worker stalls; what the settings
  page says of the last block is so, about DPDFNet at any time and about RNNoise and
  Off once a setting is taken up, and it reports a fallback or an unavailable DPDFNet
  only for cause (section 3, *Excuses*, names what it may say wrongly); RNNoise users
  carry no DPDFNet memory (proved); a changed setting takes effect (checked).
* **Ring buffer and WASAPI output** – until the two consumers collide: in order, at
  most once, and kept short by the trim; a reset that meets no `pop()` leaves no old
  audio, even behind a stalled render thread; no thread outlives the audio objects it
  uses (proved). That nothing is played twice is refuted by a run; whatever collides,
  the ring runs dry and the program ends (checked).
* **Bridge** – the denoiser learns of every gap at the gate and between connections
  (proved; not of the blocks the trim drops); a listener gets a connection back after
  any finite number of failures; an idle or silent connection is given up; the
  thread ends with the program (checked).
* **Usage monitor** – the gate is open while a program records and closes only
  after a whole grace period; nothing queued is leaked (proved); it opens for a
  short pulse too and does close (checked); it fails open (violated).
* **Settings** – file, memory, atomics, controls and menu agree again after every
  outcome of every step, except that a configured device adb does not name is shown
  as automatic detection; a crash loses no setting (proved).
* **Settings layout** – no two controls overlap, and the tallest page fits, at
  every scale (checked).
* **Android recorder** – the microphone is on only for a client; nothing is left
  of a destroyed service (proved); its destruction returns and a client is
  served (checked).

`PROJECT.json` lists the hazards of the code at their lines, with the properties
that cover them or the reason why none does.

## 2. The modules

| module | models | with |
|---|---|---|
| `BlockFifo` | what a block queue promises: an atomic bounded FIFO | the abstraction refined by the next |
| `TaggedBlockQueue` | `tagged_block_queue.h`, access by access | `MCTaggedBlockQueue`, `TaggedBlockQueueProofs` |
| `DpdfnetSession` | what the owner of a processor can see of it: its queries, its native session, and the steps of a call | steps shared by `OneCaller` and `DenoisePipeline` |
| `OneCaller` | that session with an owner who makes one call at a time | the abstraction refined by the next |
| `DpdfnetProcessor` | `dpdfnet_processor.cpp`: render, worker and UI thread around one `Impl` | `MCDpdfnetProcessor`, `DpdfnetProcessorProofs` |
| `DenoisePipeline` | `pipeline.h`, with `syncDspAtomsFromConfig` (`main.cpp`) and the dialog's preview, commit and cancel | `MCDenoisePipeline`, `DenoisePipelineProofs` |
| `MicUsageMonitor` | `mic_usage_monitor.cpp`, `mic_session_state.h`, with `micMonitorThread` and `setDemandModeRuntime` (`main.cpp`) | `MCMicUsageMonitor`, `MicUsageMonitorProofs` |
| `AudioBridge` | `audioBridgeThread` (`main.cpp`), `adb_control.cpp`, `socket_client.cpp`, the stall score of `wasapi_output.cpp` | `MCAudioBridge`, `AudioBridgeProofs` |
| `RenderRing` | `ring_buffer.h` with its accesses from `audioBridgeThread` and `renderThread`, and their life from `main()`'s start to its end | `MCRenderRing`, `RenderRingProofs` |
| `SettingsTransaction` | `config.cpp`, `startup_registration.cpp`, the transactions of `settings_dialog.cpp`, the toggles of `tray_icon.cpp` and `main.cpp` | `MCSettingsTransaction`, `SettingsTransactionProofs` |
| `SettingsLayout` | `settings_layout.cpp`, `settings_metrics.h`, `settings_fields.h` | `MCSettingsLayout` |
| `Recorder` | `MainActivity.java`, `RecordService.java`, `RecordThread.java` | `MCRecorder`, `RecorderProofs` |

The first six form a chain of abstractions, each link of it proved.
`TaggedBlockQueue` implements `BlockFifo`; `DpdfnetProcessor` uses a sequence for
each queue, and implements `OneCaller`, the session of `DpdfnetSession` under one
caller; `DenoisePipeline` takes the same steps of `DpdfnetSession` for each of its
two threads, and knows of the processor besides only whether `processBlock` had a
block. What is *not* shown is that the processor called from two threads at once
still is that session: `prepare()` was not written for it (section 4), and
`DenoisePipeline` assumes of such calls that their steps interleave. `RenderRing` has
what `AudioBridge` does to the ring, on which nothing else the bridge does
depends; how `Recorder` looks from the PC – connections
accepted and closed, an app that is silent or dead – is the environment of
`AudioBridge`. `SettingsTransaction` is where the settings come from that
`DenoisePipeline` reads.

### TaggedBlockQueue

`push` is `PushBegin` (the full test), `PushEpoch`, `PushSamples` (the two halves
of the copy into the slot) and `PushPublish` (the release store of the write
index); `pop` likewise; `discardAll` is a load and a store. Loads are acquire and
stores are release, each index has one writer, so interleaving whole accesses is
sound. `popped`, `offered` and `taken` are the locals and results of the calls.

### DpdfnetSession and OneCaller

`status` is what `isReady()`, `hasFailed()` and `workerAbandoned()` answer together,
`loaded` whether the native session exists. The worker may fail at any time
(`Fails`), and ends its warm-up well (`Publishes`) while `prepare()` waits for it –
or after it has stopped waiting and is taking the session back. Each of the other
definitions is a step of a call from one place to another: `Withdraws`, `Frees`,
`Abandons` and `Stopped` are the stores of `stopWorker` the owner can notice, the
rest those of `prepare`. Readiness is published before `prepare()` returns,
withdrawn before the session is freed, and withdrawn again at the end of the stop.

### DpdfnetProcessor

One action per access to shared state, grouped by thread: `Render`, `WorkerStep`
and `NativeReturns`, `UiStep` inside a UI call and `UiCall` that begins one. `*Pc`
variables say where a thread is. `stopWorker` is modelled once, with `afterStop`
as its return address (`prepare`, release, the destructor).

Audio is reduced to where it comes from: an *origin* is a (session, epoch) pair,
and `context`, `fifoFrom` and the blocks carry the set of origins that influenced
them – through the input block, the model's recurrent state, or what was left in
the output FIFO. Sample counts are kept (`fifoCount`, `result`) in units.

Simplifications, all in favour of more behaviour or of states nobody can tell
apart: the two loads of the entry test of `setEpoch` and `processBlock` are one
step (stalling after it covers the other outcomes); `setEpoch`'s discard and its
wake-up are one step (the worker neither reads that queue nor misses an early
signal); a discard by `prepare` while the render thread is in `pop` is modelled
as far as the late store of the read index (`hand.discarded`, `Wrapped`), and
`popRaced` remembers it – what a copy torn by such a race contains is not
modelled; the worker's second look at `failed` after it has taken a block
(`dpdfnet_processor.cpp:241`) is left out because the worker alone sets it; the
smoke tests' fault injection and the statistics counters are left out.

`Status` and `Call` map the state to `OneCaller`. A call has left the abstract
session when its outcome is decided: `prepare()` at the test of `failed` after its
wait, a stop that gives the worker up at that store.

### DenoisePipeline

`process()` reads the three settings atoms one after the other (`ReadNr`,
`ReadBackend`, `ApplySettings`) and the processor's state again at `CheckReady`,
`CallProcessBlock` and `FailedBlock`, so the UI thread can act between any two.
`Sync(t)` is `syncDspAtomsFromConfig` and the `requestDenoiseReset` after it, for
the UI thread and, at start, for the bridge thread, which reads the shared
configuration setting by setting. Sample processing (high pass, compressor,
gain, limiter, resampler) is left out: a block is the stage it came out of.

`PrepareStep(t)` and `ReleaseStep(t)` are the steps of `DpdfnetSession`; `syncPc[t]`
names the place (`callPlace`). `statusText`, `denoiseName` and `denoiseStatusColor`
are what the settings page makes of the atoms; they are operators, because a timer
recomputes them, and the page's own controls are the parameter `page`.

`job[t]` is what thread *t*'s synchronisation is about, `job[t].alone` whether
the other thread has stayed out of it; `crossed` remembers that two
synchronisations have ever overlapped. Only the properties read these two.

### MicUsageMonitor

`Monitor` is the monitor thread: `init` (which fails open, or listens and
enumerates), then the passes of `reconcile` – drain the queued sessions, refresh
and process each observer, clean up, evaluate – and `shutdown`. `monitor` is one
record with its place, the loop it is in and the locals of the functions it is
in. `Callback(s)` are Windows' threads: `OnSessionCreated`, and `applyState` in
its three stores (`m_state`, `m_sawActive`, `m_pendingSource`), which the monitor
thread performs too and consumes in two. What is done under `m_sessionsMutex` is
one step; whether sessions exist, record or expire is Windows' (`CreateSession`,
`ChangeState`), and their callbacks may come any time later. The pending source
is a flag: its values only differ in the log. The wake event only shortens the
wait, and a wait may end at any time here. A session that expires and one that
disconnects are the same to the monitor. `quiet` is the time the gate has been
without a reason to be open, which `GraceRespected` compares with the deadline.

### AudioBridge

`pc` is the bridge thread's place: `init`, `app`, `forward`, `verify` are the
steps of `adb.init`, `setupAudioSource` and `verifyForward` – one step per adb
command, because the phone may go or come between two – called for the set-up or
by `recoverAdb` (`job`); `outer`, `failed`, `refresh`, `idleVerify`, `quick` belong
to the outer loop, `wait`, `gate`, `push` to the inner one, `left` to the code after
it. Every adb
command may fail for its reason (device offline, forward gone) or without one
(`CommandFails`: a time-out). What `recoverAdb`'s callers do to a counter after it
is done before: nobody reads it in between.

The phone is the environment: devices go offline and come back, the app dies or
falls silent, scrcpy takes the forward away. adb accepts a connection to an app
that does not listen and closes it (`ClosedLink`), which is what the count of
quick disconnects is for. The user's and the monitor's settings change at any
time; how the monitor decides is `MicUsageMonitor`'s business.

Delays are not counted: a poll or health check may come at any time, so the
back-off of `pollAdbLost` appears as "later". The age of a connection (3 s) is a
flag that may turn with every wait or block and has turned after `StaleLimit`
waits or `IdleLimit` blocks. Tray icon, bridge status, streaming flags and
statistics are only displayed and left out. The ring is not here: the reset at the
gate, the trim and the push meet the render thread between any two accesses, and are
`RenderRing`'s. `unannounced` remembers that a block was thrown away at the gate, or
the connection closed, since the last `requestDenoiseReset`.

### RenderRing

`Bridge` is what happens between two received blocks: `DiscardBlock` with
`ResetWrite` (the two stores of `reset()` at a closed gate), or `AcceptBlock`,
`Drop*` (the trim's `pop()`: the positions read, then the read position stored)
and `Push*`. `Render` is `renderThread`: `RenderWakes` and `PopBegin` read the two
positions, `PopCopy` the slot, `PopStore` stores the read position and plays. All
transfers are whole blocks and the capacity is a multiple of a block, so a
position counts blocks; blocks are numbered as they arrive, and `last`,
`replayed` remember what was played. `raced` says that a step of the bridge on
the read position has ever met a pop of the render thread, `met` that the last reset
has. `NewConnection` starts the bridge's count of discarded blocks again, which goes
round between `ResetEvery` and twice that. `Contents` is the sequence of blocks the
positions and slots stand for; by `RingIsFifo` a block appended, the trim, the reset
and the render thread's taking are the only steps that show.

`main` is where `main()` is: `init()` opens one object after the other (`held`) and
may fail at each, then the bridge and the render thread start; `Quit` clears
`running`, `JoinBridge`, `Stop`, `JoinRender` and `Destroy` are the way out, from
every place `init()` can fail at too. The device may fall silent or fail at any
time.

`render.data = 0` stands for a slot never written. The push's copy is not split:
`OneConsumer` says, and a theorem proves, that it never meets the slot being read.

### SettingsTransaction

A setting is in `file`, in `config`, in `atoms` (what the other threads read), in
`ui` (the control) and, for two of them, in the tray menu. `Show`, `Edit`,
`ResetToDefaults`, `Refresh`, `Cancel` and `Commit` are the window's messages.
`Refresh` fills the device list from what adb answers, and selects automatic
detection unless the answer names the configured device. The program may start with
any file it can have written, one with *(ADB not available)* as its device included.
`commit.at` is where `commitSettings` is: `save`, `registry`, `box` (the message
box, whose loop lets the tray menu run), `rollback`. `toggle` is a command of the
tray menu, with its save and, if that fails,
`rollbackRuntimeConfigToggle`. The twenty settings are represented by eight, one
per treatment: cleared if not listed, derived from another, previewed, with a
legacy default, on the page only, in the menu. `save()` is one step naming the key
it could not write; `Restart` – a crash, or the end and start of the program –
may come between any two keys of a save in progress (`Cut`). `load()` has the
defaults of both ages of the file.

`partial` remembers that the last save left a key unwritten; `overtaken` which
toggles were made inside the message box of a commit that is about to roll back.

### SettingsLayout

The tables and the metrics are the code's; `createPageContent` folds over sections
and rows as the code does, in design pixels, and `Placed` converts each widget as
`place()` does. The state is the window: created at the system's scale, grown
and placed in `WM_CREATE` (`Build`), cut to the work area (`Clamp`), moved to
monitors of other scales (`MoveTo`). The height of the tabs and frames and the
size Windows suggests in `WM_DPICHANGED` are external.

### Recorder

The app's main thread runs the activity and the service's callbacks one at a time
from `queue`; `onDestroy` is `Interrupt` (the flag), `Shutdown` (the socket),
`Join` and `Destroyed`, because the record thread runs meanwhile. The other
actions bear the places of `run()`. The client is the bridge behind
`adb forward`: it connects, may stall and leave. `Kill` is `am force-stop`, or a
crash: everything is gone and may be started again.

## 3. The runs

| run | distinct states | shows |
|---|---|---|
| `TaggedBlockQueue` | 3 953 000 | `SlotExclusion`: the two copies never meet in a slot; `ImplementsFifo`: the refinement of `BlockFifo`, so nothing is lost, repeated, torn or discarded by mistake |
| `Dpdfnet` | 676 000 | no stale output, the session outlives its worker, `ImplementsSession`: the refinement of `OneCaller`; the first block of an epoch is kept; UI calls return whatever `Run()` does, a stopped worker exits if `Run()` returns |
| `PipelineSafety` | 2 554 000 | bounded silence, a settings page that is right about the last block and reports failures for cause, nothing left after RNNoise is committed, a change takes effect |
| `MonitorGate` | 302 000 | an active session keeps the gate open; it closes only after a whole grace period, and does close; sessions are found, pulses heard, stale answers repaired; nothing queued is left |
| `MonitorFailsOpen` | | *violated:* the gate a failed monitor opened does not stay open |
| `BridgeRecovery` | 583 000 | gaps announced; connections recover, idle and silent ones end, the thread ends |
| `BridgeFallback` | | *violated:* a device selected by fall-back is given up although it is online |
| `Settings` | 474 000 | file, memory, atomics, page and menu agree again; a crash leaves each setting old or new |
| `RingConsumers` | 511 000 | one consumer at a time: a FIFO queue, and a short one; no old audio after a reset that meets no pop; whatever collides, the ring runs dry again; the program ends on every path |
| `PlayedOnce` | | *violated:* the bridge's reset or trim under a pop brings blocks back |
| `PhoneRecorder` | 97 000 | the microphone is on only for a client; nothing is left of a destroyed service; `onDestroy` returns; a client is served |
| `Layout` | 16 000 | controls apart and pages fitting at every scale and after moves |

**Deadlock** is checked except where the modelled system really stops: the
ring when all blocks are received and the render thread has ended, the settings
and the layout when the bounded user has done his last thing, the phone when its
bounded starts and clients are used up. `DpdfnetProcessor`, `MicUsageMonitor` and
`AudioBridge` have an explicit `Ended` step.

**Bounds.** `MaxEpoch`, `MaxSessions`, `MaxJobs`, `MaxChanges`, `MaxCalls`,
`MaxFaults`, `MaxOps`, `MaxBlocks`, `MaxStarts`, `MaxClients` and `MaxMoves` are
the only caps in guards.

* *Queue*: 4 slots, two epochs and two payloads. It wraps, fills and empties while both
  threads are inside a call; payloads are told apart by identity only.
* *Processor*: queues of one, two epochs, two sessions: a block, its successor and a
  stale one of either kind meet. Blocks of 2 units, results of up to 3, a FIFO of
  5: remains shorter than a block, results shorter and longer than one, and the
  exact limit `MaxOutputSamples + BlockSamples` the code relies on. (Queues of two
  were checked before without the liveness properties.)
* *Pipeline*: both threads, two user operations (a load, and a change that races its
  effects); watchdog limits 2 and 1: they differ, and one is above 1.
* *Monitor*: one session with three events (created, changed, expired, or a failing
  `GetState`), a grace period of two ticks, one mode change: the gate looks only at
  the number of active sessions. Two sessions were checked too for the invariant of
  the proof (2.7 million states); the safety theorems hold for any number.
* *Bridge*: one device, present or not, and three faults, so that failures meet
  the recovery from others; limits 1 and 2, small; the thresholds of
  three failures are the code's own. The fall-back run needs two devices, no fault.
* *Ring*: five slots, the fewest the marks 3 and 2 of the code leave a choice in, a
  reset every 2 discarded blocks, six blocks: more than go round the ring once, with
  room for a trim and for a reset at each place. `PlayedOnce` is refuted with six
  slots and seven blocks.
* *Settings*: four actions and two faults: an edit, its commit, a toggle in its
  message box and a restart, with two of their writes failing.
* *Phone*: five starts or stops, three clients, three faults: two services in
  succession, with a client still waiting or stalled when the first ends.
* *Layout*: scales of 96 to 336 DPI, two of them not multiples of 24 so that
  every conversion rounds; two heights of frames and tabs; a work area that cuts
  the window and one that does not; two moves.

**Fairness.** Windows and Android schedule a runnable thread: weak fairness of
the steps a thread takes by itself, and nothing of the user, the devices and the
faults, whose number is bounded.

* *Processor*: `WorkerStep` and `UiStep`. The native `Run()` is not assumed to return;
  `WorkerStops` has that as its premise. Nothing is assumed of the render thread.
* *Pipeline*: `Render`, because WASAPI's event keeps the render thread calling
  `process` (silence included). Nothing is assumed of the synchronisations:
  `ChangeTakesEffect` speaks of those that have ended.
* *Monitor*: the monitor thread, the second half of a mode change, time, and the
  callbacks Windows owes. Failures of `GetState` are finite.
* *Bridge*: its own thread; `Recovers` and `StallNoticed` have as premise what the
  phone, the user and the audio device have to do. That a closed connection is
  found within 3 s of its opening is the flag `old` turning only with a wait or a
  block.
* *Ring*: both threads, and `main()` on its way out (`Shutdown`), which `ProgramEnds`
  is about; nothing makes the user quit. `Drains` gives up when the device stops.
* *Phone*: the service's and the thread's own steps (`Healthy`: `AudioRecord`
  delivers), and that a stalled client reads on or leaves – the bridge gives up a
  silent connection after 9 s (`StallNoticed`).

**Excuses.** `NoStaleOutput` excludes executions in which `prepare` has discarded
under a pop in flight (`popRaced`). `DropOnlySuperseded` excludes the block in
flight while a second `prepare` sets the requested epoch back to 1.
`ChangeTakesEffect` is given up if the worker fails, stalls, the user acts again
or the bridge publishes its own copy meanwhile. `RnnoiseUserPaysNothing` excludes
executions in which the two threads' synchronisations have overlapped (`crossed`),
and so does the part of `StatusIsTrue` about the session.
That property does not cover what the page says of blocks to come: *it will take effect
at the next audio block*, path *DPDFNet pending*, and the readiness that colour *armed*
stands for, all of which a worker that fails after its load belies, and *audio uses
RNNoise until it is ready*. *Off*, *RNNoise*, *disabled*, the idle colour and a green
RNNoise repeat the page's controls, and are claims about the sound only once the render
thread has taken the page's setting up (`TakenUp`): a page on RNNoise may say so for a
block of DPDFNet, or of none. A fallback reported while a load is about to end
(`LoadEnds`) or with load state *Ready* is excused (section 4). `ChangeTakesEffect`
accepts a degradation only if it came after the reset it asked for.
`RingIsFifo` and `RingShort` speak of executions without a collision (`raced`),
`OldAudioDropped` of a last reset that met no pop (`met`): earlier collisions, and a
render thread that stalls outside `pop()` or ends, are included. `CleanMeansSaved` lets
automatic detection stand for a configured device that is not listed (`Unlisted`).
`SavedIsConfig`
excludes what the code's own message gives up (`partial`) and the toggle in the
message box (`overtaken`). `TrayTruthful` needs an icon that was there at start.
`ControlsApart` needs a window made at its monitor's scale and a work area that
does not cut it. The races among these are listed in the next section.

## 4. The findings

Shown by runs:

1. After the monitor failed to start, the second `setDemandModeRuntime` with
   demand mode on – for instance, after the toggle to it, the rollback of an Always
   Hot toggle that could not be saved – closes the gate if it comes a grace period after the first.
   `main.cpp:160-162` and `ARCHITECTURE.md:202` promise an open gate until the
   program is restarted.
2. `adb.init` falls back to another device when the configured one is missing
   (`adb_control.cpp:241`); the idle health check, the test after a failed
   connection and `pollAdbLost` ask for the configured one and give the working
   device up for good.
3. `audioBridgeThread` resets the ring at a closed gate and pops from it in the
   trim while the render thread may be inside `pop()`; the late store of the read
   position brings blocks back, which are played twice. `ARCHITECTURE.md:21` calls
   the ring SPSC.

Met while modelling, without a run of their own:

* *Shutdown.* `ARCHITECTURE.md:132` says of a `Run()` that never returns that *"such a
  call remains a known shutdown limitation; the current implementation never detaches
  the worker before releasing its denoiser/DLL resources"*, and `CHANGELOG.md:100` that
  *"the implementation does not detach or forcibly terminate a thread holding
  DLL/session resources"*. The code waits for three seconds, detaches the worker
  (`dpdfnet_processor.cpp:353`) and leaves it, leaked, everything it uses (the guard at
  the top of `stopWorker` and of the destructor). So `UiReturns` holds for a `Run()` that
  never returns, and `WorkerHasSession` says why the detached thread is safe: the two
  texts describe an earlier state.
* *Processor.* `prepare()` (`dpdfnet_processor.cpp:434`) discards `outputQueue` on
  the UI thread while a render thread that passed the entry test earlier is still
  in `processBlock`; `tagged_block_queue.h:51` reserves the call for the consumer.
* *Pipeline.* `pipeline.h:34-36` says loading is called from the dialog, but
  `main.cpp:199` calls it from the bridge thread too, with nothing to keep the two
  apart. The bridge can overwrite what the dialog has published in between; and
  a release that crosses a load leaves a loaded session that the load state calls
  `NotLoaded`, and that no later commit releases.
* *Status text.* A worker that failed does not touch `dpdfnetLoadState`, so the page
  says *ready* (`settings_dialog.cpp:314`) where `CHANGELOG.md:111` promises
  *unavailable*; nor does `degradeDpdfnet` (`pipeline.h:272`), so `StatusIsTrue` makes
  no claim of the text that promises DPDFNet for the next block. A load retried with
  unchanged settings requests no reset, so the render thread keeps RNNoise although
  line 352 announces the next audio block. A render thread that has seen a session's
  end may store the degradation (`pipeline.h:282`) after another load has published its
  session: the page then shows *RNNoise fallback*, and the fallback's colour, over a
  session that serves, until the next change.
* *Settings.* The default configuration pairs preset 1 with the socket
  `audiosource` (`config.h:13`), which the preset's own rule
  (`settings_dialog.cpp:583`) never does. A device that is not listed is cleared
  from the configuration by the next commit (573): the window shows *Auto-detect* in its
  place, and no star. The same happens to a configured *(ADB not available)*, saved in an
  earlier session, when Refresh gets no answer from adb: the entry is in the list then,
  and *Auto-detect* is selected all the same (103-107, 1090). A toggle made in the message
  box of a failed commit is undone in the file, and only there, by the commit's
  rollback (687-705). A tray icon first added after Explorer's restart shows menu
  checks that were never set. `--serial`, `--host` and `--port` are parsed
  (`main.cpp:547-570`) and not used. The first save of a new file, cut before
  `DenoiseBackend`, is taken for a file of an older version (`config.cpp:84`).
* *Layout.* The window is created at the system's scale and `WM_CREATE` corrects
  its height only (`settings_dialog.cpp:1213`): on a monitor of a larger scale it is
  too narrow.
* *Bridge.* An app that hangs with an open socket is reconnected to every 9 s and
  never restarted. The blocks the trim drops, and those a full ring refuses
  (`main.cpp:472-482`), are gaps in the denoiser's stream for which no
  `requestDenoiseReset` is made, unlike those at the gate and between connections.
* *Phone.* A `read` that keeps returning 0 stays in the inner loop and ignores the
  interrupt (`RecordThread.java:60`); a start that arrives between the thread's
  interruption and the service's end is lost (`RecordService.java:90`); a failed
  bind leaves the service in the foreground without a thread
  (`RecordThread.java:36`).

## 5. The proofs

For every value of the constants, under the named assumptions only. Each is
proved as *Init implies, every action preserves, the property follows*, with one
step per action, and the last step by temporal logic. The assumptions are what the
code fixes statically: queues and blocks are not empty, and
`MaxOutputSamples + BlockSamples <= FifoCapacity` (`SizeAssumption`); the marks of
the ring are ordered and below its capacity (`RingAssumption`); the two watchdog
limits are positive and ordered (`WatchdogAssumption`); the synchronising threads
are the UI and perhaps the bridge (`ThreadAssumption`); sessions are finitely many
and the grace period is positive (`SessionsAssumption`, `GraceAssumption`); the
special values differ from the ordinary ones (`MissingAssumption`,
`PhoneAssumption`, `DeviceAssumption`, `LinkAssumption`, `SilenceAssumption`).

**`TaggedBlockQueueProofs`** – `SlotExclusion` and the refinement. Exclusion needs
to know that a push in progress still has its room (`PushKeepsRoom`: the consumer
only makes more) and a pop in progress its block (`PopHasBlock`: the producer only
adds), and that a discard's loaded index is still between the two
(`DiscardStaysInside`). The refinement needs besides that what has been copied so
far is what was to be copied (`PushCopied`, `PopCopied`). Then the publishing
stores map to the FIFO's actions and every other step to a stutter. The ring
arithmetic is in lemmas of its own: an index less than twice the capacity is
reduced by one turn at most.

**`DpdfnetProcessorProofs`**

* `TypeCorrect` – `TypeOK` is inductive by itself; the lemmas on `Pushed`,
  popping and `Wrapped` bound the queues.
* `LifetimeCorrect` – `WorkerHasSession` and `ReadyMeansSession`. Neither is
  inductive: that a worker has its session rests on where `stopWorker` is.
  `LifetimeInv` adds what the UI's place says about the worker
  (`WorkerMatchesUi`), that a worker only ends for the stop that waits for it
  (`ExitMatchesStop`), and that `ready` is only true of a live worker outside the
  part of the stop that has not yet cleared it again (`ReadyMeansWorker`).
* `FifoCorrect` – `FifoNeverOverflows` from `RemainderInv`: less than a block
  remains between two turns of the worker's loop. It follows from the sizes alone,
  so no run is spent on it beyond the type invariant.
* `OriginCorrect` – `NoStaleOutput` from `OriginInv`: queued blocks belong to the
  session and tell their origin, the worker's hand matches its epoch, and model
  and FIFO know nothing but the current stream while the worker serves.
* `DropCorrect` – the action property `DropOnlySuperseded` from `EpochInv`: no tag is
  ahead of the render thread's epoch, and none ahead of the requested one unless a
  second `prepare` has set that back (`Rewound`). A block of an epoch is only sent
  after the epoch was published, so a worker that finds another one requested
  holds a leftover. `FreshTakesNothing` is the base: before its first worker a
  processor takes no audio, so the first `prepare` rewinds nothing.
* `StopHeardCorrect` – the safety half of `WorkerStops`: a worker waiting without a
  time-out while a stop is requested has been signalled, or is about to be
  (`StopHeard`). That it then exits is liveness, and checked.
* `SessionCorrect` – the refinement `ImplementsSession`. `SessionStutters` disposes of
  every step that leaves the two flags, the session and the place of the call
  alone; `SessionStep` maps the rest one by one. The mapping holds because of
  `CallInv`: a worker that has not ended its warm-up is one `prepare()` waits for or
  takes back (so its publication is a `Publishes` or, after a failed warm-up, a
  stutter), and once `readyEvent` is set the worker has said *ready* or *failed*.

**`DenoisePipelineProofs`** – three invariants. `RenderInv` is kept by the render
thread whatever it reads, and the other threads do not touch its variables:
`Stages` (the place of a block says which backend is active, and that it is the
one published) gives `EffectiveIsTrue`, `Watchdog` (the counter is never below the
silent blocks, and acts at its limit) gives `SilenceBounded`. `SessionInv` is about
loading and releasing: a job that loads is about DPDFNet, the committed job is
about the configuration (`Jobs`), and – only while no two synchronisations have
overlapped – what the load state says of the session is so (`Uncrossed`): `NotLoaded`
means freed, `Failed` means that no session can serve, `Loading` that a thread loads.
That gives `RnnoiseUserPaysNothing` and, with `Stages`, `StatusIsTrue` (`SoundTold` and
`SessionTold` are its two halves); without `crossed` the
former is false, and that is the second divergence of section 4. A step of the
processor is one of `DpdfnetSession`, so the proof needs what those steps keep in
turn: `StepKeeps` says that only a load makes a session, that one freed or `Spent`
(it serves nobody and cannot begin to) stays so, and that a call without success
leaves none that serves. `PendingCorrect` is the safety half of `ChangeTakesEffect`
(`ChangePending`). Its invariant `PendingInv` says that nobody else synchronises during
an operation that is still `alone`, that the epoch seen is never ahead of the one
published, and that a ready session after such an operation is one the render thread
has chosen or will look at again (`Chosen`): a worker makes a session ready only for
a thread that waits for it, and there is none.

**`MicUsageMonitorProofs`** – `TrackerAgrees` (the count of active sessions is
the number of sessions tracked as active, which are observed sessions) is not
inductive: `Progress` adds that the session in the monitor's hand, and those it
has still to visit, are in its list. `Deadline` says that an active session leaves
no deadline and that a deadline counts quiet time down; it gives `ActiveKeepsOpen`
and, with the lemma that an evaluation closes the gate only when the deadline has
come, the action property `GraceRespected`. `PendingReleased` follows from
`m_stopping` being set before the queue is emptied. The cardinality of the set of
active sessions is followed by lemmas on adding and removing one. Four theorems are
the safety half of the monitor's liveness, what its fairness can rely on:
`FoundCorrect` (`NothingLost`: a session that exists is on one of the lists the
monitor works through; it needs that the notification is registered before the
enumeration and that an ended session stays ended), `PulseCorrect` (`PulseTaken`: a
pulse's flag is only taken by the step that opens the gate for it; `FlagTaken` and
`PulseOpens` are its two halves) and `ChangeCorrect` (`ChangeHandedOn`, inductive
with `FreshInv`: an observer no session has started is a new one, so a callback in
flight has one to raise the flag of), and `ModeCorrect` (`ModeTakesEffect`: every step
evaluates the gate for the mode there is, leaves gate, mode and count alone, or is a
mode call that is not over before its own evaluation).

**`AudioBridgeProofs`**, for every set of devices and all limits:

* `TypeCorrect` – the limits of the two failure counters are not inductive: that
  they stop at three needs `FailsEscalate`, which says that a counter at its limit
  is at the place that handles it, or adb is already given up.
* `GapsCorrect` – `GapsAnnounced`, from: a gap not yet announced exists only inside a
  connection that is idle, or one that is being left (`GapsInv`).
* `SocketCorrect` – `SocketServed` ties the socket to the places of the inner loop, and
  says that adb is only given up without one. It is inductive with the
  types: every way out of the inner loop closes the socket, and no `connect` overwrites
  an open one.

**`RenderRingProofs`** – `OneConsumer` from `~raced => NotRaced`: what is queued is
increasing and newer than what was played (`InOrder`), the block in the bridge's
hands is newer still (`Newest`), and what a thread has read of the positions is
still so (`RenderHolds`, `BridgeHolds`), which is what a second consumer breaks.
`Dropping` keeps the count of a trim positive. A lemma turns "occupied" (distance
from the read position) into the four cases of the ring's arithmetic.
`ShortCorrect` adds the fill to it: between trim and push the queue is at most what
is still to be dropped above the mark, hence `RingShort`. `OldAudioCorrect` rests on `Emptied`,
which does not assume `~raced`: after a reset no pop has met the two positions agree and
the render thread finds no block, and the bridge adds one only with its count at zero,
which `OldAudioDropped` excludes. `FifoCorrect` is the action
property `RingIsFifo`: the i-th oldest block is i - 1 slots from the read position
(`AtOccupied`), so a store of the read position takes the head of `Contents`
(`PopTakes`), one of the write position appends what the copy has left there
(`PushQueues`), and every other access touches no occupied slot (`SameQueue`).
`LifeCorrect` is
`DeviceOutlivesThreads`, from what each place of `main()` says about `held`,
`m_running`, the two threads and `joinable` (`Life`): every way to the destructor
has joined the render thread or never started it.

**`SettingsTransactionProofs`** – the five properties speak of a program at rest,
and say nothing in the middle of a commit; the invariant has to. `CallsInv` relates
what a commit or a toggle will go back to with the configuration. `FileInv` says
that a file no save has left half written holds, key by key, a value in play
(`FromPlay`): the configuration's, or that of a call in progress; from it come
`SavedIsConfig` and the action property `CrashKeepsOldOrNew`. `HeardInv` says the
snapshot is good enough to end a preview with (`PreviewGone`), `MenuInv` is
`TrayTruthful` also inside a call, `PageInv` is `CleanMeansSaved` likewise.

**`RecorderProofs`** – `MicOnlyForClient` and `NothingLeft`, from `SocketOwned` (an
open socket belongs to a thread past its bind) and `JoinedMeansEnded`
(`onDestroy` goes on only when the thread has ended). `StopHeardCorrect` and
`ClientHeldCorrect` are the safety halves of `DestroyReturns` and `ClientServed`, from
`HeardInv`: a thread past its bind has a socket until it closes it (`Bound`), so the
shutdown of a stop reaches a thread in `accept()` or on its way there, and one that
begins a turn after the flag goes to its end; a client waits only where a thread
accepts or is about to close.

Only model-checked: the liveness properties (fairness and `ENABLED` are out of
the prover's reach), and `SettingsLayout`, whose `ControlsApart` and `PageFits` are
statements about concrete tables, folded row by row. Every other invariant and
action property of the runs is a theorem. Proved and not in a run of their own: the
type invariants, `TrackerAgrees`, `FifoNeverOverflows`, `StopHeard` of the processor and of the
recorder, `EffectiveIsTrue`, `OneConsumer`, `DeviceOutlivesThreads`,
`NothingLost`, `PulseTaken`, `ChangeHandedOn`, `ModeTakesEffect`, `ChangePending`,
`ClientHeld` and `SocketServed`. Each was
checked by TLC on an instance like its module's run before it was proved.

## 6. Not modelled, and what is left

* *Sample arithmetic* – high pass, compressor, gain, limiter, resampler, noise
  gate: floating point, out of TLC's reach. In `pipeline.h` and `wasapi_output.cpp` the
  blocks are kept and their contents left out.
* *RNNoise and the sherpa-onnx library* – vendored; the second is a `Run()` that
  returns, or not, with a bounded amount of audio.
* *WASAPI set-up, device enumeration, resampling of formats* – a sequence of
  Win32 calls that succeed or fail as a whole.
* *Drawing, fonts, tooltips, theme, status texts, balloons* – no state that
  another part reads.
* *Paths and migration of old files, build, packaging, tests* – read as
  documentation.
* *The join of the monitor thread* – `main()` joins it after the bridge; that its loop
  ends is `MicUsageMonitor`'s, its place in `main()` is not in `RenderRing`.
* *The AudioRecord object* – created for each recording thread and never released by
  the code; `Recorder` has whether it records.
* *The data race on the configuration's strings* (`settings_dialog.cpp:706` against
  the bridge's copy) – a model of it is the C++ memory model, not this program.

Worth doing next: the wake event's handle, read before it is closed
(`dpdfnet_processor.cpp:362`), as two steps; a processor called by two threads,
compared with the steps `DenoisePipeline` gives it; liveness of the monitor with
two sessions.
