--------------------------- MODULE DenoisePipeline ---------------------------
(***************************************************************************)
(* dsp/pipeline.h with its two users: the WASAPI render thread, which      *)
(* calls process() for every 480-sample block, and the threads that call   *)
(* syncDspAtomsFromConfig() (main.cpp): the settings dialog on the UI      *)
(* thread and, once at start, the bridge thread.  They share atomics only. *)
(*                                                                         *)
(* The DpdfnetProcessor is reduced to what the pipeline can see of it: the *)
(* session of DpdfnetSession, and whether processBlock had a block.  The   *)
(* audio of a block is reduced to the stage it came out of.  What the      *)
(* settings page says of all this is computed from the atomics, by the     *)
(* operators at the end.                                                   *)
(***************************************************************************)
EXTENDS Integers, DpdfnetSession

CONSTANTS
  Threads,        \* callers of syncDspAtomsFromConfig: "ui", "bridge"
  WarmupBlocks,   \* DPDFNET_WARMUP_UNDERFLOW_BLOCKS
  SteadyBlocks,   \* DPDFNET_STEADY_UNDERFLOW_BLOCKS
  MaxJobs         \* bound: synchronisations of both threads together

ASSUME ThreadAssumption == Threads \in {{"ui"}, {"ui", "bridge"}}
ASSUME WatchdogAssumption ==
  WarmupBlocks \in Nat \ {0} /\ SteadyBlocks \in 1..WarmupBlocks
ASSUME JobAssumption == MaxJobs \in Nat

Backend == {"rnnoise", "dpdfnet"}
Setting == [nr : BOOLEAN, backend : Backend]
LoadState == {"NotLoaded", "Loading", "Ready", "Failed"}

VARIABLES
  nrEnabled, denoiseBackend, denoiseResetEpoch,          \* settings atoms
  dpdfnetAvailable, dpdfnetDegraded, dpdfnetLoadState,   \* status atoms
  denoiseEffectiveBackend,
  config,       \* the committed settings
  syncPc, job,  \* per thread: the settings operation in progress
  jobs,         \* synchronisations started so far
  crossed,      \* history: two of them have overlapped
  renderPc, seen,  \* process(): where it is, and the settings it has read
  m_nrActive, m_lastRequestedBackend, m_seenGlobalEpoch, m_activeBackend,
  m_dpdfnetSeenOutput, m_consecutiveDpdfnetUnderflows, m_dpdfnetDegraded,
  out,          \* what the last block became
  silentBlocks  \* silent blocks in a row since the last stream reset

settingAtoms == <<nrEnabled, denoiseBackend, denoiseResetEpoch>>
statusAtoms ==
  <<dpdfnetAvailable, dpdfnetDegraded, dpdfnetLoadState, denoiseEffectiveBackend>>
processorVars == <<status, loaded>>
jobVars == <<job, jobs, crossed>>
syncVars == <<config, syncPc, jobVars>>
watchdogVars ==
  <<m_dpdfnetSeenOutput, m_consecutiveDpdfnetUnderflows, m_dpdfnetDegraded>>
pipelineVars ==
  <<m_nrActive, m_lastRequestedBackend, m_seenGlobalEpoch, m_activeBackend, watchdogVars>>
blockVars == <<renderPc, seen, out, silentBlocks>>
vars == <<settingAtoms, statusAtoms, processorVars, syncVars, pipelineVars, blockVars>>

NoJob ==
  [nr |-> FALSE, backend |-> "rnnoise", committed |-> FALSE, reset |-> FALSE, alone |-> TRUE]

\* main() publishes the configuration, then WASAPIOutput::init() runs
\* DspPipeline::init(), which loads DPDFNet only if it is selected.
Init ==
  /\ config \in Setting
  /\ nrEnabled = config.nr
  /\ denoiseBackend = config.backend
  /\ denoiseResetEpoch = 1
  /\ \/ /\ config.backend = "dpdfnet"
        /\ status = "ready" /\ loaded = TRUE /\ dpdfnetLoadState = "Ready"
     \/ /\ config.backend = "dpdfnet"
        /\ \/ status \in {"none", "failed"} /\ loaded = FALSE
           \/ status = "abandoned" /\ loaded = TRUE
        /\ dpdfnetLoadState = "Failed"
     \/ /\ config.backend = "rnnoise"
        /\ status = "none" /\ loaded = FALSE /\ dpdfnetLoadState = "NotLoaded"
  /\ dpdfnetAvailable = (dpdfnetLoadState = "Ready")
  /\ dpdfnetDegraded = FALSE
  /\ m_nrActive = config.nr
  /\ m_activeBackend = IF config.nr THEN "rnnoise" ELSE "off"
  /\ denoiseEffectiveBackend = m_activeBackend
  /\ m_lastRequestedBackend = "unknown"
  /\ m_seenGlobalEpoch = 0
  /\ m_dpdfnetSeenOutput = FALSE
  /\ m_consecutiveDpdfnetUnderflows = 0
  /\ m_dpdfnetDegraded = FALSE
  /\ syncPc = [t \in Threads |-> IF t = "bridge" THEN "start" ELSE "idle"]
  /\ job = [t \in Threads |-> NoJob]
  /\ jobs = 0 /\ crossed = FALSE
  /\ renderPc = "idle"
  /\ seen = config
  /\ out = "none"
  /\ silentBlocks = 0

-----------------------------------------------------------------------------
(* The processor on its own: its worker fails, or ends its warm-up.        *)

\* Where a synchronisation is in the processor's prepare() or releaseSession().
callPlace(pc) ==
  CASE pc \in {"replacing", "loading", "warming"} -> pc
    [] pc \in {"undoing", "releasing"} -> "stopping"
    [] OTHER -> "none"

WorkerActs ==
  /\ Fails \/ \E t \in Threads : Publishes(callPlace(syncPc[t]))
  /\ UNCHANGED <<settingAtoms, statusAtoms, syncVars, pipelineVars, blockVars>>

-----------------------------------------------------------------------------
(* The render thread: process(samples).                                    *)

\* The block is finished: it came out of the given stage.
Finish(stage) ==
  /\ out' = stage
  /\ renderPc' = "idle"

ReadNr ==
  /\ renderPc = "idle"
  /\ seen' = [seen EXCEPT !.nr = nrEnabled]
  /\ renderPc' = "readBackend"
  /\ UNCHANGED <<settingAtoms, statusAtoms, processorVars, syncVars, pipelineVars,
                 out, silentBlocks>>

ReadBackend ==
  /\ renderPc = "readBackend"
  /\ seen' = [seen EXCEPT !.backend = denoiseBackend]
  /\ renderPc' = "apply"
  /\ UNCHANGED <<settingAtoms, statusAtoms, processorVars, syncVars, pipelineVars,
                 out, silentBlocks>>

settingsChanged ==
  \/ seen.nr # m_nrActive
  \/ seen.backend # m_lastRequestedBackend
  \/ denoiseResetEpoch # m_seenGlobalEpoch

\* resetDpdfnetWatchdog() has just cleared m_dpdfnetDegraded.
chooseEffectiveBackend(requested) ==
  IF requested = "dpdfnet" /\ isReady THEN "dpdfnet" ELSE "rnnoise"

resetDpdfnetWatchdog ==
  /\ m_dpdfnetSeenOutput' = FALSE
  /\ m_consecutiveDpdfnetUnderflows' = 0
  /\ m_dpdfnetDegraded' = FALSE
  /\ dpdfnetDegraded' = FALSE

\* The third setting is read; changed settings reset the stream and choose
\* the backend anew; then the block goes to the active backend.
ApplySettings ==
  /\ renderPc = "apply"
  /\ IF settingsChanged
       THEN /\ resetDpdfnetWatchdog
            /\ m_nrActive' = seen.nr
            /\ m_lastRequestedBackend' = seen.backend
            /\ m_seenGlobalEpoch' = denoiseResetEpoch
            /\ m_activeBackend' = IF seen.nr THEN chooseEffectiveBackend(seen.backend)
                                  ELSE "off"
            /\ denoiseEffectiveBackend' = m_activeBackend'
            /\ silentBlocks' = 0
       ELSE UNCHANGED <<pipelineVars, dpdfnetDegraded, denoiseEffectiveBackend, silentBlocks>>
  /\ renderPc' = IF ~seen.nr THEN "plain"
                 ELSE IF m_activeBackend' = "dpdfnet" THEN "checkReady" ELSE "rnnoise"
  /\ UNCHANGED <<settingAtoms, dpdfnetAvailable, dpdfnetLoadState, processorVars, syncVars,
                 seen, out>>

\* The block passes through RNNoise, or through no denoiser at all.
ProcessRnnoise ==
  /\ renderPc \in {"rnnoise", "plain"}
  /\ Finish(renderPc)
  /\ silentBlocks' = 0
  /\ UNCHANGED <<settingAtoms, statusAtoms, processorVars, syncVars, pipelineVars, seen>>

\* degradeDpdfnet(reason): whether the processor is ready is read first, the
\* atoms are stored after it.  Then the block falls through to RNNoise.
DegradeBegin == IF isReady THEN "degradeStalled" ELSE "degradeBroken"

Degrade_Unpublished ==
  /\ renderPc \in {"degradeStalled", "degradeBroken"}
  /\ m_dpdfnetDegraded' = TRUE
  /\ dpdfnetDegraded' = (renderPc = "degradeStalled")
  /\ dpdfnetAvailable' = (dpdfnetAvailable /\ renderPc = "degradeStalled")
  /\ m_activeBackend' = "rnnoise"
  /\ renderPc' = "rnnoise"
  /\ UNCHANGED <<settingAtoms, dpdfnetLoadState, denoiseEffectiveBackend, processorVars,
                 syncVars, m_nrActive, m_lastRequestedBackend, m_seenGlobalEpoch,
                 m_dpdfnetSeenOutput, m_consecutiveDpdfnetUnderflows, seen, out,
                 silentBlocks>>
Degrade ==
  /\ renderPc \in {"degradeStalled", "degradeBroken"}
  /\ m_dpdfnetDegraded' = TRUE
  /\ dpdfnetDegraded' = (renderPc = "degradeStalled")
  /\ dpdfnetAvailable' = (dpdfnetAvailable /\ renderPc = "degradeStalled")
  /\ m_activeBackend' = "rnnoise"
  /\ denoiseEffectiveBackend' = "rnnoise"
  /\ renderPc' = "rnnoise"
  /\ UNCHANGED <<settingAtoms, dpdfnetLoadState, processorVars, syncVars, m_nrActive,
                 m_lastRequestedBackend, m_seenGlobalEpoch, m_dpdfnetSeenOutput,
                 m_consecutiveDpdfnetUnderflows, seen, out, silentBlocks>>

\* Before each block: a processor that is not ready any more is given up.
CheckReady ==
  /\ renderPc = "checkReady"
  /\ renderPc' = IF isReady THEN "block" ELSE DegradeBegin
  /\ UNCHANGED <<settingAtoms, statusAtoms, processorVars, syncVars, pipelineVars, seen, out,
                 silentBlocks>>

\* processBlock() returns: with a block or, also when a worker is slow or
\* gone, without.
CallProcessBlock ==
  /\ renderPc = "block"
  /\ \/ isReady /\ renderPc' = "haveOutput"
     \/ renderPc' = "noOutput"
  /\ UNCHANGED <<settingAtoms, statusAtoms, processorVars, syncVars, pipelineVars, seen,
                 out, silentBlocks>>

\* The processor failed while it had the block.
FailedBlock ==
  /\ renderPc \in {"haveOutput", "noOutput"}
  /\ hasFailed
  /\ renderPc' = DegradeBegin
  /\ UNCHANGED <<settingAtoms, statusAtoms, processorVars, syncVars, pipelineVars, seen, out,
                 silentBlocks>>

DenoisedBlock ==
  /\ renderPc = "haveOutput"
  /\ ~hasFailed
  /\ m_dpdfnetSeenOutput' = TRUE
  /\ m_consecutiveDpdfnetUnderflows' = 0
  /\ Finish("dpdfnet")
  /\ silentBlocks' = 0
  /\ UNCHANGED <<settingAtoms, statusAtoms, processorVars, syncVars, m_nrActive,
                 m_lastRequestedBackend, m_seenGlobalEpoch, m_activeBackend,
                 m_dpdfnetDegraded, seen>>

\* recordDpdfnetUnderflow(): is this one underflow too many?
UnderflowLimit_WarmupOnly(underflows) == underflows > WarmupBlocks
UnderflowLimit(underflows) ==
  IF m_dpdfnetSeenOutput THEN underflows >= SteadyBlocks ELSE underflows > WarmupBlocks

MissingBlock ==
  /\ renderPc = "noOutput"
  /\ ~hasFailed
  /\ m_consecutiveDpdfnetUnderflows' = m_consecutiveDpdfnetUnderflows + 1
  /\ IF UnderflowLimit(m_consecutiveDpdfnetUnderflows')
       THEN /\ renderPc' = DegradeBegin
            /\ UNCHANGED <<out, silentBlocks>>
       ELSE /\ Finish("silence")
            /\ silentBlocks' = silentBlocks + 1
  /\ UNCHANGED <<settingAtoms, statusAtoms, processorVars, syncVars, m_nrActive,
                 m_lastRequestedBackend, m_seenGlobalEpoch, m_activeBackend,
                 m_dpdfnetSeenOutput, m_dpdfnetDegraded, seen>>

Render ==
  \/ ReadNr \/ ReadBackend \/ ApplySettings \/ ProcessRnnoise \/ CheckReady
  \/ Degrade \/ CallProcessBlock \/ FailedBlock \/ DenoisedBlock \/ MissingBlock

-----------------------------------------------------------------------------
(* The settings dialog starts an operation (settings_dialog.cpp), and the  *)
(* bridge thread its one synchronisation at start (main.cpp).              *)

Idle(t) == syncPc[t] \in {"start", "idle", "done"}

\* History: "alone", no other thread was synchronising, nor began to since, and
\* "crossed", two synchronisations have overlapped at some time.
Start(t, setting, committed, reset) ==
  /\ job' = [u \in Threads |->
               IF u = t THEN [nr |-> setting.nr, backend |-> setting.backend,
                              committed |-> committed, reset |-> reset,
                              alone |-> \A v \in Threads \ {t} : Idle(v)]
                        ELSE [job[u] EXCEPT !.alone = FALSE]]
  /\ crossed' = (crossed \/ \E v \in Threads \ {t} : ~Idle(v))
  /\ syncPc' = [syncPc EXCEPT ![t] = "nr"]

Published == [nr |-> nrEnabled, backend |-> denoiseBackend]

\* applyDspPreviewFromUi().
Preview(setting) ==
  /\ "ui" \in Threads /\ Idle("ui") /\ jobs < MaxJobs
  /\ Start("ui", setting, FALSE, setting # Published)
  /\ jobs' = jobs + 1
  /\ UNCHANGED <<settingAtoms, statusAtoms, processorVars, config, pipelineVars, blockVars>>

\* restoreDspPreviewFromSnapshot(): Cancel, and every commit that failed.
Restore ==
  /\ "ui" \in Threads /\ Idle("ui") /\ jobs < MaxJobs
  /\ Start("ui", config, FALSE, config # Published)
  /\ jobs' = jobs + 1
  /\ UNCHANGED <<settingAtoms, statusAtoms, processorVars, config, pipelineVars, blockVars>>

\* commitSettings(), once the file and the registry have been written.
Commit(setting) ==
  /\ "ui" \in Threads /\ Idle("ui") /\ jobs < MaxJobs
  /\ config' = setting
  /\ Start("ui", setting, TRUE, setting # config \/ dpdfnetDegraded)
  /\ jobs' = jobs + 1
  /\ UNCHANGED <<settingAtoms, statusAtoms, processorVars, pipelineVars, blockVars>>

\* audioBridgeThread() begins.  It synchronises from the configuration itself,
\* not from a copy, so it reads each setting just before it stores it.
BridgeSync ==
  /\ "bridge" \in Threads /\ syncPc["bridge"] = "start" /\ jobs < MaxJobs
  /\ Start("bridge", config, FALSE, FALSE)
  /\ jobs' = jobs + 1
  /\ UNCHANGED <<settingAtoms, statusAtoms, processorVars, config, pipelineVars, blockVars>>

BridgeReadsBackend ==
  /\ "bridge" \in Threads /\ syncPc["bridge"] = "readBackend"
  /\ job' = [job EXCEPT !["bridge"].backend = config.backend]
  /\ syncPc' = [syncPc EXCEPT !["bridge"] = "backend"]
  /\ UNCHANGED <<settingAtoms, statusAtoms, processorVars, config, jobs, crossed, pipelineVars,
                 blockVars>>

-----------------------------------------------------------------------------
(* syncDspAtomsFromConfig(cfg, committed), then requestDenoiseReset().     *)

GoTo(t, place) == syncPc' = [syncPc EXCEPT ![t] = place]

StoreNr(t) ==
  /\ syncPc[t] = "nr"
  /\ nrEnabled' = job[t].nr
  /\ GoTo(t, IF t = "bridge" THEN "readBackend" ELSE "backend")
  /\ UNCHANGED <<denoiseBackend, denoiseResetEpoch, statusAtoms, processorVars, config,
                 jobVars,
                 pipelineVars, blockVars>>

StoreBackend(t) ==
  /\ syncPc[t] = "backend"
  /\ denoiseBackend' = job[t].backend
  /\ GoTo(t, "session")
  /\ UNCHANGED <<nrEnabled, denoiseResetEpoch, statusAtoms, processorVars, config,
                 jobVars, pipelineVars, blockVars>>

\* setDpdfnetLoadState(state).
setDpdfnetLoadState(state) ==
  /\ dpdfnetLoadState' = state
  /\ dpdfnetAvailable' = (state = "Ready")

\* loadDpdfnetIfNeeded() finds the session ready, or nothing needs doing.
releaseNeeded_IfAvailable == dpdfnetAvailable
releaseNeeded == dpdfnetLoadState # "NotLoaded"

SessionKept(t) ==
  /\ syncPc[t] = "session"
  /\ IF job[t].backend = "dpdfnet" THEN isReady ELSE ~(job[t].committed /\ releaseNeeded)
  /\ GoTo(t, "reset")
  /\ UNCHANGED <<settingAtoms, statusAtoms, processorVars, config, jobVars, pipelineVars,
                 blockVars>>

LoadBegin(t) ==
  /\ syncPc[t] = "session"
  /\ job[t].backend = "dpdfnet"
  /\ ~isReady
  /\ setDpdfnetLoadState("Loading")
  /\ GoTo(t, "replacing")
  /\ UNCHANGED <<settingAtoms, dpdfnetDegraded, denoiseEffectiveBackend, processorVars,
                 config, jobVars, pipelineVars, blockVars>>

\* One step of the processor's prepare(), which ends with a session that is
\* ready or, refused, failed or undone again, without.
PrepareStep(t) ==
  /\ syncPc[t] \in {"replacing", "loading", "warming", "undoing"}
  /\ \E to \in Place :
       /\ Step(callPlace(syncPc[t]), to)
       /\ GoTo(t, CASE to = "none" -> IF syncPc[t] = "warming" THEN "loadReady" ELSE "loadFailed"
                    [] to = "stopping" -> "undoing"
                    [] OTHER -> to)
  /\ UNCHANGED <<settingAtoms, statusAtoms, config, jobVars, pipelineVars, blockVars>>

LoadEnd(t) ==
  /\ syncPc[t] \in {"loadReady", "loadFailed"}
  /\ setDpdfnetLoadState(IF syncPc[t] = "loadReady" THEN "Ready" ELSE "Failed")
  /\ GoTo(t, "reset")
  /\ UNCHANGED <<settingAtoms, dpdfnetDegraded, denoiseEffectiveBackend, processorVars,
                 config, jobVars, pipelineVars, blockVars>>

\* releaseDpdfnet(): the worker stops, or is abandoned with its session.
ReleaseBegin(t) ==
  /\ syncPc[t] = "session"
  /\ job[t].backend = "rnnoise" /\ job[t].committed /\ releaseNeeded
  /\ GoTo(t, "releasing")
  /\ UNCHANGED <<settingAtoms, statusAtoms, processorVars, config, jobVars, pipelineVars,
                 blockVars>>

ReleaseStep(t) ==
  /\ syncPc[t] = "releasing"
  /\ \E to \in Place :
       /\ Step("stopping", to)
       /\ GoTo(t, IF to = "none" THEN "released" ELSE "releasing")
  /\ UNCHANGED <<settingAtoms, statusAtoms, config, jobVars, pipelineVars, blockVars>>

ReleaseEnd(t) ==
  /\ syncPc[t] = "released"
  /\ setDpdfnetLoadState(IF status = "abandoned" THEN "Failed" ELSE "NotLoaded")
  /\ GoTo(t, "reset")
  /\ UNCHANGED <<settingAtoms, dpdfnetDegraded, denoiseEffectiveBackend, processorVars,
                 config, jobVars, pipelineVars, blockVars>>

RequestReset_Forgotten(t) ==
  /\ syncPc[t] = "reset"
  /\ GoTo(t, "done")
  /\ UNCHANGED <<settingAtoms, statusAtoms, processorVars, config, jobVars,
                 pipelineVars, blockVars>>

RequestReset(t) ==
  /\ syncPc[t] = "reset"
  /\ denoiseResetEpoch' = IF job[t].reset THEN denoiseResetEpoch + 1 ELSE denoiseResetEpoch
  /\ GoTo(t, "done")
  /\ UNCHANGED <<nrEnabled, denoiseBackend, statusAtoms, processorVars, config,
                 jobVars, pipelineVars, blockVars>>

Sync(t) ==
  \/ StoreNr(t) \/ StoreBackend(t) \/ SessionKept(t)
  \/ LoadBegin(t) \/ PrepareStep(t) \/ LoadEnd(t)
  \/ ReleaseBegin(t) \/ ReleaseStep(t) \/ ReleaseEnd(t) \/ RequestReset(t)

UserActs == Restore \/ (\E s \in Setting : Preview(s) \/ Commit(s))

Next ==
  \/ Render
  \/ \E t \in Threads : Sync(t)
  \/ BridgeSync
  \/ BridgeReadsBackend
  \/ UserActs
  \/ WorkerActs

Spec == Init /\ [][Next]_vars

\* Audio keeps arriving, so process() is called again and again.  Nothing is
\* assumed of the operations: the property is about those that have ended.
FairSpec == Spec /\ WF_vars(Render)

-----------------------------------------------------------------------------
(* What the settings page shows (settings_dialog.cpp).  A timer and every  *)
(* change of a control repeat it from the atomics; page is the setting its *)
(* checkbox and its backend list show.  The texts are named, not spelled.  *)

dpdfnetNotReadyText ==
  CASE dpdfnetLoadState = "Loading" -> "loading"
    [] dpdfnetLoadState = "Failed" -> "unavailable"
    [] dpdfnetLoadState = "NotLoaded" -> "notLoaded"
    [] dpdfnetLoadState = "Ready" -> "nextBlock"

readyText == IF dpdfnetAvailable THEN "nextBlock" ELSE dpdfnetNotReadyText

\* updateDenoiseBackendUi(): the status line.
rnnoiseText ==
  IF denoiseBackend = "rnnoise" /\ denoiseEffectiveBackend = "rnnoise" THEN "rnnoiseActive"
  ELSE "nextBlock"
dpdfnetText ==
  CASE denoiseBackend # "dpdfnet" -> readyText
    [] denoiseBackend = "dpdfnet" /\ dpdfnetDegraded -> "degraded"
    [] OTHER -> IF dpdfnetAvailable /\ denoiseEffectiveBackend = "dpdfnet" THEN "dpdfnetActive"
                ELSE readyText
statusText(page) ==
  IF ~nrEnabled THEN "disabled"
  ELSE IF page.backend = "rnnoise" THEN rnnoiseText ELSE dpdfnetText

fallback == dpdfnetDegraded \/ ~dpdfnetAvailable

\* updateProcessingChainUi(): the denoiser in the path, and denoiseStatusColor().
denoiseName(page) ==
  CASE ~page.nr -> "Off"
    [] page.nr /\ page.backend = "rnnoise" -> "RNNoise"
    [] OTHER -> IF fallback THEN "RNNoiseFallback"
                ELSE IF denoiseEffectiveBackend = "dpdfnet" THEN "DPDFNet" ELSE "DPDFNetPending"

denoiseStatusColor(page) ==
  CASE ~page.nr -> "idle"
    [] page.nr /\ page.backend = "dpdfnet" /\ fallback -> "degraded"
    [] OTHER -> IF page.backend = "dpdfnet" <=> denoiseEffectiveBackend = "dpdfnet"
                THEN "streaming" ELSE "armed"

-----------------------------------------------------------------------------
(* Properties.                                                             *)

TypeOK ==
  /\ nrEnabled \in BOOLEAN /\ denoiseBackend \in Backend /\ denoiseResetEpoch \in Nat
  /\ dpdfnetAvailable \in BOOLEAN /\ dpdfnetDegraded \in BOOLEAN
  /\ dpdfnetLoadState \in LoadState
  /\ denoiseEffectiveBackend \in Backend \cup {"off"}
  /\ status \in Status /\ loaded \in BOOLEAN
  /\ config \in Setting /\ jobs \in 0..MaxJobs /\ crossed \in BOOLEAN
  /\ syncPc \in [Threads -> {"start", "idle", "nr", "readBackend", "backend", "session",
                             "replacing", "loading", "warming", "undoing", "loadReady",
                             "loadFailed", "releasing", "released", "reset", "done"}]
  /\ job \in [Threads -> [nr : BOOLEAN, backend : Backend, committed : BOOLEAN,
                          reset : BOOLEAN, alone : BOOLEAN]]
  /\ renderPc \in {"idle", "readBackend", "apply", "plain", "rnnoise", "checkReady",
                   "degradeStalled", "degradeBroken", "block", "haveOutput", "noOutput"}
  /\ seen \in Setting /\ m_nrActive \in BOOLEAN
  /\ m_lastRequestedBackend \in Backend \cup {"unknown"} /\ m_seenGlobalEpoch \in Nat
  /\ m_activeBackend \in Backend \cup {"off"}
  /\ m_dpdfnetSeenOutput \in BOOLEAN /\ m_dpdfnetDegraded \in BOOLEAN
  /\ m_consecutiveDpdfnetUnderflows \in 0..WarmupBlocks + 1
  /\ out \in {"none", "plain", "rnnoise", "dpdfnet", "silence"}
  /\ silentBlocks \in 0..WarmupBlocks + 1

\* A worker that produces nothing mutes the microphone for a bounded number
\* of blocks only: the warm-up after a stream reset, and less once the
\* stream has been heard, whatever the worker, the loader and the user do.
SilenceBounded ==
  /\ silentBlocks <= WarmupBlocks
  /\ m_dpdfnetSeenOutput => silentBlocks < SteadyBlocks

\* The backend the UI reads as effective is the one the render thread's last
\* finished block went through.
EffectiveIsTrue ==
  renderPc = "idle" =>
    /\ out = "rnnoise" => denoiseEffectiveBackend = "rnnoise"
    /\ out \in {"dpdfnet", "silence"} => denoiseEffectiveBackend = "dpdfnet"
    /\ out = "plain" => denoiseEffectiveBackend = "off"

\* What the last finished block came out of.
Heard ==
  IF out \in {"dpdfnet", "silence"} THEN "dpdfnet"
  ELSE IF out = "rnnoise" THEN "rnnoise" ELSE "off"

\* The page shows what is published, and the render thread has taken it up.
TakenUp(page) == page = Published /\ page = [nr |-> m_nrActive, backend |-> m_lastRequestedBackend]

\* What the page says of the sound, by status line, path or colour, is so of
\* the last finished block.  "Off", "RNNoise" and a green RNNoise repeat the
\* page's own controls: they are true of a page that is taken up, while any
\* page is right about DPDFNet.
SoundIsTold(page) ==
  /\ dpdfnetDegraded \/ statusText(page) \in {"rnnoiseActive", "degraded"} => Heard = "rnnoise"
  /\ statusText(page) = "dpdfnetActive" \/ denoiseName(page) = "DPDFNet" => Heard = "dpdfnet"
  /\ denoiseStatusColor(page) = "streaming" => (Heard = "dpdfnet" <=> page.backend = "dpdfnet")
  /\ denoiseStatusColor(page) = "armed" => Heard # page.backend
  /\ TakenUp(page) =>
       /\ \/ statusText(page) = "disabled" \/ denoiseName(page) = "Off"
          \/ denoiseStatusColor(page) = "idle"
          => Heard = "off"
       /\ denoiseName(page) = "RNNoise" => Heard = "rnnoise"
       /\ denoiseStatusColor(page) = "streaming" => Heard = page.backend

\* A session may be ready before the load that made it has published that, or
\* become ready while its load is undone.
LoadEnds == \E t \in Threads : syncPc[t] \in {"warming", "undoing", "loadReady"}

\* The page reports a fallback, in the path or by colour, or calls DPDFNet
\* unavailable or not loaded, only of a worker that stalled or when no session
\* can serve.  A fallback shown in load state "Ready" is not covered: a
\* degradation that read a session's end may store "not available" after a
\* load has published the next one.
SessionIsTold(page) ==
  /\ \/ denoiseName(page) = "RNNoiseFallback" \/ denoiseStatusColor(page) = "degraded"
     => dpdfnetDegraded \/ ~isReady \/ LoadEnds \/ dpdfnetLoadState = "Ready"
  /\ statusText(page) = "unavailable" => ~isReady
  /\ statusText(page) = "notLoaded" => ~loaded \/ status = "abandoned"

\* The page says nothing untrue of the sound, nor of the session behind it as
\* long as no two synchronisations have overlapped.  Not among the claims are
\* those about a block to come: "it will take effect at the next audio block",
\* path "DPDFNet pending" and the readiness that colour "armed" stands for, which
\* a worker that failed after its load belies, and "audio uses RNNoise until it
\* is ready", which the last block before a load and the first one after it may.
StatusIsTrue ==
  \A page \in Setting :
    /\ renderPc = "idle" /\ out # "none" => SoundIsTold(page)
    /\ ~crossed => SessionIsTold(page)

\* Committing RNNoise leaves no session behind, however the last one ended
\* (only a worker that would not stop keeps its memory).  A load of the bridge
\* thread that overlaps a commit is excused, from then on: it can end between
\* the release and the state "not loaded", which every later commit believes.
RnnoiseUserPaysNothing ==
  syncPc["ui"] = "done" /\ job["ui"].committed /\ ~crossed
    /\ job["ui"].backend = "rnnoise"
    => ~loaded \/ status = "abandoned"

\* The operation that asked for DPDFNet and for a stream reset has ended
\* with a session that can serve.
Promised ==
  /\ syncPc["ui"] = "done"
  /\ job["ui"].reset /\ job["ui"].nr /\ job["ui"].backend = "dpdfnet"
  /\ job["ui"].alone /\ nrEnabled /\ denoiseBackend = "dpdfnet"
  /\ isReady

\* What was promised is kept or still pending: the render thread has not seen the
\* reset, or chose by settings it had read before, and so chooses once more at a
\* next block; or it has chosen DPDFNet, and if that is over the watchdog ended
\* it.  It never settles for RNNoise by itself.
ChangePending ==
  Promised =>
    \/ denoiseResetEpoch # m_seenGlobalEpoch
    \/ m_lastRequestedBackend # "dpdfnet" \/ ~m_nrActive
    \/ denoiseEffectiveBackend = "dpdfnet" \/ m_dpdfnetDegraded

\* A change to DPDFNet, or a commit made while it was degraded, takes effect:
\* the load that follows the published backend does not get lost between
\* two blocks.  Excused are a new operation, the bridge thread publishing its
\* own settings meanwhile, and a worker that fails or stalls once more: a
\* degradation from before the reset does not count.
ChangeTakesEffect ==
  Promised ~> \/ denoiseEffectiveBackend = "dpdfnet"
              \/ ~Promised
              \/ m_dpdfnetDegraded /\ m_seenGlobalEpoch = denoiseResetEpoch
=============================================================================
