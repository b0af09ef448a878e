----------------------- MODULE DenoisePipelineProofs -----------------------
(***************************************************************************)
(* Proofs about DenoisePipeline, for every pair of watchdog limits and any *)
(* number of synchronisations: the silence is bounded, the backend shown   *)
(* is the one in use, a committed RNNoise frees the session, and a change  *)
(* to DPDFNet does not get lost.                                           *)
(*                                                                         *)
(* The first two rest on the render thread alone (RenderInv): the stage of *)
(* a block follows the active backend, and while DPDFNet is active the     *)
(* underflows are below their limit.  The third (SessionInv) says what the *)
(* published load state lets a thread conclude about the session.          *)
(***************************************************************************)
EXTENDS DenoisePipeline, TLAPS

Places == {"start", "idle", "nr", "readBackend", "backend", "session", "replacing", "loading",
           "warming", "undoing", "loadReady", "loadFailed", "releasing", "released", "reset",
           "done"}
Job == [nr : BOOLEAN, backend : Backend, committed : BOOLEAN, reset : BOOLEAN, alone : BOOLEAN]

SharedTypes ==
  /\ nrEnabled \in BOOLEAN /\ denoiseBackend \in Backend /\ denoiseResetEpoch \in Nat
  /\ dpdfnetAvailable \in BOOLEAN /\ dpdfnetDegraded \in BOOLEAN
  /\ dpdfnetLoadState \in LoadState
  /\ status \in Status /\ loaded \in BOOLEAN

SyncTypes ==
  /\ config \in Setting /\ jobs \in 0..MaxJobs /\ crossed \in BOOLEAN
  /\ syncPc \in [Threads -> Places]
  /\ job \in [Threads -> Job]

RenderTypes ==
  /\ denoiseEffectiveBackend \in Backend \cup {"off"}
  /\ renderPc \in {"idle", "readBackend", "apply", "plain", "rnnoise", "checkReady",
                   "degradeStalled", "degradeBroken", "block", "haveOutput", "noOutput"}
  /\ seen \in Setting /\ m_nrActive \in BOOLEAN
  /\ m_lastRequestedBackend \in Backend \cup {"unknown"} /\ m_seenGlobalEpoch \in Nat
  /\ m_activeBackend \in Backend \cup {"off"}
  /\ m_dpdfnetSeenOutput \in BOOLEAN /\ m_dpdfnetDegraded \in BOOLEAN
  /\ m_consecutiveDpdfnetUnderflows \in 0..WarmupBlocks + 1
  /\ out \in {"none", "plain", "rnnoise", "dpdfnet", "silence"}
  /\ silentBlocks \in 0..WarmupBlocks + 1

\* The types in the three groups the threads change.
LEMMA TypeParts == TypeOK <=> SharedTypes /\ SyncTypes /\ RenderTypes
BY DEF TypeOK, SharedTypes, SyncTypes, RenderTypes, Places, Job

Degrading == renderPc \in {"degradeStalled", "degradeBroken"}

\* Where a block is says which backend is active, and that one is published.
Stages ==
  /\ renderPc = "plain" => m_activeBackend = "off"
  /\ renderPc = "rnnoise" => m_activeBackend = "rnnoise"
  /\ Degrading \/ renderPc \in {"checkReady", "block", "haveOutput", "noOutput"}
       => m_activeBackend = "dpdfnet"
  /\ m_nrActive <=> m_activeBackend # "off"
  /\ m_lastRequestedBackend # "dpdfnet" => m_activeBackend # "dpdfnet"
  /\ denoiseEffectiveBackend = m_activeBackend
  /\ dpdfnetDegraded => m_activeBackend = "rnnoise"

\* The watchdog counts every silent block, and acts when it is at its limit.
Watchdog ==
  /\ silentBlocks <= m_consecutiveDpdfnetUnderflows
  /\ m_activeBackend = "dpdfnet" /\ ~Degrading
       => m_consecutiveDpdfnetUnderflows <= WarmupBlocks

Loading(t) ==
  syncPc[t] \in {"replacing", "loading", "warming", "undoing", "loadReady", "loadFailed"}
Freed == ~loaded \/ status = "abandoned"

\* No session serves, nor can one begin to by itself.
Spent == status # "ready" /\ ~(loaded /\ status = "none")

\* What a synchronisation is about.
Jobs ==
  /\ \A t \in Threads : Loading(t) => job[t].backend = "dpdfnet"
  /\ job["ui"].committed => job["ui"].backend = config.backend
  /\ \A t \in Threads : t # "ui" => ~job[t].committed

\* What the threads may conclude as long as they have never overlapped.
Uncrossed ==
  /\ \A t, u \in Threads : t = u \/ Idle(t) \/ Idle(u)
  /\ \A t \in Threads : t # "ui" /\ ~Idle(t) => job[t].backend = config.backend
  /\ \A t \in Threads : Loading(t) => dpdfnetLoadState = "Loading"
  /\ dpdfnetLoadState = "Loading" => \E t \in Threads : Loading(t)
  /\ dpdfnetLoadState = "NotLoaded" => Freed /\ Spent
  /\ dpdfnetLoadState = "Failed" => Spent
  /\ \A t \in Threads : syncPc[t] = "replacing" => status # "ready"
  /\ \A t \in Threads : syncPc[t] = "loading" => ~loaded /\ status = "none"
  /\ \A t \in Threads : syncPc[t] = "loadFailed" => Spent
  /\ \A t \in Threads : syncPc[t] = "released" => Freed /\ Spent
  /\ /\ job["ui"].committed /\ job["ui"].backend = "rnnoise"
     /\ syncPc["ui"] \in {"reset", "done"}
     => Freed

SessionInv == Jobs /\ (~crossed => Uncrossed)

RenderInv ==
  SharedTypes /\ RenderTypes /\ Stages /\ Watchdog /\ SilenceBounded /\ EffectiveIsTrue

-----------------------------------------------------------------------------
(* The render thread.                                                      *)

\* A step of the render thread keeps its invariant, whatever it reads.
LEMMA RenderKeeps == RenderInv /\ Render => RenderInv'
<1>. SUFFICES ASSUME RenderInv, Render PROVE RenderInv'
  OBVIOUS
<1>. USE WatchdogAssumption
     DEF WatchdogAssumption, RenderInv, Stages, Watchdog, Degrading, SilenceBounded,
         EffectiveIsTrue, settingAtoms, statusAtoms, processorVars, syncVars, jobVars,
         watchdogVars, pipelineVars, isReady, hasFailed
<1>1. CASE ReadNr \/ ReadBackend
  <2>1. seen' \in Setting
    BY <1>1 DEF ReadNr, ReadBackend, SharedTypes, RenderTypes, Setting
  <2>2. renderPc \in {"idle", "readBackend"} /\ renderPc' \in {"readBackend", "apply"}
    BY <1>1 DEF ReadNr, ReadBackend
  <2>3. UNCHANGED <<settingAtoms, statusAtoms, processorVars, pipelineVars, out, silentBlocks>>
    BY <1>1 DEF ReadNr, ReadBackend
  <2>. QED
    BY <2>1, <2>2, <2>3 DEF SharedTypes, RenderTypes
<1>2. CASE ApplySettings
  <2>1. SharedTypes' /\ UNCHANGED <<seen, out>>
    BY <1>2 DEF ApplySettings, SharedTypes, resetDpdfnetWatchdog
  <2>2. CASE settingsChanged
    <3>1. /\ m_dpdfnetSeenOutput' = FALSE /\ m_consecutiveDpdfnetUnderflows' = 0
          /\ m_dpdfnetDegraded' = FALSE /\ silentBlocks' = 0
          /\ m_nrActive' = seen.nr /\ m_lastRequestedBackend' = seen.backend
          /\ m_seenGlobalEpoch' = denoiseResetEpoch
          /\ seen.backend # "dpdfnet" => m_activeBackend' # "dpdfnet"
          /\ denoiseEffectiveBackend' = m_activeBackend' /\ dpdfnetDegraded' = FALSE
      BY <1>2, <2>2 DEF ApplySettings, resetDpdfnetWatchdog, chooseEffectiveBackend
    <3>2. /\ seen.nr => m_activeBackend' \in Backend
          /\ ~seen.nr => m_activeBackend' = "off"
      BY <1>2, <2>2 DEF ApplySettings, chooseEffectiveBackend, Backend
    <3>3. renderPc' = IF ~seen.nr THEN "plain"
                      ELSE IF m_activeBackend' = "dpdfnet" THEN "checkReady" ELSE "rnnoise"
      BY <1>2 DEF ApplySettings
    <3>4. seen.nr \in BOOLEAN /\ seen.backend \in Backend
      BY DEF RenderTypes, Setting
    <3>5. m_dpdfnetSeenOutput' \in BOOLEAN /\ m_dpdfnetDegraded' \in BOOLEAN
      BY <3>1
    <3>6. m_nrActive' \in BOOLEAN
      BY <3>1, <3>4
    <3>7. RenderTypes'
      BY <2>1, <3>1, <3>2, <3>3, <3>4, <3>5, <3>6 DEF RenderTypes, SharedTypes, Backend
    <3>. QED
      BY <2>1, <3>1, <3>2, <3>3, <3>4, <3>7 DEF Backend
  <2>3. CASE ~settingsChanged
    <3>1. UNCHANGED <<pipelineVars, dpdfnetDegraded, denoiseEffectiveBackend, silentBlocks>>
      BY <1>2, <2>3 DEF ApplySettings
    <3>2. seen.nr = m_nrActive
      BY <2>3 DEF settingsChanged
    <3>3. renderPc' = IF ~seen.nr THEN "plain"
                      ELSE IF m_activeBackend = "dpdfnet" THEN "checkReady" ELSE "rnnoise"
      BY <1>2, <3>1 DEF ApplySettings
    <3>4. renderPc = "apply"
      BY <1>2 DEF ApplySettings
    <3>. QED
      BY <2>1, <3>1, <3>2, <3>3, <3>4 DEF RenderTypes, Backend
  <2>. QED
    BY <2>2, <2>3
<1>3. CASE ProcessRnnoise
  BY <1>3 DEF ProcessRnnoise, Finish, SharedTypes, RenderTypes
<1>4. CASE CheckReady \/ FailedBlock
  BY <1>4 DEF CheckReady, FailedBlock, DegradeBegin, SharedTypes, RenderTypes
<1>5. CASE Degrade
  <2>1. dpdfnetDegraded' \in BOOLEAN
    BY <1>5 DEF Degrade
  <2>2. dpdfnetAvailable' \in BOOLEAN
    BY <1>5 DEF Degrade
  <2>3. m_dpdfnetDegraded' \in BOOLEAN
    BY <1>5 DEF Degrade
  <2>4. SharedTypes' /\ RenderTypes'
    BY <1>5, <2>1, <2>2, <2>3 DEF Degrade, SharedTypes, RenderTypes, Backend
  <2>. QED
    BY <1>5, <2>4 DEF Degrade, RenderTypes
<1>6. CASE CallProcessBlock
  BY <1>6 DEF CallProcessBlock, SharedTypes, RenderTypes
<1>7. CASE DenoisedBlock
  <2>1. m_dpdfnetSeenOutput' \in BOOLEAN
    BY <1>7 DEF DenoisedBlock
  <2>2. RenderTypes'
    BY <1>7, <2>1 DEF DenoisedBlock, Finish, RenderTypes
  <2>. QED
    BY <1>7, <2>2 DEF DenoisedBlock, Finish, SharedTypes, RenderTypes
<1>8. CASE MissingBlock
  <2>1. /\ renderPc = "noOutput"
        /\ m_consecutiveDpdfnetUnderflows' = m_consecutiveDpdfnetUnderflows + 1
        /\ m_consecutiveDpdfnetUnderflows' \in 0..WarmupBlocks + 1
        /\ UNCHANGED <<settingAtoms, statusAtoms, processorVars, m_nrActive,
                       m_lastRequestedBackend, m_seenGlobalEpoch, m_activeBackend,
                       m_dpdfnetSeenOutput, m_dpdfnetDegraded, seen>>
    BY <1>8 DEF MissingBlock, RenderTypes
  <2>2. CASE UnderflowLimit(m_consecutiveDpdfnetUnderflows')
    <3>1. Degrading' /\ UNCHANGED <<out, silentBlocks>>
      BY <1>8, <2>2 DEF MissingBlock, DegradeBegin
    <3>. QED
      BY <2>1, <3>1 DEF SharedTypes, RenderTypes
  <2>3. CASE ~UnderflowLimit(m_consecutiveDpdfnetUnderflows')
    <3>1. renderPc' = "idle" /\ out' = "silence" /\ silentBlocks' = silentBlocks + 1
      BY <1>8, <2>3 DEF MissingBlock, Finish
    <3>2. /\ m_consecutiveDpdfnetUnderflows' <= WarmupBlocks
          /\ m_dpdfnetSeenOutput => m_consecutiveDpdfnetUnderflows' < SteadyBlocks
      BY <2>1, <2>3 DEF UnderflowLimit, RenderTypes
    <3>. QED
      BY <2>1, <3>1, <3>2 DEF SharedTypes, RenderTypes
  <2>. QED
    BY <2>2, <2>3
<1>. QED
  BY <1>1, <1>2, <1>3, <1>4, <1>5, <1>6, <1>7, <1>8 DEF Render

\* The other threads touch neither the stream nor the watchdog.
LEMMA OthersKeepRender ==
  RenderInv /\ SharedTypes'
    /\ UNCHANGED <<pipelineVars, blockVars, denoiseEffectiveBackend, dpdfnetDegraded>>
    => RenderInv'
BY DEF RenderInv, RenderTypes, Stages, Watchdog, Degrading, SilenceBounded, EffectiveIsTrue,
       pipelineVars, blockVars, watchdogVars

-----------------------------------------------------------------------------
(* The threads that synchronise.                                           *)

\* Only the dialog and the bridge thread synchronise.
LEMMA ThreadCases == "ui" \in Threads /\ \A t \in Threads : t = "ui" \/ t = "bridge"
BY ThreadAssumption DEF ThreadAssumption

\* A synchronisation starts.
LEMMA StartTyped ==
  ASSUME SyncTypes, NEW t \in Threads, NEW setting \in Setting, NEW committed \in BOOLEAN,
         NEW reset \in BOOLEAN, Start(t, setting, committed, reset)
  PROVE  job' \in [Threads -> Job] /\ syncPc' \in [Threads -> Places] /\ crossed' \in BOOLEAN
<1>1. setting.nr \in BOOLEAN /\ setting.backend \in Backend
  BY DEF Setting
<1>2. ASSUME NEW u \in Threads PROVE [job[u] EXCEPT !.alone = FALSE] \in Job
  BY DEF SyncTypes, Job
<1>3. DEFINE alone == \A v \in Threads \ {t} : Idle(v)
<1>4. [nr |-> setting.nr, backend |-> setting.backend, committed |-> committed,
       reset |-> reset, alone |-> alone] \in Job
  <2>1. alone \in BOOLEAN
    OBVIOUS
  <2>. HIDE DEF alone
  <2>. QED
    BY <1>1, <2>1 DEF Job
<1>5. job' \in [Threads -> Job]
  BY <1>2, <1>4 DEF Start
<1>6. syncPc' \in [Threads -> Places]
  BY DEF Start, SyncTypes, Places
<1>7. crossed' \in BOOLEAN
  BY DEF Start
<1>. QED
  BY <1>5, <1>6, <1>7

\* One step of a call of the processor: only a load makes a session, and one that is freed or
\* spent stays so; a call that ends without success leaves none that serves.
LEMMA StepKeeps ==
  ASSUME status \in Status, loaded \in BOOLEAN, NEW from \in Place, NEW to \in Place,
         Step(from, to)
  PROVE  /\ status' \in Status /\ loaded' \in BOOLEAN
         /\ from # "loading" => (Freed => Freed') /\ (Spent => Spent')
         /\ from = "replacing" => to \in {"replacing", "loading", "none"}
         /\ from = "loading" => to \in {"warming", "stopping", "none"}
         /\ from = "warming" => to \in {"stopping", "none"}
         /\ from = "stopping" => to \in {"stopping", "none"}
         /\ to = "loading" => ~loaded' /\ status' = "none"
         /\ to = "none" /\ from \in {"replacing", "stopping"} => Freed' /\ Spent'
         /\ to = "none" /\ from = "loading" => UNCHANGED <<status, loaded>>
         /\ from = "replacing" /\ status # "ready" => status' # "ready"
<1>. USE DEF isReady, Status, Place, Freed, Spent
<1>1. CASE Withdraws(from, to)
  BY <1>1 DEF Withdraws
<1>2. CASE Frees(from, to)
  BY <1>2 DEF Frees
<1>3. CASE Abandons(from, to)
  BY <1>3 DEF Abandons
<1>4. CASE Clears(from, to)
  BY <1>4 DEF Clears
<1>5. CASE Loads(from, to)
  BY <1>5 DEF Loads
<1>6. CASE Undoes(from, to)
  BY <1>6 DEF Undoes
<1>7. CASE Refuses(from, to)
  BY <1>7 DEF Refuses
<1>8. CASE Succeeds(from, to)
  BY <1>8 DEF Succeeds
<1>9. CASE Stopped(from, to)
  BY <1>9 DEF Stopped
<1>. QED
  BY <1>1, <1>2, <1>3, <1>4, <1>5, <1>6, <1>7, <1>8, <1>9 DEF Step

\* One step of a synchronisation keeps the types.
LEMMA SyncTyped ==
  ASSUME SharedTypes, SyncTypes, NEW t \in Threads, Sync(t)
  PROVE  /\ SharedTypes' /\ SyncTypes'
         /\ UNCHANGED <<pipelineVars, blockVars, denoiseEffectiveBackend, dpdfnetDegraded>>
<1>. USE DEF settingAtoms, statusAtoms, processorVars, jobVars, GoTo
<1>1. job[t].nr \in BOOLEAN /\ job[t].backend \in Backend
  BY DEF SyncTypes, Job
<1>2. CASE StoreNr(t)
  <2>1. nrEnabled' \in BOOLEAN
    BY <1>1, <1>2 DEF StoreNr
  <2>. QED
    BY <1>2, <2>1 DEF StoreNr, SharedTypes, SyncTypes, Places
<1>3. CASE StoreBackend(t)
  BY <1>1, <1>3 DEF StoreBackend, SharedTypes, SyncTypes, Places
<1>4. CASE SessionKept(t)
  BY <1>4 DEF SessionKept, SharedTypes, SyncTypes, Places
<1>5. CASE LoadBegin(t)
  <2>1. dpdfnetAvailable' \in BOOLEAN /\ dpdfnetLoadState' \in LoadState
    BY <1>5 DEF LoadBegin, setDpdfnetLoadState, LoadState
  <2>. QED
    BY <1>5, <2>1 DEF LoadBegin, SharedTypes, SyncTypes, Places
<1>6. CASE PrepareStep(t) \/ ReleaseStep(t)
  <2>1. PICK from \in Place, to \in Place : Step(from, to)
    BY <1>6 DEF PrepareStep, ReleaseStep, callPlace, Place
  <2>2. status' \in Status /\ loaded' \in BOOLEAN
    BY <2>1, StepKeeps DEF SharedTypes
  <2>3. PICK place \in Places : syncPc' = [syncPc EXCEPT ![t] = place]
    BY <1>6 DEF PrepareStep, ReleaseStep, Place, Places
  <2>. QED
    BY <1>6, <2>2, <2>3 DEF PrepareStep, ReleaseStep, SharedTypes, SyncTypes
<1>8. CASE LoadEnd(t) \/ ReleaseEnd(t)
  <2>1. dpdfnetAvailable' \in BOOLEAN /\ dpdfnetLoadState' \in LoadState
    BY <1>8 DEF LoadEnd, ReleaseEnd, setDpdfnetLoadState, LoadState
  <2>2. syncPc' \in [Threads -> Places]
    BY <1>8 DEF LoadEnd, ReleaseEnd, SyncTypes, Places
  <2>. QED
    BY <1>8, <2>1, <2>2 DEF LoadEnd, ReleaseEnd, SharedTypes, SyncTypes
<1>7. CASE ReleaseBegin(t)
  BY <1>7 DEF ReleaseBegin, SharedTypes, SyncTypes, Places
<1>9. CASE RequestReset(t)
  BY <1>9 DEF RequestReset, SharedTypes, SyncTypes, Places
<1>. QED
  BY <1>2, <1>3, <1>4, <1>5, <1>6, <1>7, <1>8, <1>9 DEF Sync

\* So does starting one.
LEMMA ActsTyped ==
  ASSUME SharedTypes, SyncTypes, UserActs \/ BridgeSync
  PROVE  /\ SharedTypes' /\ SyncTypes'
         /\ UNCHANGED <<pipelineVars, blockVars, denoiseEffectiveBackend, dpdfnetDegraded>>
<1>. USE DEF settingAtoms, statusAtoms, processorVars
<1>0. config \in Setting /\ Published \in Setting
  BY DEF SharedTypes, SyncTypes, Published, Setting
<1>1. jobs' \in 0..MaxJobs
  <2>1. jobs < MaxJobs /\ jobs' = jobs + 1
    BY DEF UserActs, Preview, Restore, Commit, BridgeSync
  <2>. QED
    BY <2>1, JobAssumption DEF JobAssumption, SyncTypes
<1>2. /\ SharedTypes'
      /\ UNCHANGED <<pipelineVars, blockVars, denoiseEffectiveBackend, dpdfnetDegraded>>
  BY DEF UserActs, Preview, Restore, Commit, BridgeSync, SharedTypes
<1>3. config' \in Setting
  BY <1>0 DEF UserActs, Preview, Restore, Commit, BridgeSync
<1>4. CASE \E s \in Setting : Preview(s)
  <2>1. PICK s \in Setting : Preview(s)
    BY <1>4
  <2>2. (s # Published) \in BOOLEAN
    OBVIOUS
  <2>. QED
    BY <1>1, <1>2, <1>3, <2>1, <2>2, StartTyped DEF Preview, SyncTypes
<1>5. CASE Restore
  <2>1. (config # Published) \in BOOLEAN
    OBVIOUS
  <2>. QED
    BY <1>0, <1>1, <1>2, <1>3, <1>5, <2>1, StartTyped DEF Restore, SyncTypes
<1>6. CASE \E s \in Setting : Commit(s)
  <2>1. PICK s \in Setting : Commit(s)
    BY <1>6
  <2>2. (s # config \/ dpdfnetDegraded) \in BOOLEAN
    OBVIOUS
  <2>. QED
    BY <1>1, <1>2, <1>3, <2>1, <2>2, StartTyped DEF Commit, SyncTypes
<1>7. CASE BridgeSync
  BY <1>0, <1>1, <1>2, <1>3, <1>7, StartTyped DEF BridgeSync, SyncTypes
<1>. QED
  BY <1>4, <1>5, <1>6, <1>7 DEF UserActs

\* The bridge thread reads the setting it is about to store; the worker fails, or is ready.
LEMMA RestTyped ==
  ASSUME SharedTypes, SyncTypes, BridgeReadsBackend \/ WorkerActs
  PROVE  /\ SharedTypes' /\ SyncTypes'
         /\ UNCHANGED <<pipelineVars, blockVars, denoiseEffectiveBackend, dpdfnetDegraded>>
<1>. USE DEF settingAtoms, statusAtoms, processorVars, syncVars, jobVars
<1>1. CASE BridgeReadsBackend
  <2>1. config.backend \in Backend
    BY DEF SyncTypes, Setting
  <2>2. job' \in [Threads -> Job]
    BY <1>1, <2>1 DEF BridgeReadsBackend, SyncTypes, Job
  <2>. QED
    BY <1>1, <2>2 DEF BridgeReadsBackend, SharedTypes, SyncTypes, Places
<1>2. CASE WorkerActs
  <2>1. status' \in Status /\ UNCHANGED loaded
    BY <1>2 DEF WorkerActs, Fails, Publishes, Status
  <2>. QED
    BY <1>2, <2>1 DEF WorkerActs, SharedTypes, SyncTypes
<1>. QED
  BY <1>1, <1>2

-----------------------------------------------------------------------------
(* The session.                                                            *)

\* One step of a synchronisation keeps what the load state says true.
LEMMA SyncKeepsSession ==
  ASSUME SharedTypes, SyncTypes, SessionInv, NEW t \in Threads, Sync(t)
  PROVE  SessionInv'
<1>. USE ThreadCases
     DEF SessionInv, Jobs, Loading, Freed, Spent, Idle, GoTo, jobVars, processorVars, statusAtoms,
         settingAtoms
<1>0. /\ \A u \in Threads : syncPc[u] \in Places /\ job[u] \in Job
      /\ syncPc \in [Threads -> Places]
      /\ UNCHANGED <<job, crossed, config>>
  BY DEF SyncTypes, Sync, StoreNr, StoreBackend, SessionKept, LoadBegin, PrepareStep,
         LoadEnd, ReleaseBegin, ReleaseStep, ReleaseEnd, RequestReset
<1>1. CASE StoreNr(t) \/ StoreBackend(t)
  <2>1. /\ \E place \in {"readBackend", "backend", "session"} :
              syncPc' = [syncPc EXCEPT ![t] = place]
        /\ syncPc[t] \in {"nr", "backend"} /\ UNCHANGED <<dpdfnetLoadState, loaded, status>>
    BY <1>1 DEF StoreNr, StoreBackend
  <2>2. Jobs'
    BY <1>0, <2>1
  <2>3. ~crossed' => Uncrossed'
    BY <1>0, <2>1 DEF Uncrossed
  <2>. QED
    BY <2>2, <2>3
<1>2. CASE SessionKept(t)
  <2>1. /\ syncPc[t] = "session" /\ syncPc' = [syncPc EXCEPT ![t] = "reset"]
        /\ UNCHANGED <<dpdfnetLoadState, loaded, status>>
        /\ job[t].backend # "dpdfnet" /\ job[t].committed => dpdfnetLoadState = "NotLoaded"
    BY <1>2 DEF SessionKept, releaseNeeded
  <2>2. Jobs'
    BY <1>0, <2>1
  <2>3. ~crossed' => Uncrossed'
    BY <1>0, <2>1 DEF Uncrossed
  <2>. QED
    BY <2>2, <2>3
<1>3. CASE LoadBegin(t)
  <2>1. /\ syncPc[t] = "session" /\ syncPc' = [syncPc EXCEPT ![t] = "replacing"]
        /\ dpdfnetLoadState' = "Loading" /\ job[t].backend = "dpdfnet" /\ status # "ready"
        /\ UNCHANGED <<loaded, status>>
    BY <1>3 DEF LoadBegin, setDpdfnetLoadState, isReady
  <2>2. Jobs'
    BY <1>0, <2>1
  <2>3. ~crossed' => Uncrossed'
    BY <1>0, <2>1 DEF Uncrossed
  <2>. QED
    BY <2>2, <2>3
<1>4. CASE PrepareStep(t)
  <2>1. PICK to \in Place :
          /\ Step(callPlace(syncPc[t]), to)
          /\ syncPc' = [syncPc EXCEPT
               ![t] = CASE to = "none" -> IF syncPc[t] = "warming" THEN "loadReady"
                                          ELSE "loadFailed"
                        [] to = "stopping" -> "undoing"
                        [] OTHER -> to]
    BY <1>4 DEF PrepareStep
  <2>2. /\ syncPc[t] \in {"replacing", "loading", "warming", "undoing"}
        /\ UNCHANGED dpdfnetLoadState
    BY <1>4 DEF PrepareStep
  <2>3. PICK from \in Place : from = callPlace(syncPc[t])
    BY <2>2 DEF callPlace, Place
  <2>4. /\ syncPc[t] = "replacing" <=> from = "replacing"
        /\ syncPc[t] = "loading" <=> from = "loading"
        /\ syncPc[t] = "warming" <=> from = "warming"
        /\ syncPc[t] = "undoing" <=> from = "stopping"
    BY <2>2, <2>3 DEF callPlace
  <2>5. /\ syncPc'[t] \in {"replacing", "loading", "warming", "undoing", "loadReady", "loadFailed"}
        /\ syncPc'[t] = "replacing" => syncPc[t] = "replacing"
        /\ syncPc'[t] = "replacing" /\ status # "ready" => status' # "ready"
        /\ syncPc'[t] = "loading" => ~loaded' /\ status' = "none"
        /\ syncPc'[t] = "loadFailed" /\ syncPc[t] # "loading" => Spent'
        /\ syncPc'[t] = "loadFailed" /\ syncPc[t] = "loading" => UNCHANGED <<status, loaded>>
        /\ \A u \in Threads : u # t => syncPc'[u] = syncPc[u]
    <3>. HIDE DEF Spent, Freed
    <3>1. /\ from # "none"
          /\ from = "replacing" => to \in {"replacing", "loading", "none"}
          /\ from = "loading" => to \in {"warming", "stopping", "none"}
          /\ from = "warming" => to \in {"stopping", "none"}
          /\ from = "stopping" => to \in {"stopping", "none"}
          /\ to = "loading" => ~loaded' /\ status' = "none"
          /\ to = "none" /\ from \in {"replacing", "stopping"} => Spent'
          /\ to = "none" /\ from = "loading" => UNCHANGED <<status, loaded>>
          /\ from = "replacing" /\ status # "ready" => status' # "ready"
      BY <2>1, <2>2, <2>3, <2>4, StepKeeps DEF SharedTypes
    <3>. QED
      BY <1>0, <2>1, <2>2, <2>4, <3>1 DEF Place
  <2>6. Jobs'
    BY <1>0, <2>2, <2>5
  <2>7. ASSUME Uncrossed PROVE Uncrossed'
    <3>1. dpdfnetLoadState = "Loading" /\ job[t].backend = "dpdfnet"
      BY <2>2, <2>7 DEF Uncrossed
    <3>2. \A u \in Threads : u # t => syncPc'[u] = syncPc[u] /\ Idle(u)
      BY <2>2, <2>5, <2>7 DEF Uncrossed
    <3>3. ~(job["ui"].committed /\ job["ui"].backend = "rnnoise")
      BY <1>0, <2>2, <2>7, <3>1 DEF Uncrossed
    <3>4. syncPc'[t] = "loadFailed" => Spent'
      BY <2>5, <2>7 DEF Uncrossed
    <3>. QED
      BY <1>0, <2>2, <2>5, <2>7, <3>1, <3>2, <3>3, <3>4 DEF Uncrossed
  <2>. QED
    BY <1>0, <2>6, <2>7
<1>5. CASE LoadEnd(t)
  <2>1. /\ Loading(t) /\ syncPc' = [syncPc EXCEPT ![t] = "reset"]
        /\ dpdfnetLoadState' \in {"Ready", "Failed"} /\ UNCHANGED <<loaded, status>>
        /\ dpdfnetLoadState' = "Failed" => syncPc[t] = "loadFailed"
    BY <1>5 DEF LoadEnd, setDpdfnetLoadState
  <2>2. Jobs'
    BY <1>0, <2>1
  <2>3. ~crossed' => Uncrossed'
    BY <1>0, <2>1 DEF Uncrossed
  <2>. QED
    BY <2>2, <2>3
<1>6. CASE ReleaseBegin(t) \/ ReleaseStep(t)
  <2>1. /\ syncPc[t] \in {"session", "releasing"} /\ UNCHANGED dpdfnetLoadState
        /\ \E place \in {"releasing", "released"} : syncPc' = [syncPc EXCEPT ![t] = place]
    BY <1>6 DEF ReleaseBegin, ReleaseStep
  <2>2. /\ Freed => Freed'
        /\ Spent => Spent'
        /\ syncPc'[t] = "released" => Freed' /\ Spent'
    <3>1. CASE ReleaseBegin(t)
      BY <1>0, <3>1 DEF ReleaseBegin
    <3>2. CASE ReleaseStep(t)
      <4>. HIDE DEF Spent, Freed
      <4>1. PICK to \in Place :
              /\ Step("stopping", to)
              /\ syncPc' = [syncPc EXCEPT ![t] = IF to = "none" THEN "released" ELSE "releasing"]
        BY <3>2 DEF ReleaseStep
      <4>2. "stopping" \in Place
        BY DEF Place
      <4>. QED
        BY <1>0, <4>1, <4>2, StepKeeps DEF SharedTypes
    <3>. QED
      BY <1>6, <3>1, <3>2
  <2>3. Jobs'
    BY <1>0, <2>1
  <2>4. ~crossed' => Uncrossed'
    BY <1>0, <2>1, <2>2 DEF Uncrossed
  <2>. QED
    BY <2>3, <2>4
<1>7. CASE ReleaseEnd(t)
  <2>1. /\ syncPc[t] = "released" /\ syncPc' = [syncPc EXCEPT ![t] = "reset"]
        /\ dpdfnetLoadState' \in {"Failed", "NotLoaded"} /\ UNCHANGED <<loaded, status>>
        /\ dpdfnetLoadState' = "Failed" => status = "abandoned"
    BY <1>7 DEF ReleaseEnd, setDpdfnetLoadState
  <2>2. Jobs'
    BY <1>0, <2>1
  <2>3. ~crossed' => Uncrossed'
    BY <1>0, <2>1 DEF Uncrossed
  <2>. QED
    BY <2>2, <2>3
<1>8. CASE RequestReset(t)
  <2>1. /\ syncPc[t] = "reset" /\ syncPc' = [syncPc EXCEPT ![t] = "done"]
        /\ UNCHANGED <<dpdfnetLoadState, loaded, status>>
    BY <1>8 DEF RequestReset
  <2>2. Jobs'
    BY <1>0, <2>1
  <2>3. ~crossed' => Uncrossed'
    BY <1>0, <2>1 DEF Uncrossed
  <2>. QED
    BY <2>2, <2>3
<1>. QED
  BY <1>1, <1>2, <1>3, <1>4, <1>5, <1>6, <1>7, <1>8 DEF Sync

\* Starting a synchronisation, which may be the first to overlap another.
LEMMA ActsKeepSession ==
  ASSUME SharedTypes, SyncTypes, SessionInv, UserActs \/ BridgeSync
  PROVE  SessionInv'
<1>. USE ThreadCases
     DEF SessionInv, Jobs, Loading, Freed, Spent, Idle, processorVars, statusAtoms, settingAtoms
<1>0. /\ \A u \in Threads : syncPc[u] \in Places /\ job[u] \in Job
      /\ syncPc \in [Threads -> Places] /\ crossed \in BOOLEAN
      /\ UNCHANGED <<loaded, status, dpdfnetLoadState>>
  BY DEF SyncTypes, UserActs, Preview, Restore, Commit, BridgeSync
<1>1. CASE UserActs
  <2>1. PICK setting, committed, reset :
          /\ Idle("ui") /\ Start("ui", setting, committed, reset)
          /\ committed => config' = setting
    BY <1>1 DEF UserActs, Preview, Restore, Commit
  <2>2. /\ job'["ui"].committed = committed /\ job'["ui"].backend = setting.backend
        /\ syncPc'["ui"] = "nr"
        /\ \A u \in Threads : u # "ui" =>
              /\ job'[u].backend = job[u].backend /\ job'[u].committed = job[u].committed
              /\ syncPc'[u] = syncPc[u]
    BY <1>0, <2>1 DEF Start, Job
  <2>3. ~crossed' => ~crossed /\ \A u \in Threads : u # "ui" => Idle(u)
    BY <1>0, <2>1 DEF Start
  <2>4. Jobs'
    BY <1>0, <2>1, <2>2
  <2>5. ASSUME ~crossed' PROVE Uncrossed'
    <3>1. Uncrossed /\ \A u \in Threads : Idle(u)
      BY <2>1, <2>3, <2>5
    <3>2. dpdfnetLoadState # "Loading"
      BY <3>1 DEF Uncrossed
    <3>. QED
      BY <1>0, <2>2, <3>1, <3>2 DEF Uncrossed
  <2>. QED
    BY <2>4, <2>5
<1>2. CASE BridgeSync
  <2>1. /\ "bridge" \in Threads /\ Idle("bridge") /\ Start("bridge", config, FALSE, FALSE)
        /\ config' = config
    BY <1>2 DEF BridgeSync
  <2>2. /\ job'["bridge"].committed = FALSE /\ job'["bridge"].backend = config.backend
        /\ syncPc'["bridge"] = "nr"
        /\ \A u \in Threads : u # "bridge" =>
              /\ job'[u].backend = job[u].backend /\ job'[u].committed = job[u].committed
              /\ syncPc'[u] = syncPc[u]
    BY <1>0, <2>1 DEF Start, Job
  <2>3. ~crossed' => ~crossed /\ \A u \in Threads : u # "bridge" => Idle(u)
    BY <1>0, <2>1 DEF Start
  <2>4. Jobs'
    BY <1>0, <2>1, <2>2
  <2>5. ~crossed' => Uncrossed'
    BY <1>0, <2>1, <2>2, <2>3 DEF Uncrossed
  <2>. QED
    BY <2>4, <2>5
<1>. QED
  BY <1>1, <1>2

\* The bridge thread reads the backend again; the worker fails, or is ready.
LEMMA RestKeepsSession ==
  ASSUME SharedTypes, SyncTypes, SessionInv, BridgeReadsBackend \/ WorkerActs
  PROVE  SessionInv'
<1>. USE ThreadCases
     DEF SessionInv, Jobs, Loading, Freed, Spent, Idle, processorVars, statusAtoms, settingAtoms,
         syncVars, jobVars
<1>0. /\ \A u \in Threads : syncPc[u] \in Places /\ job[u] \in Job
      /\ syncPc \in [Threads -> Places]
      /\ UNCHANGED <<config, crossed, dpdfnetLoadState>>
  BY DEF SyncTypes, BridgeReadsBackend, WorkerActs
<1>1. CASE BridgeReadsBackend
  <2>1. /\ "bridge" \in Threads /\ ~Idle("bridge") /\ ~Loading("bridge")
        /\ syncPc["bridge"] = "readBackend" /\ UNCHANGED <<loaded, status>>
    BY <1>1 DEF BridgeReadsBackend
  <2>2. /\ job'["bridge"].committed = job["bridge"].committed
        /\ job'["bridge"].backend = config.backend
        /\ syncPc'["bridge"] = "backend"
        /\ \A u \in Threads : u # "bridge" => job'[u] = job[u] /\ syncPc'[u] = syncPc[u]
    BY <1>0, <1>1, <2>1 DEF BridgeReadsBackend, SyncTypes, Job
  <2>3. Jobs'
    BY <1>0, <2>1, <2>2
  <2>4. ~crossed' => Uncrossed'
    BY <1>0, <2>1, <2>2 DEF Uncrossed
  <2>. QED
    BY <2>3, <2>4
<1>2. CASE WorkerActs
  <2>1. UNCHANGED <<syncPc, job, loaded>> /\ loaded /\ status \in {"none", "ready"}
    BY <1>2 DEF WorkerActs, Fails, Publishes
  <2>2. \/ status' = "failed"
        \/ /\ status = "none" /\ status' = "ready"
           /\ \E u \in Threads : syncPc[u] \in {"warming", "undoing", "releasing"}
    BY <1>2 DEF WorkerActs, Fails, Publishes, callPlace
  <2>3. Jobs'
    BY <1>0, <2>1
  <2>4. ~crossed' => Uncrossed'
    BY <1>0, <2>1, <2>2 DEF Uncrossed
  <2>. QED
    BY <2>3, <2>4
<1>. QED
  BY <1>1, <1>2

-----------------------------------------------------------------------------
(* The theorems.                                                           *)

IInv == RenderInv /\ SyncTypes /\ SessionInv

\* The program starts with the configuration published and no stream reset pending.
LEMMA InitInv == Init => IInv
<1>. SUFFICES ASSUME Init PROVE IInv
  OBVIOUS
<1>. USE ThreadCases
<1>1. config \in Setting /\ config.nr \in BOOLEAN /\ config.backend \in Backend
  BY DEF Init, Setting
<1>2. SharedTypes
  <2>1. nrEnabled \in BOOLEAN /\ dpdfnetLoadState \in LoadState /\ status \in Status
    BY <1>1 DEF Init, LoadState, Status
  <2>2. loaded \in BOOLEAN
    BY DEF Init
  <2>3. dpdfnetAvailable \in BOOLEAN /\ dpdfnetDegraded \in BOOLEAN
    BY DEF Init
  <2>. QED
    BY <1>1, <2>1, <2>2, <2>3 DEF Init, SharedTypes
<1>3. SyncTypes
  <2>1. NoJob \in Job
    <3>1. TRUE \in BOOLEAN /\ FALSE \in BOOLEAN
      OBVIOUS
    <3>. QED
      BY <3>1 DEF NoJob, Job, Backend
  <2>2. jobs \in 0..MaxJobs
    BY JobAssumption DEF JobAssumption, Init
  <2>3. crossed \in BOOLEAN
    BY DEF Init
  <2>. QED
    BY <1>1, <2>1, <2>2, <2>3 DEF Init, SyncTypes, Places
<1>4. RenderInv
  <2>1. m_nrActive \in BOOLEAN /\ (m_nrActive <=> m_activeBackend # "off")
    BY <1>1 DEF Init
  <2>2. m_activeBackend \in {"off", "rnnoise"} /\ denoiseEffectiveBackend = m_activeBackend
    BY DEF Init
  <2>3. m_dpdfnetSeenOutput \in BOOLEAN /\ m_dpdfnetDegraded \in BOOLEAN
    BY DEF Init
  <2>4. RenderTypes
    BY <1>1, <2>1, <2>2, <2>3, WatchdogAssumption
    DEF WatchdogAssumption, Init, RenderTypes, Backend
  <2>. QED
    BY <1>2, <2>1, <2>2, <2>4, WatchdogAssumption
    DEF WatchdogAssumption, Init, RenderInv, Stages, Watchdog, Degrading, SilenceBounded,
        EffectiveIsTrue
<1>5. SessionInv
  <2>1. Jobs
    BY DEF Init, Jobs, Loading, NoJob
  <2>2. Uncrossed
    BY DEF Init, Uncrossed, Loading, Freed, Spent, Idle, NoJob
  <2>. QED
    BY <2>1, <2>2 DEF SessionInv
<1>. QED
  BY <1>3, <1>4, <1>5 DEF IInv

\* Each thread keeps its own part, and leaves the other parts alone.
LEMMA NextInv == IInv /\ [Next]_vars => IInv'
<1>. SUFFICES ASSUME IInv, [Next]_vars PROVE IInv'
  OBVIOUS
<1>0. SharedTypes /\ SyncTypes /\ RenderInv /\ SessionInv
  BY DEF IInv, RenderInv
<1>1. CASE Render
  <2>1. RenderInv'
    BY <1>0, <1>1, RenderKeeps
  <2>2. UNCHANGED <<processorVars, syncVars, dpdfnetLoadState>>
    BY <1>1 DEF Render, ReadNr, ReadBackend, ApplySettings, ProcessRnnoise, CheckReady, Degrade,
                CallProcessBlock, FailedBlock, DenoisedBlock, MissingBlock, statusAtoms
  <2>3. SyncTypes' /\ SessionInv'
    BY <1>0, <2>2 DEF SyncTypes, SessionInv, Jobs, Uncrossed, Loading, Freed, Spent, Idle, syncVars,
                      jobVars, processorVars
  <2>. QED
    BY <2>1, <2>3 DEF IInv
<1>2. ASSUME NEW t \in Threads, Sync(t) PROVE IInv'
  BY <1>0, <1>2, SyncTyped, SyncKeepsSession, OthersKeepRender DEF IInv
<1>3. CASE UserActs \/ BridgeSync
  BY <1>0, <1>3, ActsTyped, ActsKeepSession, OthersKeepRender DEF IInv
<1>4. CASE BridgeReadsBackend \/ WorkerActs
  BY <1>0, <1>4, RestTyped, RestKeepsSession, OthersKeepRender DEF IInv
<1>5. CASE UNCHANGED vars
  <2>1. SharedTypes' /\ SyncTypes' /\ SessionInv'
    BY <1>0, <1>5 DEF SharedTypes, SyncTypes, SessionInv, Jobs, Uncrossed, Loading, Freed, Spent,
                      Idle, vars, syncVars, jobVars, processorVars, statusAtoms, settingAtoms
  <2>2. RenderInv'
    BY <1>0, <1>5, <2>1, OthersKeepRender DEF vars, statusAtoms
  <2>. QED
    BY <2>1, <2>2 DEF IInv
<1>. QED
  BY <1>1, <1>2, <1>3, <1>4, <1>5 DEF Next

\* The invariant of both threads, for every limit and any number of synchronisations.
THEOREM InvCorrect == Spec => []IInv
<1>. QED
  BY InitInv, NextInv, PTL DEF Spec

\* Atoms, jobs and the render thread's members keep their types, the counters their limits.
THEOREM TypeCorrect == Spec => []TypeOK
<1>1. IInv => TypeOK
  BY TypeParts DEF IInv, RenderInv
<1>. QED
  BY <1>1, InvCorrect, PTL

\* A worker that produces nothing mutes the microphone for no more blocks than the limits say.
THEOREM SilenceCorrect == Spec => []SilenceBounded
<1>1. IInv => SilenceBounded
  BY DEF IInv, RenderInv
<1>. QED
  BY <1>1, InvCorrect, PTL

\* The published effective backend is the one the last finished block went through.
THEOREM EffectiveCorrect == Spec => []EffectiveIsTrue
<1>1. IInv => EffectiveIsTrue
  BY DEF IInv, RenderInv
<1>. QED
  BY <1>1, InvCorrect, PTL

\* While the render thread is between two blocks, what the page says of the sound is what
\* the published effective backend says; a degraded stream is told by an atom of its own,
\* and a page that is taken up repeats what the render thread chose by.
LEMMA SoundTold ==
  ASSUME RenderInv, NEW page \in Setting, renderPc = "idle", out # "none"
  PROVE  SoundIsTold(page)
<1>1. /\ Heard = denoiseEffectiveBackend
      /\ dpdfnetDegraded => denoiseEffectiveBackend = "rnnoise"
  BY DEF RenderInv, RenderTypes, EffectiveIsTrue, Stages, Heard
<1>2. readyText \notin {"rnnoiseActive", "degraded", "dpdfnetActive", "disabled"}
  BY DEF RenderInv, SharedTypes, LoadState, readyText, dpdfnetNotReadyText
<1>3. /\ statusText(page) \in {"rnnoiseActive", "degraded"} => denoiseEffectiveBackend = "rnnoise"
      /\ statusText(page) = "dpdfnetActive" => denoiseEffectiveBackend = "dpdfnet"
      /\ statusText(page) = "disabled" => ~nrEnabled
  BY <1>1, <1>2 DEF statusText, rnnoiseText, dpdfnetText
<1>4. /\ denoiseName(page) = "DPDFNet" => denoiseEffectiveBackend = "dpdfnet"
      /\ denoiseName(page) = "RNNoise" => page.nr /\ page.backend = "rnnoise"
      /\ denoiseName(page) = "Off" => ~page.nr
  BY DEF denoiseName
<1>5. /\ denoiseStatusColor(page) = "streaming"
           => page.nr /\ (page.backend = "dpdfnet" <=> denoiseEffectiveBackend = "dpdfnet")
      /\ denoiseStatusColor(page) = "armed"
           => ~(page.backend = "dpdfnet" <=> denoiseEffectiveBackend = "dpdfnet")
      /\ denoiseStatusColor(page) = "idle" => ~page.nr
  BY DEF denoiseStatusColor
<1>6. page.nr \in BOOLEAN /\ page.backend \in Backend
  BY DEF Setting
<1>7. ASSUME TakenUp(page)
      PROVE  /\ ~nrEnabled => ~page.nr
             /\ ~page.nr => denoiseEffectiveBackend = "off"
             /\ page.nr => denoiseEffectiveBackend # "off"
             /\ page.backend = "rnnoise" => denoiseEffectiveBackend # "dpdfnet"
  BY <1>6, <1>7 DEF TakenUp, Published, RenderInv, Stages
<1>8. denoiseEffectiveBackend \in Backend \cup {"off"}
  BY DEF RenderInv, RenderTypes
<1>9. ASSUME TakenUp(page)
      PROVE  /\ \/ statusText(page) = "disabled" \/ denoiseName(page) = "Off"
                \/ denoiseStatusColor(page) = "idle"
                => Heard = "off"
             /\ denoiseName(page) = "RNNoise" => Heard = "rnnoise"
             /\ denoiseStatusColor(page) = "streaming" => Heard = page.backend
  BY <1>1, <1>3, <1>4, <1>5, <1>6, <1>7, <1>8, <1>9 DEF Backend
<1>. QED
  BY <1>1, <1>3, <1>4, <1>5, <1>6, <1>8, <1>9 DEF SoundIsTold, Backend

\* Without overlaps, the load state says which sessions cannot serve.
LEMMA SessionTold ==
  ASSUME SharedTypes, SessionInv, ~crossed, NEW page \in Setting
  PROVE  SessionIsTold(page)
<1>. USE DEF isReady
<1>1. /\ readyText = "unavailable" => dpdfnetLoadState = "Failed"
      /\ readyText = "notLoaded" => dpdfnetLoadState = "NotLoaded"
  BY DEF SharedTypes, LoadState, readyText, dpdfnetNotReadyText
<1>2. /\ statusText(page) = "unavailable" => readyText = "unavailable"
      /\ statusText(page) = "notLoaded" => readyText = "notLoaded"
  BY DEF statusText, rnnoiseText, dpdfnetText
<1>3. /\ dpdfnetLoadState \in {"Failed", "NotLoaded"} => status # "ready"
      /\ dpdfnetLoadState = "NotLoaded" => Freed
  BY DEF SessionInv, Uncrossed, Spent
<1>4. ASSUME dpdfnetLoadState = "Loading", ~LoadEnds PROVE status # "ready"
  <2>1. PICK t \in Threads : syncPc[t] \in {"replacing", "loading", "loadFailed"}
    BY <1>4 DEF SessionInv, Uncrossed, Loading, LoadEnds
  <2>. QED
    BY <2>1 DEF SessionInv, Uncrossed, Spent
<1>5. dpdfnetLoadState \in LoadState
  BY DEF SharedTypes
<1>. QED
  BY <1>1, <1>2, <1>3, <1>4, <1>5 DEF SessionIsTold, LoadState, Freed

\* The settings page says nothing untrue of the sound, and reports a fallback, or a session
\* that is missing, only when no session can serve, whatever failed, stalled or was abandoned.
THEOREM StatusCorrect == Spec => []StatusIsTrue
<1>1. IInv => StatusIsTrue
  BY SoundTold, SessionTold DEF StatusIsTrue, IInv, RenderInv
<1>. QED
  BY <1>1, InvCorrect, PTL

\* A commit of RNNoise frees the session, after any number of earlier operations and failures.
THEOREM ReleaseCorrect == Spec => []RnnoiseUserPaysNothing
<1>1. IInv => RnnoiseUserPaysNothing
  BY DEF IInv, SessionInv, Uncrossed, Freed, RnnoiseUserPaysNothing
<1>. QED
  BY <1>1, InvCorrect, PTL

-----------------------------------------------------------------------------
(* A change to DPDFNet does not get lost.                                  *)

\* Operations that have not been overlapped, neither then nor since.
Alone == \A t, u \in Threads : job[t].alone /\ u # t => Idle(u)

SeenEpoch == m_seenGlobalEpoch <= denoiseResetEpoch

\* As ChangePending, whatever has been published since: when a session is not
\* ready any more after such an operation, it does not become so again.
Chosen ==
  syncPc["ui"] = "done" /\ job["ui"].reset /\ job["ui"].alone /\ isReady =>
    \/ denoiseResetEpoch # m_seenGlobalEpoch
    \/ m_lastRequestedBackend # "dpdfnet" \/ ~m_nrActive
    \/ m_activeBackend = "dpdfnet" \/ m_dpdfnetDegraded

PendingInv == Alone /\ SeenEpoch /\ Chosen

\* A thread in the middle of a synchronisation is not idle.
LEMMA BusyThreads ==
  ASSUME NEW t \in Threads
  PROVE  /\ Sync(t) => ~Idle(t)
         /\ callPlace(syncPc[t]) \in {"warming", "stopping"} => ~Idle(t)
BY DEF Sync, StoreNr, StoreBackend, SessionKept, LoadBegin, PrepareStep, LoadEnd, ReleaseBegin,
       ReleaseStep, ReleaseEnd, RequestReset, Idle, callPlace

\* Once more chosen by the render thread: with a session that is ready, DPDFNet.
LEMMA RenderKeepsPending ==
  ASSUME IInv, PendingInv, Render
  PROVE  PendingInv'
<1>. USE DEF PendingInv
<1>1. /\ UNCHANGED <<settingAtoms, processorVars, syncVars>>
      /\ \/ UNCHANGED <<m_nrActive, m_lastRequestedBackend, m_seenGlobalEpoch>>
            /\ (m_dpdfnetDegraded' = TRUE \/ UNCHANGED <<m_activeBackend, m_dpdfnetDegraded>>)
         \/ /\ m_seenGlobalEpoch' = denoiseResetEpoch
            /\ m_lastRequestedBackend' = seen.backend /\ m_nrActive' = seen.nr
            /\ m_activeBackend' = IF seen.nr THEN chooseEffectiveBackend(seen.backend) ELSE "off"
  BY DEF Render, ReadNr, ReadBackend, ApplySettings, ProcessRnnoise, CheckReady, Degrade,
         CallProcessBlock, FailedBlock, DenoisedBlock, MissingBlock, pipelineVars, watchdogVars,
         settingAtoms, processorVars, syncVars, jobVars
<1>2. Alone'
  BY <1>1 DEF Alone, Idle, syncVars, jobVars
<1>3. SeenEpoch'
  BY <1>1 DEF SeenEpoch, settingAtoms, IInv, RenderInv, SharedTypes
<1>4. Chosen'
  BY <1>1 DEF Chosen, chooseEffectiveBackend, isReady, settingAtoms, processorVars, syncVars,
              jobVars
<1>. QED
  BY <1>2, <1>3, <1>4

\* The end of the operation moves the epoch past the one that was seen; nobody
\* else synchronises, so nobody makes a session ready, until the next Start.
LEMMA OthersKeepPending ==
  ASSUME IInv, PendingInv, NEW t \in Threads, Sync(t)
  PROVE  PendingInv'
<1>1. /\ UNCHANGED <<pipelineVars, jobVars>>
      /\ syncPc \in [Threads -> Places] /\ "ui" \in Threads
      /\ \E place : syncPc' = [syncPc EXCEPT ![t] = place]
  BY ThreadCases DEF IInv, SyncTypes, Sync, StoreNr, StoreBackend, SessionKept, LoadBegin,
     PrepareStep, LoadEnd, ReleaseBegin, ReleaseStep, ReleaseEnd, RequestReset, GoTo
<1>2. /\ m_seenGlobalEpoch \in Nat /\ denoiseResetEpoch \in Nat
      /\ \/ UNCHANGED denoiseResetEpoch
         \/ denoiseResetEpoch' = denoiseResetEpoch + 1
  BY DEF IInv, RenderInv, SharedTypes, RenderTypes, Sync, StoreNr, StoreBackend, SessionKept,
     LoadBegin, PrepareStep, LoadEnd, ReleaseBegin, ReleaseStep, ReleaseEnd, RequestReset,
     settingAtoms
<1>3. Alone'
  <2>1. ~Idle(t)
    BY BusyThreads
  <2>. QED
    BY <1>1, <2>1 DEF PendingInv, Alone, Idle, jobVars
<1>4. SeenEpoch'
  BY <1>1, <1>2 DEF PendingInv, SeenEpoch, pipelineVars
<1>5. Chosen'
  <2>1. CASE t = "ui"
    <3>1. syncPc'["ui"] = "done" => RequestReset("ui")
      BY <2>1, <1>1 DEF Sync, StoreNr, StoreBackend, SessionKept, LoadBegin, PrepareStep,
         LoadEnd, ReleaseBegin, ReleaseStep, ReleaseEnd, RequestReset, GoTo, Place
    <3>. QED
      BY <1>1, <1>2, <3>1 DEF PendingInv, SeenEpoch, Chosen, RequestReset, pipelineVars, jobVars
  <2>2. CASE t # "ui"
    BY <1>1, <2>2, BusyThreads DEF PendingInv, Alone, Chosen, jobVars
  <2>. QED
    BY <2>1, <2>2
<1>. QED
  BY <1>3, <1>4, <1>5 DEF PendingInv

\* A new operation ends the promise of the last, of its own thread or another.
LEMMA StartKeepsPending ==
  ASSUME IInv, PendingInv, UserActs \/ BridgeSync
  PROVE  PendingInv'
<1>1. PICK t, setting, committed, reset :
        /\ t \in Threads /\ Start(t, setting, committed, reset)
        /\ UNCHANGED <<settingAtoms, pipelineVars, processorVars>>
  BY DEF UserActs, Preview, Restore, Commit, BridgeSync
<1>2. /\ syncPc \in [Threads -> Places] /\ job \in [Threads -> Job] /\ "ui" \in Threads
  BY ThreadCases DEF IInv, SyncTypes
<1>3. /\ job'[t].alone => \A v \in Threads \ {t} : Idle(v)
      /\ \A u \in Threads \ {t} : job'[u].alone = FALSE /\ syncPc'[u] = syncPc[u]
      /\ syncPc'[t] = "nr"
  BY <1>1, <1>2 DEF Start, Job
<1>4. Alone'
  BY <1>3 DEF Alone, Idle
<1>5. SeenEpoch'
  BY <1>1 DEF PendingInv, SeenEpoch, settingAtoms, pipelineVars
<1>6. Chosen'
  BY <1>2, <1>3 DEF Chosen
<1>. QED
  BY <1>4, <1>5, <1>6 DEF PendingInv

\* The worker makes a session ready only for a thread that waits for it.
LEMMA RestKeepsPending ==
  ASSUME IInv, PendingInv, BridgeReadsBackend \/ WorkerActs \/ UNCHANGED vars
  PROVE  PendingInv'
<1>. USE DEF PendingInv
<1>0. /\ syncPc \in [Threads -> Places] /\ job \in [Threads -> Job] /\ "ui" \in Threads
  BY ThreadCases DEF IInv, SyncTypes
<1>1. CASE BridgeReadsBackend
  <2>1. /\ "bridge" \in Threads /\ ~Idle("bridge")
        /\ UNCHANGED <<settingAtoms, pipelineVars, processorVars>>
        /\ job' = [job EXCEPT !["bridge"].backend = config.backend]
        /\ syncPc' = [syncPc EXCEPT !["bridge"] = "backend"]
    BY <1>1 DEF BridgeReadsBackend, Idle
  <2>2. /\ \A u \in Threads : job'[u].alone = job[u].alone
        /\ \A u \in Threads : u # "bridge" => syncPc'[u] = syncPc[u]
    BY <1>0, <2>1 DEF Job
  <2>3. Alone'
    BY <1>0, <2>1, <2>2 DEF Alone, Idle
  <2>4. ~job'["ui"].alone
    BY <1>0, <2>1, <2>2 DEF Alone
  <2>. QED
    BY <2>1, <2>3, <2>4 DEF SeenEpoch, Chosen, settingAtoms, pipelineVars
<1>2. CASE WorkerActs
  <2>1. /\ UNCHANGED <<settingAtoms, pipelineVars, syncPc, job>>
        /\ \/ status' = "failed"
           \/ \E t \in Threads : callPlace(syncPc[t]) \in {"warming", "stopping"}
    BY <1>2 DEF WorkerActs, Fails, Publishes, syncVars, jobVars
  <2>2. ASSUME NEW t \in Threads, callPlace(syncPc[t]) \in {"warming", "stopping"},
               syncPc["ui"] = "done"
        PROVE  ~job["ui"].alone
    BY <1>0, <2>2, BusyThreads DEF Alone, Idle
  <2>3. Chosen'
    BY <2>1, <2>2 DEF Chosen, isReady, settingAtoms, pipelineVars, watchdogVars
  <2>. QED
    BY <2>1, <2>3 DEF Alone, Idle, SeenEpoch, settingAtoms, pipelineVars
<1>3. CASE UNCHANGED vars
  BY <1>3 DEF Alone, Idle, SeenEpoch, Chosen, isReady, vars, settingAtoms, pipelineVars,
              watchdogVars, processorVars, syncVars, jobVars
<1>. QED
  BY <1>1, <1>2, <1>3

\* The safety half of ChangeTakesEffect: after an operation that asked for DPDFNet and a
\* stream reset and ended with a session that can serve, the render thread chooses anew at
\* a next block or already has, for any limits and any number of synchronisations.
THEOREM PendingCorrect == Spec => []ChangePending
<1>1. Init => PendingInv
  <2>. SUFFICES ASSUME Init PROVE PendingInv
    OBVIOUS
  <2>. QED
    BY ThreadCases DEF Init, NoJob, PendingInv, Alone, Idle, SeenEpoch, Chosen
<1>2. IInv /\ PendingInv /\ [Next]_vars => PendingInv'
  BY RenderKeepsPending, OthersKeepPending, StartKeepsPending, RestKeepsPending DEF Next
<1>3. IInv /\ PendingInv => ChangePending
  BY DEF IInv, RenderInv, Stages, PendingInv, Chosen, Promised, ChangePending
<1>. QED
  BY <1>1, <1>2, <1>3, InvCorrect, PTL DEF Spec
=============================================================================
