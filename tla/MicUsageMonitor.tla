--------------------------- MODULE MicUsageMonitor ---------------------------
(***************************************************************************)
(* mic_usage_monitor.cpp with mic_session_state.h: whether some Windows    *)
(* program is recording from the virtual cable decides whether the bridge  *)
(* streams (micRequested, the gate of demand mode).                        *)
(*                                                                         *)
(*   Windows   creates, changes and expires capture sessions and calls     *)
(*             back, late, on threads of its own                           *)
(*   monitor   micMonitorThread(): init(), then reconcile() every 200 ms   *)
(*   UI        setDemandModeRuntime(), whenever a menu toggle is made or   *)
(*             rolled back                                                 *)
(*                                                                         *)
(* The wake event only shortens the wait between two passes; a wait may    *)
(* end at any time here, which covers it.  Time passes in ticks.           *)
(***************************************************************************)
EXTENDS Integers, Sequences, FiniteSets

CONSTANTS
  Sessions,   \* capture sessions, told apart by their keys
  Grace,      \* kDeactivateGraceMs, in ticks
  MaxChanges, \* bound: how often Windows creates or changes a session, or fails
  MaxCalls    \* bound: calls of setDemandModeRuntime()

ASSUME GraceAssumption == Grace \in Nat \ {0}
ASSUME SessionsAssumption == IsFiniteSet(Sessions)
ASSUME CountAssumption == MaxChanges \in Nat /\ MaxCalls \in Nat

Activity == {"Inactive", "Active", "Expired"}
NoDeadline == -1

VARIABLES
  actual,    \* Windows' own state of each session
  events,    \* state callbacks that have yet to run, per session
  changes,
  callback,  \* the callback running for a session: where it is in applyState
  announcing,\* new sessions whose OnSessionCreated() has yet to run
  listening, \* RegisterSessionNotification is in force
  m_pendingSessions, m_stopping,
  observer,  \* per session, its SessionObserver; the pending source as a flag
  m_sessions, m_sessionStates, m_activeCount,   \* under m_sessionsMutex
  micRequested,
  m_inactiveDeadlineTick,                       \* ticks left, or NoDeadline
  monitor,   \* the monitor thread: where it is, in which loop with what left
             \* to do, and the locals of the functions it is in
  demandMode, running, uiPc, calls,
  missed,    \* history: sessions whose enumeration or callback registration failed
  quiet      \* history: ticks without an active session or demand mode off

windowsVars == <<actual, events, changes, callback>>
arrivalVars == <<announcing, listening, m_pendingSessions, m_stopping>>
trackerVars == <<m_sessions, m_sessionStates, m_activeCount, missed>>
gateVars == <<micRequested, m_inactiveDeadlineTick, quiet>>
uiVars == <<demandMode, running, uiPc, calls>>
vars == <<windowsVars, arrivalVars, observer, trackerVars, gateVars, monitor, uiVars>>

NoSession == "no session"
Nothing == [source |-> FALSE, sawActive |-> FALSE]

\* A SessionObserver at its construction.
NewObserver ==
  [registered |-> FALSE, state |-> "Inactive", sawActive |-> FALSE, source |-> FALSE]

Init ==
  /\ actual \in [Sessions -> {"none", "Inactive", "Active"}]
  /\ events = [s \in Sessions |-> <<>>]
  /\ changes = 0
  /\ callback = [s \in Sessions |-> "idle"]
  /\ announcing = {}
  /\ listening = FALSE
  /\ m_pendingSessions = {}
  /\ m_stopping = FALSE
  /\ observer = [s \in Sessions |-> NewObserver]
  /\ m_sessions = {}
  /\ m_sessionStates = [s \in Sessions |-> "untracked"]
  /\ m_activeCount = 0
  /\ micRequested = FALSE
  /\ m_inactiveDeadlineTick = NoDeadline
  /\ monitor = [pc |-> "init", pass |-> "enumerate", todo |-> {}, current |-> NoSession,
                seen |-> "Inactive", consumed |-> Nothing]
  /\ demandMode \in BOOLEAN
  /\ running = TRUE
  /\ uiPc = "idle"
  /\ calls = 0
  /\ missed = {}
  /\ quiet = 0

-----------------------------------------------------------------------------
(* Under the lock: the tracker and the gate.                               *)

Closed == [open |-> FALSE, deadline |-> NoDeadline]

\* evaluateRequestedStateLocked() for a gate [open, deadline] and a number of
\* active sessions.
Evaluated_KeepsDeadline(gate, active) ==
  IF ~demandMode \/ active > 0 THEN [gate EXCEPT !.open = TRUE]
  ELSE IF ~gate.open \/ gate.deadline = 0 THEN Closed
  ELSE IF gate.deadline = NoDeadline THEN [gate EXCEPT !.deadline = Grace]
  ELSE gate
Evaluated_NeverCloses(gate, active) ==
  [open |-> gate.open \/ active > 0 \/ ~demandMode, deadline |-> NoDeadline]
Evaluated_DeadlineFirst(gate, active) ==
  IF gate.deadline = 0 THEN Closed
  ELSE IF ~demandMode \/ active > 0 THEN [gate EXCEPT !.open = TRUE]
  ELSE IF ~gate.open THEN Closed
  ELSE IF gate.deadline = NoDeadline THEN [gate EXCEPT !.deadline = Grace]
  ELSE gate
Evaluated(gate, active) ==
  IF ~demandMode \/ active > 0 THEN [open |-> TRUE, deadline |-> NoDeadline]
  ELSE IF ~gate.open \/ gate.deadline = 0 THEN Closed
  ELSE IF gate.deadline = NoDeadline THEN [gate EXCEPT !.deadline = Grace]
  ELSE gate

Gate == [open |-> micRequested, deadline |-> m_inactiveDeadlineTick]

SetGate(gate) ==
  /\ micRequested' = gate.open
  /\ m_inactiveDeadlineTick' = gate.deadline

\* MicSessionStateTracker::update() and remove(): m_activeCount after a
\* session went from one tracked state to another, and without some sessions.
Counted(from, to) ==
  m_activeCount + (IF to = "Active" THEN 1 ELSE 0) - (IF from = "Active" THEN 1 ELSE 0)

Removed(gone) ==
  /\ m_sessions' = m_sessions \ gone
  /\ m_sessionStates' = [s \in Sessions |->
                           IF s \in gone THEN "untracked" ELSE m_sessionStates[s]]
  /\ m_activeCount' =
       m_activeCount - Cardinality({s \in gone : m_sessionStates[s] = "Active"})

-----------------------------------------------------------------------------
(* Windows.                                                                *)

\* A program opens a capture session.
CreateSession(s) ==
  /\ actual[s] = "none" /\ changes < MaxChanges
  /\ actual' = [actual EXCEPT ![s] = "Inactive"]
  /\ announcing' = IF listening THEN announcing \cup {s} ELSE announcing
  /\ changes' = changes + 1
  /\ UNCHANGED <<events, callback, listening, m_pendingSessions, m_stopping, observer,
                 trackerVars, gateVars, monitor, uiVars>>

\* It starts or stops recording, or its session ends for good.
ChangeState(s, state) ==
  /\ actual[s] \in {"Inactive", "Active"} \ {state} /\ changes < MaxChanges
  /\ actual' = [actual EXCEPT ![s] = state]
  /\ events' = IF observer[s].registered THEN [events EXCEPT ![s] = Append(@, state)]
               ELSE events
  /\ changes' = changes + 1
  /\ UNCHANGED <<callback, arrivalVars, observer, trackerVars, gateVars, monitor, uiVars>>

\* Time only matters while the gate counts its grace period down.
Tick ==
  /\ m_inactiveDeadlineTick > 0
  /\ m_inactiveDeadlineTick' = m_inactiveDeadlineTick - 1
  /\ quiet' = IF m_activeCount > 0 \/ ~demandMode THEN 0
              ELSE IF quiet < Grace THEN quiet + 1 ELSE Grace
  /\ UNCHANGED <<windowsVars, arrivalVars, observer, trackerVars, micRequested, monitor,
                 uiVars>>

-----------------------------------------------------------------------------
(* The callbacks, on threads of Windows.                                   *)

\* OnSessionCreated() queues the session unless the monitor is stopping.
Arrived_TryLock(s) ==
  IF m_stopping \/ monitor.pc = "drain" THEN m_pendingSessions ELSE m_pendingSessions \cup {s}
Arrived_Unchecked(s) == m_pendingSessions \cup {s}
Arrived(s) == IF m_stopping THEN m_pendingSessions ELSE m_pendingSessions \cup {s}

OnSessionCreated(s) ==
  /\ s \in announcing
  /\ announcing' = announcing \ {s}
  /\ m_pendingSessions' = Arrived(s)
  /\ UNCHANGED <<windowsVars, listening, m_stopping, observer, trackerVars, gateVars,
                 monitor, uiVars>>

\* applyState(): what is left to do after the exchange of m_state.
AfterExchange(s, state) ==
  IF observer[s].state = state THEN "idle"
  ELSE IF state = "Active" THEN "sawActive" ELSE "source"

OnStateChanged(s) ==
  /\ callback[s] = "idle" /\ events[s] # <<>>
  /\ observer' = [observer EXCEPT ![s].state = Head(events[s])]
  /\ callback' = [callback EXCEPT ![s] = AfterExchange(s, Head(events[s]))]
  /\ events' = [events EXCEPT ![s] = Tail(@)]
  /\ UNCHANGED <<actual, changes, arrivalVars, trackerVars, gateVars, monitor, uiVars>>

CallbackSawActive(s) ==
  /\ callback[s] = "sawActive"
  /\ observer' = [observer EXCEPT ![s].sawActive = TRUE]
  /\ callback' = [callback EXCEPT ![s] = "source"]
  /\ UNCHANGED <<actual, events, changes, arrivalVars, trackerVars, gateVars, monitor, uiVars>>

CallbackSource(s) ==
  /\ callback[s] = "source"
  /\ observer' = [observer EXCEPT ![s].source = TRUE]
  /\ callback' = [callback EXCEPT ![s] = "idle"]
  /\ UNCHANGED <<actual, events, changes, arrivalVars, trackerVars, gateVars, monitor, uiVars>>

Callback(s) ==
  OnSessionCreated(s) \/ OnStateChanged(s) \/ CallbackSawActive(s) \/ CallbackSource(s)

-----------------------------------------------------------------------------
(* The monitor thread: init().                                             *)

\* micMonitorThread() fails open.
InitFails ==
  /\ monitor.pc = "init"
  /\ micRequested' = TRUE
  /\ m_stopping' \in BOOLEAN
  /\ monitor' = [monitor EXCEPT !.pc = "failed"]
  /\ UNCHANGED <<windowsVars, announcing, listening, m_pendingSessions, observer,
                 trackerVars, m_inactiveDeadlineTick, quiet, uiVars>>

InitListens ==
  /\ monitor.pc = "init"
  /\ listening' = TRUE
  /\ monitor' = [monitor EXCEPT !.pc = "enumerate"]
  /\ UNCHANGED <<windowsVars, announcing, m_pendingSessions, m_stopping, observer,
                 trackerVars, gateVars, uiVars>>

\* The enumeration may fail, and so may any of its GetSession(): a session it
\* does not give back is lost unless it is announced as well.
EnumerateExistingSessions ==
  /\ monitor.pc = "enumerate"
  /\ LET existing == {s \in Sessions : actual[s] # "none"}
     IN  \E found \in SUBSET existing :
           /\ monitor' = [monitor EXCEPT !.pc = "next", !.todo = found]
           /\ missed' = existing \ (found \cup announcing \cup m_pendingSessions)
  /\ UNCHANGED <<windowsVars, arrivalVars, observer, m_sessions, m_sessionStates, m_activeCount,
                 gateVars, uiVars>>

-----------------------------------------------------------------------------
(* The monitor thread: drainPendingSessions() and registerEventsOnSession. *)

DrainPendingSessions ==
  /\ \/ monitor.pc = "drain"
     \/ monitor.pc = "next" /\ monitor.pass = "enumerate" /\ monitor.todo = {}
  /\ monitor' = [monitor EXCEPT !.pc = "next", !.pass = "register",
                                !.todo = m_pendingSessions]
  /\ m_pendingSessions' = {}
  /\ UNCHANGED <<windowsVars, announcing, listening, m_stopping, observer, trackerVars,
                 gateVars, uiVars>>

\* A session found twice, by the enumeration and by a callback, is kept once.
RegisterKnown(s) ==
  /\ monitor.pc = "next" /\ monitor.pass # "reconcile" /\ s \in monitor.todo
  /\ m_sessionStates[s] # "untracked"
  /\ monitor' = [monitor EXCEPT !.todo = @ \ {s}]
  /\ UNCHANGED <<windowsVars, arrivalVars, observer, trackerVars, gateVars, uiVars>>

RegisterNew(s) ==
  /\ monitor.pc = "next" /\ monitor.pass # "reconcile" /\ s \in monitor.todo
  /\ m_sessionStates[s] = "untracked"
  /\ m_sessions' = m_sessions \cup {s}
  /\ m_sessionStates' = [m_sessionStates EXCEPT ![s] = "Inactive"]
  /\ monitor' = [monitor EXCEPT !.pc = "start", !.todo = @ \ {s}, !.current = s]
  /\ UNCHANGED <<windowsVars, arrivalVars, observer, m_activeCount, missed, gateVars, uiVars>>

\* SessionObserver::start() registers first and queries the state then.
StartObserver ==
  /\ monitor.pc = "start"
  /\ observer' = [observer EXCEPT ![monitor.current].registered = TRUE]
  /\ monitor' = [monitor EXCEPT !.pc = "query"]
  /\ UNCHANGED <<windowsVars, arrivalVars, trackerVars, gateVars, uiVars>>

\* At the head of a loop no session is in hand.
NextSession == [monitor EXCEPT !.pc = "next", !.current = NoSession, !.consumed = Nothing]

RegistrationFails ==
  /\ monitor.pc = "start"
  /\ Removed({monitor.current})
  /\ SetGate(Evaluated(Gate, m_activeCount'))
  /\ missed' = missed \cup {monitor.current}
  /\ monitor' = NextSession
  /\ UNCHANGED <<windowsVars, arrivalVars, observer, quiet, uiVars>>

-----------------------------------------------------------------------------
(* The monitor thread: refreshState() and processObserverState().          *)

Refreshed ==
  IF monitor.pass = "reconcile" THEN [monitor EXCEPT !.pc = "consume"] ELSE NextSession

GetState ==
  /\ monitor.pc = "query"
  /\ monitor' = [monitor EXCEPT !.pc = "apply", !.seen = actual[monitor.current]]
  /\ UNCHANGED <<windowsVars, arrivalVars, observer, trackerVars, gateVars, uiVars>>

GetStateFails ==
  /\ monitor.pc = "query" /\ changes < MaxChanges
  /\ changes' = changes + 1
  /\ monitor' = Refreshed
  /\ UNCHANGED <<actual, events, callback, arrivalVars, observer, trackerVars, gateVars,
                 uiVars>>

\* applyState() again, on this thread and with an answer that may be stale.
ApplySeen ==
  /\ monitor.pc = "apply"
  /\ LET left == AfterExchange(monitor.current, monitor.seen)
         after == IF left = "idle" THEN Refreshed ELSE [monitor EXCEPT !.pc = left]
     IN  monitor' = [after EXCEPT !.seen = "Inactive"]
  /\ observer' = [observer EXCEPT ![monitor.current].state = monitor.seen]
  /\ UNCHANGED <<windowsVars, arrivalVars, trackerVars, gateVars, uiVars>>

ApplySawActive ==
  /\ monitor.pc = "sawActive"
  /\ observer' = [observer EXCEPT ![monitor.current].sawActive = TRUE]
  /\ monitor' = [monitor EXCEPT !.pc = "source"]
  /\ UNCHANGED <<windowsVars, arrivalVars, trackerVars, gateVars, uiVars>>

ApplySource ==
  /\ monitor.pc = "source"
  /\ observer' = [observer EXCEPT ![monitor.current].source = TRUE]
  /\ monitor' = Refreshed
  /\ UNCHANGED <<windowsVars, arrivalVars, trackerVars, gateVars, uiVars>>

ConsumeSource ==
  /\ monitor.pc = "consume"
  /\ monitor' = [monitor EXCEPT !.pc = "consumeSawActive",
                                !.consumed.source = observer[monitor.current].source]
  /\ observer' = [observer EXCEPT ![monitor.current].source = FALSE]
  /\ UNCHANGED <<windowsVars, arrivalVars, trackerVars, gateVars, uiVars>>

ConsumeSawActive ==
  /\ monitor.pc = "consumeSawActive"
  /\ LET saw == observer[monitor.current].sawActive
     IN  monitor' = IF saw \/ monitor.consumed.source
                    THEN [monitor EXCEPT !.pc = "process", !.consumed.sawActive = saw]
                    ELSE NextSession
  /\ observer' = [observer EXCEPT ![monitor.current].sawActive = FALSE]
  /\ UNCHANGED <<windowsVars, arrivalVars, trackerVars, gateVars, uiVars>>

\* A session that was active and is not any more counts as a pulse.
Pulse_Ignored == FALSE
Pulse == monitor.consumed.sawActive /\ observer[monitor.current].state # "Active"

\* The gate after the pulse, evaluated if it changes the tracked state.
AfterPulse ==
  IF Pulse /\ m_sessionStates[monitor.current] # "Active"
    THEN Evaluated(Gate, m_activeCount + 1)
    ELSE Gate

ProcessObserverState ==
  /\ monitor.pc = "process"
  /\ LET s == monitor.current
     IN  /\ m_sessionStates' = [m_sessionStates EXCEPT ![s] = observer[s].state]
         /\ m_activeCount' = Counted(m_sessionStates[s], observer[s].state)
         /\ IF Pulse \/ m_sessionStates[s] # observer[s].state
              THEN SetGate(Evaluated(AfterPulse, m_activeCount'))
              ELSE UNCHANGED <<micRequested, m_inactiveDeadlineTick>>
  /\ quiet' = IF Pulse \/ m_activeCount' > 0 THEN 0 ELSE quiet
  /\ monitor' = NextSession
  /\ UNCHANGED <<windowsVars, arrivalVars, observer, m_sessions, missed, uiVars>>

-----------------------------------------------------------------------------
(* The monitor thread: reconcile(), from the snapshot on.                  *)

TakeSnapshot ==
  /\ monitor.pc = "next" /\ monitor.pass = "register" /\ monitor.todo = {}
  /\ monitor' = [monitor EXCEPT !.pass = "reconcile", !.todo = m_sessions]
  /\ UNCHANGED <<windowsVars, arrivalVars, observer, trackerVars, gateVars, uiVars>>

Refresh_EventsOnly(s) ==
  /\ monitor.pc = "next" /\ monitor.pass = "reconcile" /\ s \in monitor.todo
  /\ monitor' = [monitor EXCEPT !.pc = "consume", !.todo = @ \ {s}, !.current = s]
  /\ UNCHANGED <<windowsVars, arrivalVars, observer, trackerVars, gateVars, uiVars>>
Refresh(s) ==
  /\ monitor.pc = "next" /\ monitor.pass = "reconcile" /\ s \in monitor.todo
  /\ monitor' = [monitor EXCEPT !.pc = "query", !.todo = @ \ {s}, !.current = s]
  /\ UNCHANGED <<windowsVars, arrivalVars, observer, trackerVars, gateVars, uiVars>>

\* Observers are detached: what callbacks of theirs still do reaches nobody.
Detached(gone) ==
  /\ observer' = [s \in Sessions |-> IF s \in gone THEN NewObserver ELSE observer[s]]
  /\ callback' = [s \in Sessions |-> IF s \in gone THEN "idle" ELSE callback[s]]
  /\ events' = [s \in Sessions |-> IF s \in gone THEN <<>> ELSE events[s]]

CleanupExpiredSessions ==
  /\ monitor.pc = "next" /\ monitor.pass = "reconcile" /\ monitor.todo = {}
  /\ LET gone == {s \in m_sessions : observer[s].state = "Expired"}
     IN  Removed(gone) /\ Detached(gone)
  /\ SetGate(Evaluated(Gate, m_activeCount'))
  /\ monitor' = [monitor EXCEPT !.pc = "evaluate"]
  /\ UNCHANGED <<actual, changes, arrivalVars, missed, quiet, uiVars>>

EvaluateReconciled ==
  /\ monitor.pc = "evaluate"
  /\ SetGate(Evaluated(Gate, m_activeCount))
  /\ monitor' = [monitor EXCEPT !.pc = "wait"]
  /\ UNCHANGED <<windowsVars, arrivalVars, observer, trackerVars, quiet, uiVars>>

WaitForChange ==
  /\ monitor.pc = "wait"
  /\ monitor' = [monitor EXCEPT !.pc = IF running THEN "drain" ELSE "shutdown"]
  /\ UNCHANGED <<windowsVars, arrivalVars, observer, trackerVars, gateVars, uiVars>>

-----------------------------------------------------------------------------
(* The monitor thread: shutdown().                                         *)

StopListening ==
  /\ monitor.pc = "shutdown"
  /\ m_stopping' = TRUE
  /\ listening' = FALSE
  /\ monitor' = [monitor EXCEPT !.pc = "release"]
  /\ UNCHANGED <<windowsVars, announcing, m_pendingSessions, observer, trackerVars, gateVars,
                 uiVars>>

ReleasePendingSessions ==
  /\ monitor.pc = "release"
  /\ m_pendingSessions' = {}
  /\ monitor' = [monitor EXCEPT !.pc = "unregister"]
  /\ UNCHANGED <<windowsVars, announcing, listening, m_stopping, observer, trackerVars,
                 gateVars, uiVars>>

UnregisterAllSessions ==
  /\ monitor.pc = "unregister"
  /\ Removed(m_sessions) /\ Detached(m_sessions)
  /\ m_inactiveDeadlineTick' = NoDeadline
  /\ monitor' = [monitor EXCEPT !.pc = "done"]
  /\ UNCHANGED <<actual, changes, arrivalVars, missed, micRequested, quiet, uiVars>>

Monitor ==
  \/ InitFails \/ InitListens \/ EnumerateExistingSessions
  \/ DrainPendingSessions \/ StartObserver \/ RegistrationFails
  \/ (\E s \in Sessions : RegisterKnown(s) \/ RegisterNew(s) \/ Refresh(s))
  \/ GetState \/ GetStateFails \/ ApplySeen \/ ApplySawActive \/ ApplySource
  \/ ConsumeSource \/ ConsumeSawActive \/ ProcessObserverState
  \/ TakeSnapshot \/ CleanupExpiredSessions \/ EvaluateReconciled \/ WaitForChange
  \/ StopListening \/ ReleasePendingSessions \/ UnregisterAllSessions

-----------------------------------------------------------------------------
(* The UI thread: setDemandModeRuntime(enabled).  A toggle of demand mode  *)
(* calls it with the other value; a toggle that could not be saved, of     *)
(* demand mode or of the hot socket, calls it with the one before.         *)

SetDemandModeRuntime(enabled) ==
  /\ running /\ uiPc = "idle" /\ calls < MaxCalls
  /\ demandMode' = enabled
  /\ quiet' = IF enabled THEN quiet ELSE 0
  /\ calls' = calls + 1
  /\ uiPc' = "modeChanged"
  /\ UNCHANGED <<windowsVars, arrivalVars, observer, trackerVars, micRequested,
                 m_inactiveDeadlineTick, monitor, running>>

OnDemandModeChanged ==
  /\ uiPc = "modeChanged"
  /\ SetGate(Evaluated(Gate, m_activeCount))
  /\ uiPc' = "idle"
  /\ UNCHANGED <<windowsVars, arrivalVars, observer, trackerVars, quiet, monitor, demandMode,
                 running, calls>>

Quit ==
  /\ running /\ uiPc = "idle"
  /\ running' = FALSE
  /\ UNCHANGED <<windowsVars, arrivalVars, observer, trackerVars, gateVars, monitor,
                 demandMode, uiPc, calls>>

\* main() has joined the monitor thread.
Ended ==
  /\ ~running /\ monitor.pc \in {"done", "failed"}
  /\ UNCHANGED vars

Next ==
  \/ \E s \in Sessions : CreateSession(s) \/ Callback(s)
  \/ \E s \in Sessions, state \in Activity : ChangeState(s, state)
  \/ Tick
  \/ Monitor
  \/ \E enabled \in BOOLEAN : SetDemandModeRuntime(enabled)
  \/ OnDemandModeChanged
  \/ Quit
  \/ Ended

Spec == Init /\ [][Next]_vars

\* The threads are scheduled, the callbacks Windows owes are made, and time
\* passes.
FairSpec ==
  /\ Spec
  /\ WF_vars(Monitor) /\ WF_vars(OnDemandModeChanged) /\ WF_vars(Tick)
  /\ \A s \in Sessions : WF_vars(Callback(s))

-----------------------------------------------------------------------------
(* Properties.                                                             *)

TypeOK ==
  /\ actual \in [Sessions -> Activity \cup {"none"}]
  /\ events \in [Sessions -> Seq(Activity)] /\ changes \in 0..MaxChanges
  /\ callback \in [Sessions -> {"idle", "sawActive", "source"}]
  /\ announcing \in SUBSET Sessions /\ m_pendingSessions \in SUBSET Sessions
  /\ listening \in BOOLEAN /\ m_stopping \in BOOLEAN
  /\ observer \in [Sessions -> [registered : BOOLEAN, state : Activity,
                                sawActive : BOOLEAN, source : BOOLEAN]]
  /\ m_sessions \in SUBSET Sessions
  /\ m_sessionStates \in [Sessions -> Activity \cup {"untracked"}]
  /\ m_activeCount \in 0..Cardinality(Sessions)
  /\ m_inactiveDeadlineTick \in {NoDeadline} \cup 0..Grace /\ quiet \in 0..Grace
  /\ monitor \in
       [pc : {"init", "failed", "enumerate", "drain", "next", "start", "query", "apply",
              "sawActive", "source", "consume", "consumeSawActive", "process", "evaluate",
              "wait", "shutdown", "release", "unregister", "done"},
        pass : {"enumerate", "register", "reconcile"},
        todo : SUBSET Sessions, current : Sessions \cup {NoSession},
        seen : Activity, consumed : [source : BOOLEAN, sawActive : BOOLEAN]]
  /\ micRequested \in BOOLEAN /\ demandMode \in BOOLEAN /\ running \in BOOLEAN
  /\ uiPc \in {"idle", "modeChanged"} /\ calls \in 0..MaxCalls
  /\ missed \in SUBSET Sessions

\* The count that opens the gate is the number of tracked sessions that are
\* active, and exactly the listed observers are tracked, however sessions
\* come, change, expire and fail to register.
TrackerAgrees ==
  /\ m_activeCount = Cardinality({s \in Sessions : m_sessionStates[s] = "Active"})
  /\ m_sessions = {s \in Sessions : m_sessionStates[s] # "untracked"}

\* The gate is never closed while an active session is tracked.
ActiveKeepsOpen == m_activeCount > 0 => micRequested

\* The gate closes only after a whole grace period without an active session
\* and in demand mode: a stop and a quick start, however the monitor came to
\* know of them, restart the period.
GraceRespected == [][micRequested /\ ~micRequested' => quiet = Grace]_vars

\* Once shutdown() is over no session is held that a late callback queued.
PendingReleased == monitor.pc = "done" => m_pendingSessions = {}

\* Every session that exists is tracked in the end, whether it was there
\* before the monitor, came while it started, or later.  Excused are a
\* failed enumeration or registration, a failed monitor and the end of the
\* program.
SessionsFound ==
  \A s \in Sessions :
    actual[s] # "none"
      ~> (s \in m_sessions \/ actual[s] = "Expired" \/ s \in missed
          \/ ~running \/ monitor.pc = "failed")

\* While the monitor watches, every session that exists and has not ended is
\* announced, queued, about to be registered or listed: none falls between the
\* enumeration and the notification, or is dropped before its end.
NothingLost ==
  monitor.pc \notin {"init", "enumerate", "failed", "release", "unregister", "done"} =>
    \A s \in Sessions :
      actual[s] \notin {"none", "Expired"} =>
        s \in announcing \cup m_pendingSessions \cup monitor.todo \cup m_sessions \cup missed

\* No change of state is lost between the threads that note it and the one that
\* counts: where tracker and observer differ, the observer's flag is up, a
\* callback is about to raise it, or the monitor has taken it to go and look.
ChangeHandedOn ==
  \A s \in m_sessions :
    m_sessionStates[s] # observer[s].state =>
      \/ observer[s].source
      \/ callback[s] # "idle"
      \/ /\ monitor.current = s
         /\ \/ monitor.pc \in {"sawActive", "source", "process"}
            \/ monitor.pc = "consumeSawActive" /\ monitor.consumed.source

\* Whoever takes the flag of a recording away has it in hand, or drops the
\* observer; and one that has it in hand leaves the gate open.
PulseTaken ==
  [][/\ \A s \in Sessions :
          observer[s].sawActive /\ ~observer'[s].sawActive =>
            \/ observer'[s] = NewObserver /\ s \notin m_sessions'
            \/ /\ monitor'.pc = "process" /\ monitor'.current = s
               /\ monitor'.consumed.sawActive
     /\ monitor.pc = "process" /\ monitor.consumed.sawActive /\ monitor' # monitor
          => micRequested']_vars

\* A recording too short for the 200 ms pass to see still opens the gate
\* (unless its session has ended as well).
PulseOpensGate ==
  \A s \in Sessions :
    observer[s].sawActive ~> (micRequested \/ observer[s].state = "Expired" \/ ~running)

\* Stale answers of GetState(), failures of it and late callbacks are repaired:
\* a program that goes on recording has the gate open for good.
RecordingIsHeard ==
  \A s \in Sessions :
    <>[](actual[s] = "Active" /\ observer[s].registered /\ running) => <>[]micRequested

\* And when nobody records any more, demand mode closes the gate for good.
GateCloses ==
  <>[](demandMode /\ running /\ monitor.pc # "failed"
       /\ \A s \in Sessions : actual[s] # "Active") => <>[]~micRequested

\* Between two calls the gate is as the mode wants it, whatever the monitor
\* thread was doing when the mode changed: in demand mode an open gate that
\* nobody needs has a time to close at, and without it the gate is open once the
\* monitor has evaluated it.
ModeTakesEffect ==
  uiPc = "idle" =>
    /\ demandMode /\ micRequested /\ m_activeCount = 0 /\ monitor.pc \notin {"failed", "done"}
         => m_inactiveDeadlineTick # NoDeadline
    /\ ~demandMode
         /\ monitor.pc \in {"wait", "drain", "shutdown", "release", "unregister", "done"}
         => micRequested

\* main.cpp, of a monitor that failed to start: "Demand Mode temporarily
\* behaves as an always-stream gate until the application is restarted."
FailsOpen == monitor.pc = "failed" => micRequested
=============================================================================
