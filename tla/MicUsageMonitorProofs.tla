------------------------ MODULE MicUsageMonitorProofs ------------------------
(***************************************************************************)
(* Proofs about MicUsageMonitor, for any finite set of sessions, any grace *)
(* period and any number of changes and calls: the count that opens the    *)
(* gate is right, the gate is open while somebody records and closes only  *)
(* after the grace period, shutdown() leaves nothing behind, and no        *)
(* session, pulse, change of state or change of mode is lost between the   *)
(* threads.                                                                *)
(*                                                                         *)
(* Progress says what the monitor thread holds at each place; Deadline     *)
(* ties the gate to the time that has been quiet.  The parts of the type   *)
(* invariant follow the groups of variables the actions leave unchanged.   *)
(***************************************************************************)
EXTENDS MicUsageMonitor, FiniteSetTheorems, TLAPS

Observers == [registered : BOOLEAN, state : Activity, sawActive : BOOLEAN, source : BOOLEAN]
Deadlines == {NoDeadline} \cup 0..Grace
Gates == [open : BOOLEAN, deadline : Deadlines]

InHand == {"start", "query", "apply", "sawActive", "source", "consume", "consumeSawActive",
           "process"}
Places == {"init", "failed", "enumerate", "drain", "next", "evaluate", "wait", "shutdown",
           "release", "unregister", "done"} \cup InHand

WindowsTypes ==
  /\ actual \in [Sessions -> Activity \cup {"none"}]
  /\ events \in [Sessions -> Seq(Activity)] /\ changes \in 0..MaxChanges
  /\ callback \in [Sessions -> {"idle", "sawActive", "source"}]

ArrivalTypes ==
  /\ announcing \in SUBSET Sessions /\ m_pendingSessions \in SUBSET Sessions
  /\ listening \in BOOLEAN /\ m_stopping \in BOOLEAN

ObserverTypes == observer \in [Sessions -> Observers]

TrackerTypes ==
  /\ m_sessions \in SUBSET Sessions
  /\ m_sessionStates \in [Sessions -> Activity \cup {"untracked"}]
  /\ m_activeCount \in 0..Cardinality(Sessions)
  /\ missed \in SUBSET Sessions

GateTypes ==
  /\ micRequested \in BOOLEAN /\ m_inactiveDeadlineTick \in Deadlines /\ quiet \in 0..Grace

MonitorTypes ==
  monitor \in [pc : Places, pass : {"enumerate", "register", "reconcile"},
               todo : SUBSET Sessions, current : Sessions \cup {NoSession},
               seen : Activity, consumed : [source : BOOLEAN, sawActive : BOOLEAN]]

UiTypes ==
  /\ demandMode \in BOOLEAN /\ running \in BOOLEAN
  /\ uiPc \in {"idle", "modeChanged"} /\ calls \in 0..MaxCalls

\* The parts make up the type invariant.
LEMMA TypeParts ==
  TypeOK <=> /\ WindowsTypes /\ ArrivalTypes /\ ObserverTypes /\ TrackerTypes
             /\ GateTypes /\ MonitorTypes /\ UiTypes
BY DEF TypeOK, WindowsTypes, ArrivalTypes, ObserverTypes, TrackerTypes, GateTypes,
       MonitorTypes, UiTypes, Observers, Deadlines, Places, InHand

\* What the monitor thread holds: the session in hand is listed, a snapshot has only
\* listed sessions, every session it knows exists, and after shutdown() none arrives.
Progress ==
  /\ monitor.pc \in InHand => monitor.current \in m_sessions
  /\ monitor.pc \in {"init", "enumerate", "start"} => monitor.pass # "reconcile"
  /\ monitor.pass = "reconcile" => monitor.todo \subseteq m_sessions
  /\ monitor.pc \in {"drain", "evaluate", "wait", "shutdown", "release", "unregister", "done"}
       => monitor.todo = {}
  /\ \A s \in m_sessions \cup monitor.todo \cup m_pendingSessions \cup announcing :
       actual[s] # "none"
  /\ monitor.pc \in {"release", "unregister", "done"} => m_stopping
  /\ monitor.pc \in {"unregister", "done"} => m_pendingSessions = {}

\* An active session leaves no deadline; a deadline counts quiet time down.
Deadline ==
  /\ m_activeCount > 0 => micRequested /\ m_inactiveDeadlineTick = NoDeadline
  /\ ~demandMode /\ uiPc = "idle" => m_inactiveDeadlineTick = NoDeadline
  /\ demandMode /\ m_inactiveDeadlineTick # NoDeadline
       => quiet + m_inactiveDeadlineTick >= Grace

Inv == TypeOK /\ TrackerAgrees /\ Progress /\ Deadline

-----------------------------------------------------------------------------
(* The gate and the tracker.                                               *)

\* What an evaluation of the gate may return, and when it closes it.
LEMMA EvaluatedGate ==
  ASSUME NEW gate \in Gates, NEW active \in Nat, demandMode \in BOOLEAN
  PROVE  /\ Evaluated(gate, active) \in Gates
         /\ ~demandMode \/ active > 0 => /\ Evaluated(gate, active).open
                                         /\ Evaluated(gate, active).deadline = NoDeadline
         /\ \/ Evaluated(gate, active).deadline = NoDeadline
            \/ Evaluated(gate, active).deadline = Grace
            \/ Evaluated(gate, active).deadline = gate.deadline
         /\ gate.open /\ ~Evaluated(gate, active).open =>
              demandMode /\ gate.deadline = 0
<1>. USE GraceAssumption DEF GraceAssumption
<1>1. CASE ~demandMode \/ active > 0
  BY <1>1 DEF Evaluated, Gates, Deadlines, NoDeadline
<1>2. CASE ~(~demandMode \/ active > 0) /\ (~gate.open \/ gate.deadline = 0)
  BY <1>2 DEF Evaluated, Gates, Deadlines, NoDeadline, Closed
<1>3. CASE ~(~demandMode \/ active > 0) /\ ~(~gate.open \/ gate.deadline = 0)
  BY <1>3 DEF Evaluated, Gates, Deadlines, NoDeadline
<1>. QED
  BY <1>1, <1>2, <1>3

\* The gate of a typed state.
LEMMA GateTyped == TypeOK => Gate \in Gates /\ m_activeCount \in Nat /\ demandMode \in BOOLEAN
<1>. SUFFICES ASSUME TypeOK PROVE Gate \in Gates /\ m_activeCount \in Nat /\ demandMode \in BOOLEAN
  OBVIOUS
<1>1. IsFiniteSet(Sessions) => Cardinality(Sessions) \in Nat
  BY FS_CardinalityType
<1>2. m_activeCount \in Nat
  BY <1>1, SessionsAssumption DEF SessionsAssumption, TypeOK
<1>. QED
  BY <1>2 DEF TypeOK, Gate, Gates, Deadlines

Recording == {s \in Sessions : m_sessionStates[s] = "Active"}

\* There are no more of some sessions than sessions.
LEMMA SubsetBound ==
  ASSUME NEW some \in SUBSET Sessions
  PROVE  IsFiniteSet(some) /\ Cardinality(some) \in 0..Cardinality(Sessions)
<1>1. IsFiniteSet(Sessions)
  BY SessionsAssumption DEF SessionsAssumption
<1>2. IsFiniteSet(some) /\ Cardinality(some) <= Cardinality(Sessions)
  BY <1>1, FS_Subset
<1>3. Cardinality(some) \in Nat /\ Cardinality(Sessions) \in Nat
  BY <1>1, <1>2, FS_CardinalityType
<1>. QED
  BY <1>2, <1>3

\* Sessions that are removed take their part of the count with them.
LEMMA RemovedAgrees ==
  ASSUME TypeOK, TrackerAgrees, NEW gone \in SUBSET Sessions, Removed(gone)
  PROVE  /\ TrackerAgrees'
         /\ m_sessions' \in SUBSET Sessions
         /\ m_sessionStates' \in [Sessions -> Activity \cup {"untracked"}]
         /\ m_activeCount' \in 0..Cardinality(Sessions)
         /\ m_sessions' = m_sessions \ gone
         /\ gone = m_sessions => m_activeCount' = 0
<1>. DEFINE leaving == {s \in gone : m_sessionStates[s] = "Active"}
<1>1. Recording' = Recording \ leaving
  BY DEF Removed, Recording
<1>2. Recording \cap leaving = leaving
  BY DEF Recording
<1>3. Cardinality(Recording') = Cardinality(Recording) - Cardinality(leaving)
  <2>1. Recording \in SUBSET Sessions
    BY DEF Recording
  <2>2. Cardinality(Recording \ leaving) =
          Cardinality(Recording) - Cardinality(Recording \cap leaving)
    BY <2>1, SubsetBound, FS_Difference
  <2>. QED
    BY <1>1, <1>2, <2>2
<1>4. m_activeCount' = Cardinality(Recording')
  BY <1>3 DEF Removed, TrackerAgrees, Recording
<1>5. Cardinality(Recording') \in 0..Cardinality(Sessions)
  <2>1. Recording' \in SUBSET Sessions
    BY DEF Recording
  <2>. QED
    BY <2>1, SubsetBound
<1>6. m_sessionStates' \in [Sessions -> Activity \cup {"untracked"}]
  BY DEF Removed, TypeOK
<1>7. m_sessions' = {s \in Sessions : m_sessionStates'[s] # "untracked"}
  BY DEF Removed, TrackerAgrees
<1>8. gone = m_sessions => Recording' = {}
  BY DEF Recording, Removed, TrackerAgrees
<1>9. gone = m_sessions => m_activeCount' = 0
  BY <1>4, <1>8, FS_EmptySet
<1>10. m_sessions' = m_sessions \ gone
  BY DEF Removed
<1>. QED
  BY <1>4, <1>5, <1>6, <1>7, <1>9, <1>10 DEF TrackerAgrees, Recording

\* A session that goes from one tracked state to another changes the count by what
\* Counted says.
LEMMA CountedAgrees ==
  ASSUME TypeOK, TrackerAgrees, NEW s \in m_sessions, NEW state \in Activity,
         m_sessions' = m_sessions,
         m_sessionStates' = [m_sessionStates EXCEPT ![s] = state],
         m_activeCount' = Counted(m_sessionStates[s], state)
  PROVE  /\ TrackerAgrees'
         /\ m_sessionStates' \in [Sessions -> Activity \cup {"untracked"}]
         /\ m_activeCount' \in 0..Cardinality(Sessions)
<1>1. s \in Sessions
  BY DEF TypeOK
<1>2. m_sessionStates' \in [Sessions -> Activity \cup {"untracked"}]
  BY DEF TypeOK
<1>3. m_sessions' = {x \in Sessions : m_sessionStates'[x] # "untracked"}
  BY <1>1 DEF TrackerAgrees, TypeOK, Activity
<1>4. m_activeCount' = Cardinality(Recording')
  <2>1. m_activeCount = Cardinality(Recording) /\ Cardinality(Recording) \in Int
    <3>1. m_activeCount = Cardinality(Recording)
      BY DEF TrackerAgrees, Recording
    <3>2. Recording \in SUBSET Sessions
      BY DEF Recording
    <3>3. Cardinality(Recording) \in Nat
      BY <3>2, SubsetBound, FS_CardinalityType
    <3>. QED
      BY <3>1, <3>3
  <2>2. IsFiniteSet(Recording)
    BY SubsetBound DEF Recording
  <2>3. s \in Recording <=> m_sessionStates[s] = "Active"
    BY <1>1 DEF Recording
  <2>4. CASE state = "Active"
    <3>1. Recording' = Recording \cup {s}
      BY <1>1, <2>4 DEF Recording, TypeOK
    <3>2. Cardinality(Recording') =
            IF s \in Recording THEN Cardinality(Recording) ELSE Cardinality(Recording) + 1
      BY <2>2, <3>1, FS_AddElement
    <3>. QED
      BY <2>1, <2>3, <2>4, <3>2 DEF Counted
  <2>5. CASE state # "Active"
    <3>1. Recording' = Recording \ {s}
      BY <1>1, <2>5 DEF Recording, TypeOK
    <3>2. Cardinality(Recording') =
            IF s \in Recording THEN Cardinality(Recording) - 1 ELSE Cardinality(Recording)
      BY <2>2, <3>1, FS_RemoveElement
    <3>. QED
      BY <2>1, <2>3, <2>5, <3>2 DEF Counted
  <2>. QED
    BY <2>4, <2>5
<1>5. Cardinality(Recording') \in 0..Cardinality(Sessions)
  <2>1. Recording' \in SUBSET Sessions
    BY DEF Recording
  <2>. QED
    BY <2>1, SubsetBound
<1>. QED
  BY <1>2, <1>3, <1>4, <1>5 DEF TrackerAgrees, Recording

-----------------------------------------------------------------------------
(* The types, one group of variables at a time.                            *)

\* What Windows and its callbacks do keeps their types.
LEMMA WindowsTyped == TypeOK /\ [Next]_vars => WindowsTypes'
<1>. SUFFICES ASSUME TypeOK, [Next]_vars PROVE WindowsTypes'
  OBVIOUS
<1>. USE CountAssumption DEF CountAssumption
<1>1. ASSUME NEW s \in Sessions, CreateSession(s) PROVE WindowsTypes'
  BY <1>1 DEF CreateSession, TypeOK, WindowsTypes, Activity
<1>2. ASSUME NEW s \in Sessions, NEW state \in Activity, ChangeState(s, state)
      PROVE  WindowsTypes'
  <2>1. Append(events[s], state) \in Seq(Activity)
    BY DEF TypeOK
  <2>2. events' = [events EXCEPT ![s] = Append(events[s], state)] \/ events' = events
    BY <1>2 DEF ChangeState
  <2>3. events' \in [Sessions -> Seq(Activity)]
    BY <2>1, <2>2 DEF TypeOK
  <2>. QED
    BY <1>2, <2>3 DEF ChangeState, TypeOK, WindowsTypes
<1>3. ASSUME NEW s \in Sessions, OnStateChanged(s) PROVE WindowsTypes'
  <2>1. Tail(events[s]) \in Seq(Activity)
    BY <1>3 DEF OnStateChanged, TypeOK
  <2>2. AfterExchange(s, Head(events[s])) \in {"idle", "sawActive", "source"}
    BY DEF AfterExchange
  <2>. QED
    BY <1>3, <2>1, <2>2 DEF OnStateChanged, TypeOK, WindowsTypes
<1>4. ASSUME NEW s \in Sessions, CallbackSawActive(s) \/ CallbackSource(s)
      PROVE  WindowsTypes'
  BY <1>4 DEF CallbackSawActive, CallbackSource, TypeOK, WindowsTypes
<1>5. CASE GetStateFails
  BY <1>5 DEF GetStateFails, TypeOK, WindowsTypes
<1>6. CASE CleanupExpiredSessions \/ UnregisterAllSessions
  <2>1. PICK gone : Detached(gone) /\ actual' = actual /\ changes' = changes
    BY <1>6 DEF CleanupExpiredSessions, UnregisterAllSessions
  <2>2. <<>> \in Seq(Activity)
    OBVIOUS
  <2>. QED
    BY <2>1, <2>2 DEF Detached, TypeOK, WindowsTypes
<1>7. CASE UNCHANGED windowsVars
  BY <1>7 DEF windowsVars, TypeOK, WindowsTypes
<1>. QED
  BY <1>1, <1>2, <1>3, <1>4, <1>5, <1>6, <1>7
  DEF Next, Monitor, Callback, vars, OnSessionCreated, Tick, InitFails, InitListens,
      EnumerateExistingSessions, DrainPendingSessions, StartObserver, RegistrationFails,
      RegisterKnown, RegisterNew, Refresh, GetState, ApplySeen, ApplySawActive, ApplySource,
      ConsumeSource, ConsumeSawActive, ProcessObserverState, TakeSnapshot,
      EvaluateReconciled, WaitForChange, StopListening, ReleasePendingSessions,
      SetDemandModeRuntime, OnDemandModeChanged, Quit, Ended

\* What arrives is sessions.
LEMMA ArrivalTyped == TypeOK /\ [Next]_vars => ArrivalTypes'
<1>. SUFFICES ASSUME TypeOK, [Next]_vars PROVE ArrivalTypes'
  OBVIOUS
<1>1. ASSUME NEW s \in Sessions, CreateSession(s) \/ OnSessionCreated(s) PROVE ArrivalTypes'
  BY <1>1 DEF CreateSession, OnSessionCreated, Arrived, TypeOK, ArrivalTypes
<1>2. CASE InitFails \/ InitListens \/ StopListening
  <2>1. listening' \in BOOLEAN /\ m_stopping' \in BOOLEAN
    BY <1>2 DEF InitFails, InitListens, StopListening, TypeOK
  <2>. QED
    BY <1>2, <2>1 DEF InitFails, InitListens, StopListening, TypeOK, ArrivalTypes
<1>3. CASE DrainPendingSessions \/ ReleasePendingSessions
  BY <1>3 DEF DrainPendingSessions, ReleasePendingSessions, TypeOK, ArrivalTypes
<1>4. CASE UNCHANGED arrivalVars
  BY <1>4 DEF arrivalVars, TypeOK, ArrivalTypes
<1>. QED
  BY <1>1, <1>2, <1>3, <1>4
  DEF Next, Monitor, Callback, vars, ChangeState, OnStateChanged, CallbackSawActive,
      CallbackSource, Tick, EnumerateExistingSessions, StartObserver, RegistrationFails,
      RegisterKnown, RegisterNew, Refresh, GetState, GetStateFails, ApplySeen,
      ApplySawActive, ApplySource, ConsumeSource, ConsumeSawActive, ProcessObserverState,
      TakeSnapshot, CleanupExpiredSessions, EvaluateReconciled, WaitForChange,
      UnregisterAllSessions, SetDemandModeRuntime, OnDemandModeChanged, Quit, Ended

\* Setting or clearing a flag of an observer leaves an observer.
LEMMA FlagsTyped ==
  ASSUME TypeOK, NEW s \in Sessions
  PROVE  /\ [observer EXCEPT ![s].registered = TRUE] \in [Sessions -> Observers]
         /\ [observer EXCEPT ![s].sawActive = TRUE] \in [Sessions -> Observers]
         /\ [observer EXCEPT ![s].sawActive = FALSE] \in [Sessions -> Observers]
         /\ [observer EXCEPT ![s].source = TRUE] \in [Sessions -> Observers]
         /\ [observer EXCEPT ![s].source = FALSE] \in [Sessions -> Observers]
<1>1. observer \in [Sessions -> Observers]
  BY DEF TypeOK, Observers
<1>2. ASSUME NEW flag \in BOOLEAN
      PROVE  /\ [observer[s] EXCEPT !.registered = flag] \in Observers
             /\ [observer[s] EXCEPT !.sawActive = flag] \in Observers
             /\ [observer[s] EXCEPT !.source = flag] \in Observers
  BY <1>1 DEF Observers
<1>. QED
  BY <1>1, <1>2

\* Observers stay observers.
LEMMA ObserverTyped == TypeOK /\ Progress /\ [Next]_vars => ObserverTypes'
<1>. SUFFICES ASSUME TypeOK, Progress, [Next]_vars PROVE ObserverTypes'
  OBVIOUS
<1>1. observer \in [Sessions -> Observers]
  BY DEF TypeOK, Observers
<1>2. ASSUME NEW s \in Sessions, OnStateChanged(s) PROVE ObserverTypes'
  <2>1. Head(events[s]) \in Activity
    BY <1>2 DEF OnStateChanged, TypeOK
  <2>. QED
    BY <1>1, <1>2, <2>1 DEF OnStateChanged, ObserverTypes, Observers
<1>3. ASSUME NEW s \in Sessions, CallbackSawActive(s) \/ CallbackSource(s)
      PROVE  ObserverTypes'
  <2>1. CASE CallbackSawActive(s)
    BY <2>1, FlagsTyped DEF CallbackSawActive, ObserverTypes
  <2>2. CASE CallbackSource(s)
    BY <2>2, FlagsTyped DEF CallbackSource, ObserverTypes
  <2>. QED
    BY <1>3, <2>1, <2>2
<1>4. monitor.pc \in InHand => monitor.current \in Sessions
  BY DEF Progress, TypeOK
<1>5. CASE StartObserver \/ ApplySawActive \/ ApplySource \/ ConsumeSource \/ ConsumeSawActive
  <2>1. monitor.current \in Sessions
    BY <1>4, <1>5
    DEF StartObserver, ApplySawActive, ApplySource, ConsumeSource, ConsumeSawActive, InHand
  <2>2. CASE StartObserver
    BY <2>1, <2>2, FlagsTyped DEF StartObserver, ObserverTypes
  <2>3. CASE ApplySawActive
    BY <2>1, <2>3, FlagsTyped DEF ApplySawActive, ObserverTypes
  <2>4. CASE ApplySource
    BY <2>1, <2>4, FlagsTyped DEF ApplySource, ObserverTypes
  <2>5. CASE ConsumeSource
    BY <2>1, <2>5, FlagsTyped DEF ConsumeSource, ObserverTypes
  <2>6. CASE ConsumeSawActive
    BY <2>1, <2>6, FlagsTyped DEF ConsumeSawActive, ObserverTypes
  <2>. QED
    BY <1>5, <2>2, <2>3, <2>4, <2>5, <2>6
<1>6. CASE ApplySeen
  <2>1. monitor.seen \in Activity
    BY DEF TypeOK
  <2>. QED
    BY <1>1, <1>4, <1>6, <2>1 DEF ApplySeen, ObserverTypes, Observers, InHand
<1>7. CASE CleanupExpiredSessions \/ UnregisterAllSessions
  <2>1. PICK gone : Detached(gone)
    BY <1>7 DEF CleanupExpiredSessions, UnregisterAllSessions
  <2>2. NewObserver \in Observers
    BY DEF NewObserver, Observers, Activity
  <2>. QED
    BY <1>1, <2>1, <2>2 DEF Detached, ObserverTypes
<1>8. CASE UNCHANGED observer
  BY <1>1, <1>8 DEF ObserverTypes
<1>. QED
  BY <1>2, <1>3, <1>5, <1>6, <1>7, <1>8
  DEF Next, Monitor, Callback, vars, CreateSession, ChangeState, OnSessionCreated, Tick,
      InitFails, InitListens, EnumerateExistingSessions, DrainPendingSessions,
      RegistrationFails, RegisterKnown, RegisterNew, Refresh, GetState, GetStateFails,
      ProcessObserverState, TakeSnapshot, EvaluateReconciled, WaitForChange, StopListening,
      ReleasePendingSessions, SetDemandModeRuntime, OnDemandModeChanged, Quit, Ended

\* The tracker keeps its types, and the count is right after every step.
LEMMA TrackerKept ==
  TypeOK /\ TrackerAgrees /\ Progress /\ [Next]_vars => TrackerTypes' /\ TrackerAgrees'
<1>. SUFFICES ASSUME TypeOK, TrackerAgrees, Progress, [Next]_vars
              PROVE  TrackerTypes' /\ TrackerAgrees'
  OBVIOUS
<1>1. CASE EnumerateExistingSessions
  <2>1. missed' \in SUBSET Sessions
    BY <1>1 DEF EnumerateExistingSessions
  <2>. QED
    BY <1>1, <2>1 DEF EnumerateExistingSessions, TypeOK, TrackerTypes, TrackerAgrees
<1>2. ASSUME NEW s \in Sessions, RegisterNew(s) PROVE TrackerTypes' /\ TrackerAgrees'
  <2>1. /\ m_sessions' = m_sessions \cup {s} /\ m_sessionStates[s] = "untracked"
        /\ m_sessionStates' = [m_sessionStates EXCEPT ![s] = "Inactive"]
        /\ m_activeCount' = m_activeCount /\ missed' = missed
    BY <1>2 DEF RegisterNew
  <2>2. {x \in Sessions : m_sessionStates'[x] = "Active"}
          = {x \in Sessions : m_sessionStates[x] = "Active"}
    BY <2>1 DEF TypeOK
  <2>3. m_sessions' = {x \in Sessions : m_sessionStates'[x] # "untracked"}
    BY <2>1 DEF TypeOK, TrackerAgrees
  <2>4. m_sessionStates' \in [Sessions -> Activity \cup {"untracked"}]
    BY <2>1 DEF TypeOK, Activity
  <2>. QED
    BY <2>1, <2>2, <2>3, <2>4 DEF TypeOK, TrackerTypes, TrackerAgrees
<1>3. CASE RegistrationFails
  <2>1. monitor.current \in Sessions
    BY <1>3 DEF RegistrationFails, Progress, InHand, TypeOK
  <2>2. Removed({monitor.current}) /\ missed' = missed \cup {monitor.current}
    BY <1>3 DEF RegistrationFails
  <2>3. {monitor.current} \in SUBSET Sessions
    BY <2>1
  <2>4. missed' \in SUBSET Sessions
    BY <2>1, <2>2 DEF TypeOK
  <2>. QED
    BY <2>2, <2>3, <2>4, RemovedAgrees DEF TrackerTypes
<1>4. CASE ProcessObserverState
  <2>1. monitor.current \in m_sessions /\ monitor.current \in Sessions
    BY <1>4 DEF ProcessObserverState, Progress, InHand, TypeOK
  <2>2. observer[monitor.current].state \in Activity
    BY <2>1 DEF TypeOK
  <2>3. /\ m_sessions' = m_sessions /\ missed' = missed
        /\ m_sessionStates' =
             [m_sessionStates EXCEPT ![monitor.current] = observer[monitor.current].state]
        /\ m_activeCount' = Counted(m_sessionStates[monitor.current],
                                    observer[monitor.current].state)
    BY <1>4 DEF ProcessObserverState
  <2>. QED
    BY <2>1, <2>2, <2>3, CountedAgrees DEF TrackerTypes, TypeOK
<1>5. CASE CleanupExpiredSessions \/ UnregisterAllSessions
  <2>1. PICK gone \in SUBSET Sessions : Removed(gone) /\ missed' = missed
    BY <1>5 DEF CleanupExpiredSessions, UnregisterAllSessions, TypeOK
  <2>. QED
    BY <2>1, RemovedAgrees DEF TrackerTypes, TypeOK
<1>6. CASE UNCHANGED trackerVars
  BY <1>6 DEF trackerVars, TypeOK, TrackerTypes, TrackerAgrees
<1>. QED
  BY <1>1, <1>2, <1>3, <1>4, <1>5, <1>6
  DEF Next, Monitor, Callback, vars, CreateSession, ChangeState, OnSessionCreated,
      OnStateChanged, CallbackSawActive, CallbackSource, Tick, InitFails, InitListens,
      DrainPendingSessions, StartObserver, RegisterKnown, Refresh, GetState, GetStateFails,
      ApplySeen, ApplySawActive, ApplySource, ConsumeSource, ConsumeSawActive, TakeSnapshot,
      EvaluateReconciled, WaitForChange, StopListening, ReleasePendingSessions,
      SetDemandModeRuntime, OnDemandModeChanged, Quit, Ended

\* A deadline that has just begun has the whole grace period to go.
LEMMA WholePeriod == \A time \in 0..Grace : time + Grace >= Grace
BY GraceAssumption DEF GraceAssumption

\* An evaluation with the right count leaves a sound gate, whatever the pulse before it
\* made of the gate.
LEMMA EvaluatedKeeps ==
  ASSUME TypeOK, NEW gate \in Gates, NEW active \in Nat, SetGate(Evaluated(gate, active)),
         m_activeCount' = active, demandMode' = demandMode, quiet' \in 0..Grace,
         demandMode /\ gate.deadline # NoDeadline => quiet' + gate.deadline >= Grace
  PROVE  /\ GateTypes' /\ Deadline'
         /\ gate.open /\ ~micRequested' => demandMode /\ gate.deadline = 0
<1>. DEFINE next == Evaluated(gate, active)
<1>1. demandMode \in BOOLEAN
  BY DEF TypeOK
<1>2. /\ next \in Gates
      /\ ~demandMode \/ active > 0 => next.open /\ next.deadline = NoDeadline
      /\ \/ next.deadline = NoDeadline \/ next.deadline = Grace
         \/ next.deadline = gate.deadline
      /\ gate.open /\ ~next.open => demandMode /\ gate.deadline = 0
  BY <1>1, EvaluatedGate
<1>3. micRequested' = next.open /\ m_inactiveDeadlineTick' = next.deadline
  BY DEF SetGate
<1>. HIDE DEF next
<1>4. next.open \in BOOLEAN /\ next.deadline \in Deadlines
  BY <1>2 DEF Gates
<1>5. GateTypes'
  BY <1>3, <1>4 DEF GateTypes, Deadlines
<1>6. m_activeCount' > 0 => micRequested' /\ m_inactiveDeadlineTick' = NoDeadline
  BY <1>2, <1>3
<1>7. ~demandMode' => m_inactiveDeadlineTick' = NoDeadline
  BY <1>2, <1>3
<1>8. demandMode' /\ m_inactiveDeadlineTick' # NoDeadline
        => quiet' + m_inactiveDeadlineTick' >= Grace
  <2>1. quiet' + Grace >= Grace
    BY WholePeriod
  <2>2. CASE next.deadline = Grace
    BY <1>3, <2>1, <2>2
  <2>3. CASE next.deadline = gate.deadline
    BY <1>3, <2>3
  <2>. QED
    BY <1>2, <1>3, <2>2, <2>3
<1>9. gate.open /\ ~micRequested' => demandMode /\ gate.deadline = 0
  BY <1>2, <1>3
<1>. QED
  BY <1>5, <1>6, <1>7, <1>8, <1>9 DEF Deadline

\* The gate before and after a step that evaluates it: it closes only when its deadline
\* has run out, and stays sound.
GateSound ==
  /\ GateTypes' /\ Deadline'
  /\ micRequested /\ ~micRequested' => quiet = Grace

\* Every step leaves the gate sound.
LEMMA GateKept == Inv /\ [Next]_vars => GateSound
<1>. SUFFICES ASSUME Inv, TypeOK, TrackerAgrees, Progress, Deadline, [Next]_vars
              PROVE  GateSound
  BY DEF Inv
<1>. USE GraceAssumption DEF GraceAssumption
<1>1. /\ Gate \in Gates /\ Gate.open = micRequested
      /\ Gate.deadline = m_inactiveDeadlineTick
      /\ m_activeCount \in Nat /\ demandMode \in BOOLEAN
  BY GateTyped DEF Gate
<1>2. m_activeCount' \in Nat
  <2>1. Cardinality(Sessions) \in Nat
    BY FS_CardinalityType, SessionsAssumption DEF SessionsAssumption
  <2>2. m_activeCount' \in 0..Cardinality(Sessions)
    BY TrackerKept DEF TrackerTypes
  <2>. QED
    BY <2>1, <2>2
<1>3. ASSUME SetGate(Evaluated(Gate, m_activeCount')), UNCHANGED <<demandMode, quiet>>
      PROVE  GateSound
  <2>1. demandMode /\ Gate.deadline # NoDeadline => quiet' + Gate.deadline >= Grace
    BY <1>1, <1>3 DEF Deadline
  <2>2. quiet' \in 0..Grace
    BY <1>3 DEF TypeOK
  <2>3. /\ GateTypes' /\ Deadline'
        /\ Gate.open /\ ~micRequested' => demandMode /\ Gate.deadline = 0
    BY <1>1, <1>2, <1>3, <2>1, <2>2, EvaluatedKeeps
  <2>4. demandMode /\ Gate.deadline = 0 => quiet = Grace
    <3>1. demandMode /\ Gate.deadline = 0 => quiet + 0 >= Grace
      BY <1>1 DEF Deadline, NoDeadline
    <3>2. quiet \in 0..Grace
      BY DEF TypeOK
    <3>. QED
      BY <3>1, <3>2
  <2>. QED
    BY <1>1, <2>3, <2>4 DEF GateSound
<1>4. ASSUME UNCHANGED <<gateVars, demandMode, m_activeCount>>, uiPc' = uiPc
      PROVE  GateSound
  BY <1>4 DEF gateVars, GateSound, GateTypes, Deadline, TypeOK, Deadlines
<1>5. CASE InitFails
  <2>1. micRequested' = TRUE /\ UNCHANGED <<m_inactiveDeadlineTick, quiet, m_activeCount,
                                            demandMode, uiPc>>
    BY <1>5 DEF InitFails, trackerVars, uiVars
  <2>2. micRequested' \in BOOLEAN
    BY <2>1
  <2>. QED
    BY <2>1, <2>2 DEF GateSound, GateTypes, Deadline, TypeOK, Deadlines
<1>6. CASE Tick
  <2>1. /\ m_inactiveDeadlineTick > 0
        /\ m_inactiveDeadlineTick' = m_inactiveDeadlineTick - 1
        /\ UNCHANGED <<micRequested, m_activeCount, demandMode, uiPc>>
        /\ quiet' = IF m_activeCount > 0 \/ ~demandMode THEN 0
                    ELSE IF quiet < Grace THEN quiet + 1 ELSE Grace
    BY <1>6 DEF Tick, trackerVars, uiVars
  <2>2. m_inactiveDeadlineTick \in 0..Grace /\ m_inactiveDeadlineTick # NoDeadline
    BY <2>1 DEF TypeOK, NoDeadline
  <2>3. m_activeCount = 0
    BY <1>1, <2>2 DEF Deadline
  <2>4. quiet \in 0..Grace /\ quiet' \in 0..Grace
    BY <2>1 DEF TypeOK
  <2>5. m_inactiveDeadlineTick' \in Deadlines
    BY <2>1, <2>2 DEF Deadlines
  <2>6. demandMode => quiet + m_inactiveDeadlineTick >= Grace
    BY <2>2 DEF Deadline
  <2>7. demandMode => quiet' + m_inactiveDeadlineTick' >= Grace
    <3>1. ASSUME demandMode = TRUE PROVE quiet' = IF quiet < Grace THEN quiet + 1 ELSE Grace
      BY <2>1, <2>3, <3>1
    <3>. QED
      BY <2>1, <2>2, <2>4, <2>6, <3>1
  <2>8. ~(~demandMode /\ uiPc = "idle")
    BY <2>2 DEF Deadline
  <2>9. GateTypes'
    BY <2>1, <2>4, <2>5 DEF GateTypes, TypeOK
  <2>10. Deadline'
    BY <2>1, <2>3, <2>7, <2>8 DEF Deadline
  <2>. QED
    BY <2>1, <2>9, <2>10 DEF GateSound
<1>7. CASE RegistrationFails \/ CleanupExpiredSessions
  <2>1. SetGate(Evaluated(Gate, m_activeCount')) /\ UNCHANGED <<demandMode, quiet>>
    BY <1>7 DEF RegistrationFails, CleanupExpiredSessions, uiVars
  <2>. QED
    BY <1>3, <2>1
<1>8. CASE EvaluateReconciled \/ OnDemandModeChanged
  <2>1. SetGate(Evaluated(Gate, m_activeCount)) /\ UNCHANGED <<demandMode, quiet, m_activeCount>>
    BY <1>8 DEF EvaluateReconciled, OnDemandModeChanged, uiVars, trackerVars
  <2>. QED
    BY <1>3, <2>1
<1>9. CASE UnregisterAllSessions
  <2>1. /\ m_inactiveDeadlineTick' = NoDeadline
        /\ UNCHANGED <<micRequested, quiet, demandMode, uiPc>>
    BY <1>9 DEF UnregisterAllSessions, uiVars
  <2>2. m_activeCount' = 0
    <3>1. Removed(m_sessions) /\ m_sessions \in SUBSET Sessions
      BY <1>9 DEF UnregisterAllSessions, TypeOK
    <3>. QED
      BY <3>1, RemovedAgrees
  <2>. QED
    BY <2>1, <2>2 DEF GateSound, GateTypes, Deadline, TypeOK, Deadlines
<1>10. ASSUME NEW enabled \in BOOLEAN, SetDemandModeRuntime(enabled) PROVE GateSound
  <2>1. /\ demandMode' = enabled /\ uiPc' = "modeChanged" /\ uiPc = "idle"
        /\ quiet' = IF enabled THEN quiet ELSE 0
        /\ UNCHANGED <<micRequested, m_inactiveDeadlineTick, m_activeCount>>
    BY <1>10 DEF SetDemandModeRuntime, trackerVars
  <2>2. GateTypes'
    BY <2>1 DEF GateTypes, TypeOK, Deadlines
  <2>3. demandMode' /\ m_inactiveDeadlineTick' # NoDeadline
          => quiet' + m_inactiveDeadlineTick' >= Grace
    BY <1>1, <2>1 DEF Deadline
  <2>. QED
    BY <2>1, <2>2, <2>3 DEF GateSound, Deadline
<1>11. CASE ProcessObserverState
  <2>. DEFINE s == monitor.current
              state == observer[s].state
  <2>1. s \in m_sessions /\ s \in Sessions
    BY <1>11 DEF ProcessObserverState, Progress, InHand, TypeOK
  <2>2. /\ m_activeCount' = Counted(m_sessionStates[s], state)
        /\ IF Pulse \/ m_sessionStates[s] # state
             THEN SetGate(Evaluated(AfterPulse, m_activeCount'))
             ELSE UNCHANGED <<micRequested, m_inactiveDeadlineTick>>
        /\ quiet' = IF Pulse \/ m_activeCount' > 0 THEN 0 ELSE quiet
        /\ UNCHANGED <<demandMode, uiPc>>
    BY <1>11 DEF ProcessObserverState, uiVars
  <2>3. quiet \in 0..Grace /\ quiet' \in 0..Grace
    BY <2>2 DEF TypeOK
  <2>4. CASE ~(Pulse \/ m_sessionStates[s] # state)
    <3>1. m_activeCount' = m_activeCount
      BY <1>1, <2>2, <2>4 DEF Counted
    <3>2. UNCHANGED <<micRequested, m_inactiveDeadlineTick>>
      BY <2>2, <2>4
    <3>3. m_activeCount > 0 \/ quiet' = quiet
      BY <1>1, <2>2, <2>4, <3>1
    <3>4. GateTypes'
      BY <2>3, <3>2 DEF GateTypes, TypeOK, Deadlines
    <3>5. Deadline'
      BY <2>2, <3>1, <3>2, <3>3 DEF Deadline
    <3>. QED
      BY <3>2, <3>4, <3>5 DEF GateSound
  <2>5. CASE ~Pulse /\ m_sessionStates[s] # state
    <3>1. SetGate(Evaluated(Gate, m_activeCount'))
      BY <2>2, <2>5 DEF AfterPulse
    <3>2. CASE m_activeCount' > 0
      <4>1. Evaluated(Gate, m_activeCount') = [open |-> TRUE, deadline |-> NoDeadline]
        BY <3>2 DEF Evaluated
      <4>2. micRequested' = TRUE /\ m_inactiveDeadlineTick' = NoDeadline
        BY <3>1, <4>1 DEF SetGate
      <4>3. micRequested' \in BOOLEAN
        BY <4>2
      <4>. QED
        BY <2>3, <4>2, <4>3 DEF GateSound, GateTypes, Deadline, Deadlines
    <3>3. CASE ~(m_activeCount' > 0)
      BY <1>3, <2>2, <2>5, <3>1, <3>3
    <3>. QED
      BY <3>2, <3>3
  <2>6. CASE Pulse
    <3>1. AfterPulse \in Gates /\ AfterPulse.deadline = NoDeadline /\ AfterPulse.open
      <4>1. CASE m_sessionStates[s] = "Active"
        <5>1. m_activeCount > 0
          <6>1. s \in Recording /\ Recording \in SUBSET Sessions
            BY <2>1, <4>1 DEF Recording
          <6>2. Cardinality(Recording) # 0
            BY <6>1, SubsetBound, FS_EmptySet
          <6>. QED
            BY <1>1, <6>2 DEF TrackerAgrees, Recording
        <5>2. micRequested /\ m_inactiveDeadlineTick = NoDeadline
          BY <5>1 DEF Deadline
        <5>. QED
          BY <1>1, <4>1, <5>2 DEF AfterPulse
      <4>2. CASE m_sessionStates[s] # "Active"
        <5>1. AfterPulse = Evaluated(Gate, m_activeCount + 1)
          BY <2>6, <4>2 DEF AfterPulse
        <5>2. m_activeCount + 1 \in Nat /\ m_activeCount + 1 > 0
          BY <1>1
        <5>. QED
          BY <1>1, <5>1, <5>2, EvaluatedGate
      <4>. QED
        BY <4>1, <4>2
    <3>2. SetGate(Evaluated(AfterPulse, m_activeCount'))
      BY <2>2, <2>6
    <3>3. /\ GateTypes' /\ Deadline'
          /\ AfterPulse.open /\ ~micRequested' => demandMode /\ AfterPulse.deadline = 0
      BY <1>2, <2>2, <2>3, <3>1, <3>2, EvaluatedKeeps
    <3>. QED
      BY <3>1, <3>3 DEF GateSound, NoDeadline
  <2>. QED
    BY <2>4, <2>5, <2>6
<1>12. CASE EnumerateExistingSessions \/ \E s \in Sessions : RegisterNew(s)
  BY <1>4, <1>12 DEF EnumerateExistingSessions, RegisterNew, uiVars
<1>13. CASE WaitForChange \/ Quit
  BY <1>4, <1>13 DEF WaitForChange, Quit, trackerVars, uiVars
<1>14. CASE UNCHANGED <<gateVars, trackerVars, uiVars>>
  BY <1>4, <1>14 DEF trackerVars, uiVars
<1>. QED
  BY <1>5, <1>6, <1>7, <1>8, <1>9, <1>10, <1>11, <1>12, <1>13, <1>14
  DEF Next, Monitor, Callback, vars, CreateSession, ChangeState, OnSessionCreated,
      OnStateChanged, CallbackSawActive, CallbackSource, InitListens, DrainPendingSessions,
      StartObserver, RegisterKnown, Refresh, GetState, GetStateFails, ApplySeen,
      ApplySawActive, ApplySource, ConsumeSource, ConsumeSawActive, TakeSnapshot,
      StopListening, ReleasePendingSessions, Ended

\* The calls of the UI thread are counted.
LEMMA UiTyped == TypeOK /\ [Next]_vars => UiTypes'
<1>. SUFFICES ASSUME TypeOK, [Next]_vars PROVE UiTypes'
  OBVIOUS
<1>. USE CountAssumption DEF CountAssumption
<1>1. ASSUME NEW enabled \in BOOLEAN, SetDemandModeRuntime(enabled) PROVE UiTypes'
  BY <1>1 DEF SetDemandModeRuntime, TypeOK, UiTypes
<1>2. CASE OnDemandModeChanged
  BY <1>2 DEF OnDemandModeChanged, TypeOK, UiTypes
<1>3. CASE Quit
  <2>1. running' \in BOOLEAN
    BY <1>3 DEF Quit
  <2>. QED
    BY <1>3, <2>1 DEF Quit, TypeOK, UiTypes
<1>4. CASE UNCHANGED uiVars
  BY <1>4 DEF uiVars, TypeOK, UiTypes
<1>. QED
  BY <1>1, <1>2, <1>3, <1>4
  DEF Next, Monitor, Callback, vars, CreateSession, ChangeState, OnSessionCreated,
      OnStateChanged, CallbackSawActive, CallbackSource, Tick, InitFails, InitListens,
      EnumerateExistingSessions, DrainPendingSessions, StartObserver, RegistrationFails,
      RegisterKnown, RegisterNew, Refresh, GetState, GetStateFails, ApplySeen,
      ApplySawActive, ApplySource, ConsumeSource, ConsumeSawActive, ProcessObserverState,
      TakeSnapshot, CleanupExpiredSessions, EvaluateReconciled, WaitForChange,
      StopListening, ReleasePendingSessions, UnregisterAllSessions, Ended

Steps == [pc : Places, pass : {"enumerate", "register", "reconcile"},
          todo : SUBSET Sessions, current : Sessions \cup {NoSession},
          seen : Activity, consumed : [source : BOOLEAN, sawActive : BOOLEAN]]

\* The monitor thread goes from place to place.
LEMMA MonitorTyped == TypeOK /\ Progress /\ [Next]_vars => MonitorTypes'
<1>. SUFFICES ASSUME TypeOK, Progress, [Next]_vars PROVE MonitorTypes'
  OBVIOUS
<1>1. monitor \in Steps
  BY TypeParts DEF MonitorTypes, Steps
<1>2. MonitorTypes' <=> monitor' \in Steps
  BY DEF MonitorTypes, Steps
<1>3. /\ NextSession \in Steps /\ Refreshed \in Steps
      /\ \A pc \in Places : [monitor EXCEPT !.pc = pc] \in Steps
  <2>1. Nothing \in [source : BOOLEAN, sawActive : BOOLEAN]
    BY DEF Nothing
  <2>. QED
    BY <1>1, <2>1 DEF NextSession, Refreshed, Steps, Places, InHand
<1>4. CASE InitFails \/ InitListens
  BY <1>2, <1>3, <1>4 DEF InitFails, InitListens, Places
<1>5. CASE EnumerateExistingSessions
  <2>1. PICK found \in SUBSET Sessions :
          monitor' = [monitor EXCEPT !.pc = "next", !.todo = found]
    BY <1>5 DEF EnumerateExistingSessions
  <2>. QED
    BY <1>1, <1>2, <2>1 DEF Steps, Places
<1>6. CASE DrainPendingSessions
  <2>1. m_pendingSessions \in SUBSET Sessions
    BY DEF TypeOK
  <2>. QED
    BY <1>1, <1>2, <1>6, <2>1 DEF DrainPendingSessions, Steps, Places
<1>7. ASSUME NEW s \in Sessions, RegisterKnown(s) \/ RegisterNew(s) \/ Refresh(s)
      PROVE  MonitorTypes'
  <2>1. CASE RegisterKnown(s)
    BY <1>1, <1>2, <2>1 DEF RegisterKnown, Steps
  <2>2. CASE RegisterNew(s)
    BY <1>1, <1>2, <2>2 DEF RegisterNew, Steps, Places, InHand
  <2>3. CASE Refresh(s)
    BY <1>1, <1>2, <2>3 DEF Refresh, Steps, Places, InHand
  <2>. QED
    BY <1>7, <2>1, <2>2, <2>3
<1>8. CASE RegistrationFails \/ GetStateFails \/ ProcessObserverState
  BY <1>2, <1>3, <1>8 DEF RegistrationFails, GetStateFails, ProcessObserverState
<1>9. CASE GetState
  <2>1. monitor.current \in m_sessions /\ monitor.current \in Sessions
    BY <1>9 DEF GetState, Progress, InHand, TypeOK
  <2>2. actual[monitor.current] # "none"
    BY <2>1 DEF Progress
  <2>3. actual[monitor.current] \in Activity
    BY <2>1, <2>2 DEF TypeOK
  <2>4. monitor' = [monitor EXCEPT !.pc = "apply", !.seen = actual[monitor.current]]
    BY <1>9 DEF GetState
  <2>. QED
    BY <1>1, <1>2, <2>3, <2>4 DEF Steps, Places, InHand
<1>10. CASE ApplySeen
  <2>1. PICK after \in Steps : monitor' = [after EXCEPT !.seen = "Inactive"]
    <3>1. AfterExchange(monitor.current, monitor.seen) \in Places \cup {"idle"}
      BY DEF AfterExchange, Places, InHand
    <3>. QED
      BY <1>3, <1>10, <3>1 DEF ApplySeen
  <2>. QED
    BY <1>2, <2>1 DEF Steps, Activity
<1>11. CASE ApplySawActive \/ ApplySource \/ StartObserver
  BY <1>2, <1>3, <1>11 DEF ApplySawActive, ApplySource, StartObserver, Places, InHand
<1>12. CASE ConsumeSource
  <2>1. monitor.current \in Sessions
    BY <1>12 DEF ConsumeSource, Progress, InHand, TypeOK
  <2>2. PICK pending \in BOOLEAN :
          monitor' = [monitor EXCEPT !.pc = "consumeSawActive",
                                     !.consumed = [@ EXCEPT !.source = pending]]
    BY <1>12, <2>1 DEF ConsumeSource, TypeOK
  <2>3. [monitor.consumed EXCEPT !.source = pending] \in [source : BOOLEAN, sawActive : BOOLEAN]
    BY <1>1 DEF Steps
  <2>. QED
    BY <1>1, <1>2, <2>2, <2>3 DEF Steps, Places, InHand
<1>13. CASE ConsumeSawActive
  <2>1. monitor.current \in Sessions
    BY <1>13 DEF ConsumeSawActive, Progress, InHand, TypeOK
  <2>2. CASE monitor' = NextSession
    BY <1>2, <1>3, <2>2
  <2>3. CASE monitor' # NextSession
    <3>1. PICK saw \in BOOLEAN :
            monitor' = [monitor EXCEPT !.pc = "process",
                                       !.consumed = [@ EXCEPT !.sawActive = saw]]
      BY <1>13, <2>1, <2>3 DEF ConsumeSawActive, TypeOK
    <3>2. [monitor.consumed EXCEPT !.sawActive = saw]
            \in [source : BOOLEAN, sawActive : BOOLEAN]
      BY <1>1 DEF Steps
    <3>. QED
      BY <1>1, <1>2, <3>1, <3>2 DEF Steps, Places, InHand
  <2>. QED
    BY <2>2, <2>3
<1>14. CASE TakeSnapshot
  <2>1. m_sessions \in SUBSET Sessions
    BY DEF TypeOK
  <2>. QED
    BY <1>1, <1>2, <1>14, <2>1 DEF TakeSnapshot, Steps
<1>15. CASE CleanupExpiredSessions \/ EvaluateReconciled \/ WaitForChange
  BY <1>2, <1>3, <1>15 DEF CleanupExpiredSessions, EvaluateReconciled, WaitForChange, Places
<1>16. CASE StopListening \/ ReleasePendingSessions \/ UnregisterAllSessions
  BY <1>2, <1>3, <1>16
  DEF StopListening, ReleasePendingSessions, UnregisterAllSessions, Places
<1>17. CASE UNCHANGED monitor
  BY <1>1, <1>2, <1>17
<1>. QED
  BY <1>4, <1>5, <1>6, <1>7, <1>8, <1>9, <1>10, <1>11, <1>12, <1>13, <1>14, <1>15, <1>16,
     <1>17
  DEF Next, Monitor, Callback, vars, CreateSession, ChangeState, OnSessionCreated,
      OnStateChanged, CallbackSawActive, CallbackSource, Tick, SetDemandModeRuntime,
      OnDemandModeChanged, Quit, Ended

\* Every step keeps the types.
LEMMA StepTyped == Inv /\ [Next]_vars => TypeOK'
<1>1. Inv /\ [Next]_vars => /\ WindowsTypes' /\ ArrivalTypes' /\ ObserverTypes'
                           /\ TrackerTypes' /\ GateTypes' /\ MonitorTypes' /\ UiTypes'
  BY WindowsTyped, ArrivalTyped, ObserverTyped, TrackerKept, GateKept, MonitorTyped, UiTyped
  DEF Inv, GateSound
<1>. QED
  BY <1>1 DEF TypeOK, WindowsTypes, ArrivalTypes, ObserverTypes, TrackerTypes, GateTypes,
              MonitorTypes, UiTypes, Observers, Deadlines, Places, InHand

\* The monitor thread never loses what it holds.
LEMMA ProgressKept == Inv /\ [Next]_vars => Progress'
<1>. SUFFICES ASSUME Inv, TypeOK, TrackerAgrees, Progress, [Next]_vars PROVE Progress'
  BY DEF Inv
<1>1. monitor \in Steps
  BY TypeParts DEF MonitorTypes, Steps
<1>2. /\ NextSession.pc = "next" /\ NextSession.todo = monitor.todo
      /\ NextSession.pass = monitor.pass
      /\ \/ Refreshed.pc = "consume" /\ Refreshed.current = monitor.current
         \/ Refreshed.pc = "next"
      /\ Refreshed.pass = monitor.pass /\ Refreshed.todo = monitor.todo
  BY <1>1 DEF NextSession, Refreshed, Steps
<1>3. ASSUME UNCHANGED <<m_sessions, actual, announcing, m_pendingSessions, m_stopping>>,
             monitor'.todo = monitor.todo, monitor'.pass = monitor.pass,
             \/ monitor'.pc = "next"
             \/ /\ monitor'.pc \in InHand \ {"start"} /\ monitor.pc \in InHand
                /\ monitor'.current = monitor.current
      PROVE  Progress'
  BY <1>3 DEF Progress, InHand
<1>4. ASSUME NEW s \in Sessions, CreateSession(s) PROVE Progress'
  <2>1. /\ actual' = [actual EXCEPT ![s] = "Inactive"]
        /\ announcing' = announcing \cup {s} \/ announcing' = announcing
        /\ UNCHANGED <<monitor, m_sessions, m_pendingSessions, m_stopping>>
    BY <1>4 DEF CreateSession, trackerVars
  <2>2. \A x \in Sessions : actual'[x] = actual[x] \/ actual'[x] = "Inactive"
    BY <2>1 DEF TypeOK
  <2>3. actual'[s] = "Inactive"
    BY <2>1 DEF TypeOK
  <2>4. /\ m_sessions \cup monitor.todo \cup m_pendingSessions \cup announcing
             \subseteq Sessions
    BY <1>1 DEF TypeOK, Steps
  <2>. QED
    BY <2>1, <2>2, <2>3, <2>4 DEF Progress
<1>5. ASSUME NEW s \in Sessions, NEW state \in Activity, ChangeState(s, state) PROVE Progress'
  <2>1. /\ actual' = [actual EXCEPT ![s] = state] /\ state # "none"
        /\ UNCHANGED <<monitor, m_sessions, m_pendingSessions, m_stopping, announcing>>
    BY <1>5 DEF ChangeState, trackerVars, arrivalVars, Activity
  <2>2. \A x \in Sessions : actual'[x] = actual[x] \/ actual'[x] = state
    BY <2>1 DEF TypeOK
  <2>3. /\ m_sessions \cup monitor.todo \cup m_pendingSessions \cup announcing
             \subseteq Sessions
    BY <1>1 DEF TypeOK, Steps
  <2>. QED
    BY <2>1, <2>2, <2>3 DEF Progress
<1>6. ASSUME NEW s \in Sessions, OnSessionCreated(s) PROVE Progress'
  <2>1. /\ s \in announcing /\ announcing' = announcing \ {s}
        /\ m_pendingSessions' = IF m_stopping THEN m_pendingSessions
                                ELSE m_pendingSessions \cup {s}
        /\ UNCHANGED <<actual, monitor, m_sessions, m_stopping>>
    BY <1>6 DEF OnSessionCreated, Arrived, trackerVars, windowsVars
  <2>. QED
    BY <2>1 DEF Progress
<1>7. CASE InitFails
  <2>1. /\ monitor'.pc = "failed" /\ monitor'.todo = monitor.todo
        /\ monitor'.pass = monitor.pass
        /\ UNCHANGED <<actual, announcing, m_pendingSessions, m_sessions>>
    BY <1>1, <1>7 DEF InitFails, Steps, trackerVars, windowsVars
  <2>. QED
    BY <2>1 DEF Progress, InHand
<1>8. CASE InitListens
  <2>1. /\ monitor'.pc = "enumerate" /\ monitor'.todo = monitor.todo
        /\ monitor'.pass = monitor.pass /\ monitor.pc = "init"
        /\ UNCHANGED <<actual, announcing, m_pendingSessions, m_sessions, m_stopping>>
    BY <1>1, <1>8 DEF InitListens, Steps, trackerVars, windowsVars
  <2>. QED
    BY <2>1 DEF Progress, InHand
<1>9. CASE EnumerateExistingSessions
  <2>1. PICK found \in SUBSET {s \in Sessions : actual[s] # "none"} :
          monitor' = [monitor EXCEPT !.pc = "next", !.todo = found]
    BY <1>9 DEF EnumerateExistingSessions
  <2>2. /\ monitor'.pc = "next" /\ monitor'.todo = found /\ monitor'.pass = monitor.pass
        /\ UNCHANGED <<actual, announcing, m_pendingSessions, m_sessions, m_stopping>>
    BY <1>1, <1>9, <2>1 DEF EnumerateExistingSessions, Steps, arrivalVars, windowsVars
  <2>3. monitor.pass # "reconcile"
    BY <1>9 DEF EnumerateExistingSessions, Progress
  <2>. QED
    BY <2>2, <2>3 DEF Progress, InHand
<1>10. CASE DrainPendingSessions
  <2>1. /\ monitor'.pc = "next" /\ monitor'.todo = m_pendingSessions
        /\ monitor'.pass = "register" /\ m_pendingSessions' = {}
        /\ UNCHANGED <<actual, announcing, m_sessions, m_stopping>>
    BY <1>1, <1>10 DEF DrainPendingSessions, Steps, trackerVars, windowsVars
  <2>. QED
    BY <2>1 DEF Progress, InHand
<1>11. ASSUME NEW s \in Sessions, RegisterKnown(s) PROVE Progress'
  <2>1. /\ monitor'.pc = "next" /\ monitor'.todo = monitor.todo \ {s}
        /\ monitor'.pass = monitor.pass
        /\ UNCHANGED <<actual, announcing, m_pendingSessions, m_sessions, m_stopping>>
    BY <1>1, <1>11 DEF RegisterKnown, Steps, arrivalVars, trackerVars, windowsVars
  <2>. QED
    BY <2>1 DEF Progress, InHand
<1>12. ASSUME NEW s \in Sessions, RegisterNew(s) PROVE Progress'
  <2>1. /\ monitor'.pc = "start" /\ monitor'.todo = monitor.todo \ {s}
        /\ monitor'.pass = monitor.pass /\ monitor.pass # "reconcile"
        /\ monitor'.current = s /\ m_sessions' = m_sessions \cup {s} /\ s \in monitor.todo
        /\ UNCHANGED <<actual, announcing, m_pendingSessions, m_stopping>>
    BY <1>1, <1>12 DEF RegisterNew, Steps, arrivalVars, windowsVars
  <2>. QED
    BY <2>1 DEF Progress, InHand
<1>13. ASSUME NEW s \in Sessions, Refresh(s) PROVE Progress'
  <2>1. /\ monitor'.pc = "query" /\ monitor'.todo = monitor.todo \ {s}
        /\ monitor'.pass = monitor.pass /\ monitor.pass = "reconcile"
        /\ monitor'.current = s /\ s \in monitor.todo
        /\ UNCHANGED <<actual, announcing, m_pendingSessions, m_sessions, m_stopping>>
    BY <1>1, <1>13 DEF Refresh, Steps, arrivalVars, trackerVars, windowsVars
  <2>. QED
    BY <2>1 DEF Progress, InHand
<1>14. CASE RegistrationFails
  <2>1. /\ monitor' = NextSession /\ m_sessions' = m_sessions \ {monitor.current}
        /\ monitor.pass # "reconcile"
        /\ UNCHANGED <<actual, announcing, m_pendingSessions, m_stopping>>
    BY <1>14 DEF RegistrationFails, Removed, Progress, arrivalVars, windowsVars
  <2>. QED
    BY <1>2, <2>1 DEF Progress, InHand
<1>15. CASE StartObserver
  BY <1>1, <1>3, <1>15 DEF StartObserver, Steps, InHand, arrivalVars, trackerVars, windowsVars
<1>16. CASE GetState
  BY <1>1, <1>3, <1>16 DEF GetState, Steps, InHand, arrivalVars, trackerVars, windowsVars
<1>17. CASE GetStateFails
  <2>1. /\ monitor' = Refreshed /\ monitor.pc \in InHand
        /\ UNCHANGED <<m_sessions, actual, announcing, m_pendingSessions, m_stopping>>
    BY <1>17 DEF GetStateFails, InHand, arrivalVars, trackerVars
  <2>. QED
    BY <1>2, <1>3, <2>1 DEF InHand
<1>18. CASE ApplySeen
  <2>. DEFINE left == AfterExchange(monitor.current, monitor.seen)
              after == IF left = "idle" THEN Refreshed ELSE [monitor EXCEPT !.pc = left]
  <2>1. /\ monitor' = [after EXCEPT !.seen = "Inactive"] /\ monitor.pc \in InHand
        /\ UNCHANGED <<m_sessions, actual, announcing, m_pendingSessions, m_stopping>>
    BY <1>18 DEF ApplySeen, InHand, arrivalVars, trackerVars, windowsVars
  <2>2. left \in {"idle", "sawActive", "source"}
    BY DEF AfterExchange
  <2>3. after.pass = monitor.pass /\ after.todo = monitor.todo
    BY <1>1, <1>2 DEF Steps
  <2>4. \/ after.pc = "next"
        \/ after.pc \in InHand \ {"start"} /\ after.current = monitor.current
    BY <1>1, <1>2, <2>2 DEF Steps, InHand
  <2>5. after \in Steps
    <3>1. Nothing \in [source : BOOLEAN, sawActive : BOOLEAN]
      BY DEF Nothing
    <3>. QED
      BY <1>1, <2>2, <3>1 DEF Refreshed, NextSession, Steps, Places, InHand
  <2>6. /\ monitor'.pc = after.pc /\ monitor'.pass = after.pass
        /\ monitor'.todo = after.todo /\ monitor'.current = after.current
    BY <2>1, <2>5 DEF Steps
  <2>. QED
    BY <1>3, <2>1, <2>3, <2>4, <2>6
<1>19. CASE ApplySawActive
  BY <1>1, <1>3, <1>19 DEF ApplySawActive, Steps, InHand, arrivalVars, trackerVars, windowsVars
<1>20. CASE ApplySource
  <2>1. /\ monitor' = Refreshed /\ monitor.pc \in InHand
        /\ UNCHANGED <<m_sessions, actual, announcing, m_pendingSessions, m_stopping>>
    BY <1>20 DEF ApplySource, InHand, arrivalVars, trackerVars, windowsVars
  <2>. QED
    BY <1>2, <1>3, <2>1 DEF InHand
<1>21. CASE ConsumeSource
  BY <1>1, <1>3, <1>21 DEF ConsumeSource, Steps, InHand, arrivalVars, trackerVars, windowsVars
<1>22. CASE ConsumeSawActive
  <2>1. /\ monitor.pc \in InHand
        /\ UNCHANGED <<m_sessions, actual, announcing, m_pendingSessions, m_stopping>>
    BY <1>22 DEF ConsumeSawActive, InHand, arrivalVars, trackerVars, windowsVars
  <2>2. CASE monitor' = NextSession
    BY <1>2, <1>3, <2>1, <2>2
  <2>3. CASE monitor' # NextSession
    <3>1. PICK saw : monitor' = [monitor EXCEPT !.pc = "process",
                                                !.consumed = [@ EXCEPT !.sawActive = saw]]
      BY <1>22, <2>3 DEF ConsumeSawActive
    <3>2. /\ monitor'.pc = "process" /\ monitor'.todo = monitor.todo
          /\ monitor'.pass = monitor.pass /\ monitor'.current = monitor.current
      BY <1>1, <3>1 DEF Steps
    <3>. QED
      BY <1>3, <2>1, <3>2 DEF InHand
  <2>. QED
    BY <2>2, <2>3
<1>23. CASE ProcessObserverState
  BY <1>2, <1>3, <1>23 DEF ProcessObserverState, arrivalVars, windowsVars
<1>24. CASE TakeSnapshot
  <2>1. /\ monitor'.pc = "next" /\ monitor'.todo = m_sessions
        /\ monitor'.pass = "reconcile"
        /\ UNCHANGED <<actual, announcing, m_pendingSessions, m_sessions, m_stopping>>
    BY <1>1, <1>24 DEF TakeSnapshot, Steps, arrivalVars, trackerVars, windowsVars
  <2>. QED
    BY <2>1 DEF Progress, InHand
<1>25. CASE CleanupExpiredSessions
  <2>1. /\ monitor'.pc = "evaluate" /\ monitor'.todo = {} /\ m_sessions' \subseteq m_sessions
        /\ UNCHANGED <<actual, announcing, m_pendingSessions, m_stopping>>
    BY <1>1, <1>25 DEF CleanupExpiredSessions, Removed, Steps, arrivalVars
  <2>. QED
    BY <2>1 DEF Progress, InHand
<1>26. CASE EvaluateReconciled \/ WaitForChange
  <2>1. /\ monitor'.pc \in {"wait", "drain", "shutdown"} /\ monitor'.todo = monitor.todo
        /\ monitor.pc \in {"evaluate", "wait"}
        /\ UNCHANGED <<actual, announcing, m_pendingSessions, m_sessions, m_stopping>>
    BY <1>1, <1>26
    DEF EvaluateReconciled, WaitForChange, Steps, arrivalVars, trackerVars, windowsVars
  <2>. QED
    BY <2>1 DEF Progress, InHand
<1>27. CASE StopListening \/ ReleasePendingSessions
  <2>1. /\ monitor'.todo = monitor.todo
        /\ \/ monitor'.pc = "release" /\ monitor.pc = "shutdown" /\ m_stopping' = TRUE
              /\ m_pendingSessions' = m_pendingSessions
           \/ monitor'.pc = "unregister" /\ monitor.pc = "release"
              /\ m_pendingSessions' = {} /\ m_stopping' = m_stopping
        /\ UNCHANGED <<actual, announcing, m_sessions>>
    BY <1>1, <1>27 DEF StopListening, ReleasePendingSessions, Steps, trackerVars, windowsVars
  <2>. QED
    BY <2>1 DEF Progress, InHand
<1>28. CASE UnregisterAllSessions
  <2>1. /\ monitor'.pc = "done" /\ monitor'.todo = monitor.todo /\ monitor.pc = "unregister"
        /\ m_sessions' \subseteq m_sessions
        /\ UNCHANGED <<actual, announcing, m_pendingSessions, m_stopping>>
    BY <1>1, <1>28 DEF UnregisterAllSessions, Removed, Steps, arrivalVars
  <2>. QED
    BY <2>1 DEF Progress, InHand
<1>29. CASE UNCHANGED <<actual, arrivalVars, m_sessions, monitor>>
  BY <1>29 DEF arrivalVars, Progress
<1>. QED
  BY <1>4, <1>5, <1>6, <1>7, <1>8, <1>9, <1>10, <1>11, <1>12, <1>13, <1>14, <1>15, <1>16,
     <1>17, <1>18, <1>19, <1>20, <1>21, <1>22, <1>23, <1>24, <1>25, <1>26, <1>27, <1>28,
     <1>29
  DEF Next, Monitor, Callback, vars, windowsVars, trackerVars, OnStateChanged,
      CallbackSawActive, CallbackSource, Tick, SetDemandModeRuntime, OnDemandModeChanged,
      Quit, Ended

-----------------------------------------------------------------------------
(* The theorems.                                                           *)

\* The invariant holds when the program starts.
LEMMA InitInv == Init => Inv
<1>. SUFFICES ASSUME Init PROVE Inv
  OBVIOUS
<1>. USE GraceAssumption, CountAssumption DEF GraceAssumption, CountAssumption
<1>1. Cardinality(Sessions) \in Nat
  BY FS_CardinalityType, SessionsAssumption DEF SessionsAssumption
<1>2. <<>> \in Seq(Activity) /\ NewObserver \in Observers
  BY DEF NewObserver, Observers, Activity
<1>3. WindowsTypes /\ ObserverTypes
  BY <1>2 DEF Init, WindowsTypes, ObserverTypes, Activity
<1>4. ArrivalTypes
  <2>1. listening \in BOOLEAN /\ m_stopping \in BOOLEAN
    BY DEF Init
  <2>. QED
    BY <2>1 DEF Init, ArrivalTypes
<1>5. TrackerTypes
  BY <1>1 DEF Init, TrackerTypes
<1>6. GateTypes
  <2>1. micRequested \in BOOLEAN
    BY DEF Init
  <2>. QED
    BY <2>1 DEF Init, GateTypes, Deadlines
<1>7. MonitorTypes
  <2>1. Nothing \in [source : BOOLEAN, sawActive : BOOLEAN]
    BY DEF Nothing
  <2>. QED
    BY <2>1 DEF Init, MonitorTypes, Places, Activity
<1>8. UiTypes
  <2>1. running \in BOOLEAN
    BY DEF Init
  <2>. QED
    BY <2>1 DEF Init, UiTypes
<1>9. TrackerAgrees
  <2>1. {s \in Sessions : m_sessionStates[s] = "Active"} = {}
    BY DEF Init
  <2>. QED
    BY <2>1, FS_EmptySet DEF Init, TrackerAgrees
<1>10. Progress /\ Deadline
  BY DEF Init, Progress, Deadline, InHand
<1>. QED
  BY <1>3, <1>4, <1>5, <1>6, <1>7, <1>8, <1>9, <1>10, TypeParts DEF Inv

\* Every reachable state satisfies the invariant.
THEOREM InvCorrect == Spec => []Inv
<1>1. Inv /\ [Next]_vars => Inv'
  BY StepTyped, TrackerKept, ProgressKept, GateKept DEF Inv, GateSound
<1>. QED
  BY <1>1, InitInv, PTL DEF Spec

\* Every variable keeps its type, for any number of sessions (mic_usage_monitor.cpp).
THEOREM TypeCorrect == Spec => []TypeOK
BY InvCorrect, PTL DEF Inv

\* The count of active sessions is right, and exactly the listed sessions
\* are tracked (MicSessionStateTracker).
THEOREM TrackerCorrect == Spec => []TrackerAgrees
BY InvCorrect, PTL DEF Inv

\* The gate is open while any tracked session records
\* (evaluateRequestedStateLocked).
THEOREM GateCorrect == Spec => []ActiveKeepsOpen
<1>1. Inv => ActiveKeepsOpen
  BY DEF Inv, Deadline, ActiveKeepsOpen
<1>. QED
  BY <1>1, InvCorrect, PTL

\* The gate closes only after the whole of any grace period
\* (kDeactivateGraceMs, evaluateRequestedStateLocked).
THEOREM GraceCorrect == Spec => GraceRespected
<1>1. Inv /\ [Next]_vars => [micRequested /\ ~micRequested' => quiet = Grace]_vars
  BY GateKept DEF GateSound
<1>. QED
  BY <1>1, InvCorrect, PTL DEF Spec, GraceRespected

\* A session announced while shutdown() runs is released, or never queued
\* (shutdown, OnSessionCreated).
THEOREM ReleaseCorrect == Spec => []PendingReleased
<1>1. Inv => PendingReleased
  BY DEF Inv, Progress, PendingReleased
<1>. QED
  BY <1>1, InvCorrect, PTL
-----------------------------------------------------------------------------
(* No session is lost.                                                     *)

Watching ==
  monitor.pc \notin {"init", "enumerate", "failed", "release", "unregister", "done"}

\* The places at which a session is on its way to be listed, or has been.
Known == announcing \cup m_pendingSessions \cup monitor.todo \cup m_sessions \cup missed

\* New sessions are announced and queued from before the enumeration until shutdown().
Listening ==
  /\ monitor.pc \notin {"failed", "release", "unregister", "done"} => ~m_stopping
  /\ monitor.pc \notin {"init", "failed", "release", "unregister", "done"} => listening

\* Who says that a session has ended is right: its observer, an event under way, or an
\* answer of GetState() not yet applied, however old.
EndIsFinal ==
  /\ \A s \in Sessions : observer[s].state = "Expired" => actual[s] = "Expired"
  /\ \A s \in Sessions : \A i \in 1..Len(events[s]) :
       events[s][i] = "Expired" => actual[s] = "Expired"
  /\ monitor.pc = "apply" /\ monitor.seen = "Expired" => actual[monitor.current] = "Expired"

\* Windows takes back the end of no session, and a new one is not yet known.
LEMMA WindowsSteps ==
  ASSUME TypeOK, [Next]_vars
  PROVE  \A s \in Sessions :
           \/ actual'[s] = actual[s]
           \/ actual[s] = "none" /\ CreateSession(s)
           \/ actual[s] # "Expired" /\ actual[s] # "none" /\ monitor' = monitor
<1>1. ASSUME NEW s \in Sessions, CreateSession(s)
      PROVE  \A x \in Sessions : actual'[x] = actual[x] \/ (x = s /\ actual[s] = "none")
  BY <1>1 DEF CreateSession, TypeOK
<1>2. ASSUME NEW s \in Sessions, NEW state \in Activity, ChangeState(s, state)
      PROVE  /\ \A x \in Sessions : actual'[x] = actual[x] \/ x = s
             /\ actual[s] # "Expired" /\ actual[s] # "none" /\ monitor' = monitor
  BY <1>2 DEF ChangeState, TypeOK
<1>3. CASE UNCHANGED actual
  BY <1>3
<1>. QED
  BY <1>1, <1>2, <1>3
  DEF Next, Monitor, Callback, vars, windowsVars, OnSessionCreated, OnStateChanged,
      CallbackSawActive, CallbackSource, Tick, InitFails, InitListens, EnumerateExistingSessions,
      DrainPendingSessions, StartObserver, RegistrationFails, RegisterKnown, RegisterNew, Refresh,
      GetState, GetStateFails, ApplySeen, ApplySawActive, ApplySource, ConsumeSource,
      ConsumeSawActive, ProcessObserverState, TakeSnapshot, CleanupExpiredSessions,
      EvaluateReconciled, WaitForChange, StopListening, ReleasePendingSessions,
      UnregisterAllSessions, SetDemandModeRuntime, OnDemandModeChanged, Quit, Ended

\* The places after an evaluation of the gate and before the next pass.
Settled == {"wait", "drain", "shutdown", "release", "unregister", "done"}

\* Where the monitor thread comes from.  An answer is in hand after GetState() only, and a
\* thread that has failed or shuts down does not come back.
LEMMA MonitorPlaces ==
  ASSUME TypeOK, Progress, [Next]_vars
  PROVE  /\ monitor'.pc = "apply" => GetState \/ monitor' = monitor
         /\ monitor'.pc \notin {"init", "failed", "release", "unregister", "done"} =>
              \/ InitListens
              \/ /\ monitor.pc \notin {"init", "failed", "release", "unregister", "done"}
                 /\ ~InitFails /\ ~StopListening
         /\ monitor'.pc = "init" => monitor.pc = "init"
         /\ monitor'.pc \in Settled => monitor.pc \in Settled \/ EvaluateReconciled
         /\ monitor.pc \in {"failed", "done"} => monitor' = monitor
<1>. USE DEF Settled
<1>1. monitor \in Steps
  BY TypeParts DEF MonitorTypes, Steps
<1>2. /\ NextSession.pc = "next" /\ Refreshed.pc \in {"next", "consume"}
  BY <1>1 DEF NextSession, Refreshed, Steps
<1>3. CASE InitFails \/ InitListens \/ StopListening
  BY <1>1, <1>3 DEF InitFails, InitListens, StopListening, Steps
<1>4. CASE GetState \/ monitor' = monitor
  BY <1>1, <1>4 DEF GetState, Steps, InitFails, InitListens, StopListening
<1>5. CASE ReleasePendingSessions \/ UnregisterAllSessions \/ WaitForChange
           \/ EvaluateReconciled \/ CleanupExpiredSessions
  <2>1. /\ monitor'.pc \in {"unregister", "done", "drain", "shutdown", "wait", "evaluate"}
        /\ monitor.pc \in {"release", "unregister", "wait", "evaluate", "next"}
        /\ monitor.pc \in {"release", "unregister"} => monitor'.pc \in {"unregister", "done"}
        /\ monitor.pc = "evaluate" => EvaluateReconciled
        /\ monitor.pc = "next" => monitor'.pc = "evaluate"
    BY <1>1, <1>5
    DEF ReleasePendingSessions, UnregisterAllSessions, WaitForChange, EvaluateReconciled,
        CleanupExpiredSessions, Steps
  <2>. QED
    BY <2>1 DEF InitFails, StopListening
<1>6. CASE EnumerateExistingSessions \/ DrainPendingSessions \/ TakeSnapshot
           \/ \E s \in Sessions : RegisterKnown(s) \/ RegisterNew(s) \/ Refresh(s)
  <2>1. /\ monitor'.pc \in {"next", "start", "query"}
        /\ monitor.pc \in {"enumerate", "drain", "next"}
    BY <1>1, <1>6
    DEF EnumerateExistingSessions, DrainPendingSessions, TakeSnapshot, RegisterKnown,
        RegisterNew, Refresh, Steps
  <2>. QED
    BY <2>1 DEF InitFails, StopListening
<1>7. CASE ApplySeen
  <2>. DEFINE left == AfterExchange(monitor.current, monitor.seen)
              after == IF left = "idle" THEN Refreshed ELSE [monitor EXCEPT !.pc = left]
  <2>1. monitor' = [after EXCEPT !.seen = "Inactive"] /\ monitor.pc = "apply"
    BY <1>7 DEF ApplySeen
  <2>2. left \in {"idle", "sawActive", "source"}
    BY DEF AfterExchange
  <2>3. after \in Steps
    <3>1. Nothing \in [source : BOOLEAN, sawActive : BOOLEAN]
      BY DEF Nothing
    <3>. QED
      BY <1>1, <2>2, <3>1 DEF Refreshed, NextSession, Steps, Places, InHand
  <2>4. after.pc \in {"next", "consume", "sawActive", "source"}
    BY <1>1, <1>2, <2>2 DEF Steps
  <2>5. monitor'.pc = after.pc
    BY <2>1, <2>3 DEF Steps
  <2>. QED
    BY <2>1, <2>4, <2>5 DEF InitFails, StopListening
<1>8. CASE ConsumeSawActive
  <2>1. monitor'.pc \in {"process", "next"} /\ monitor.pc = "consumeSawActive"
    <3>1. CASE monitor' = NextSession
      BY <1>2, <1>8, <3>1 DEF ConsumeSawActive
    <3>2. CASE monitor' # NextSession
      <4>1. PICK saw : monitor' = [monitor EXCEPT !.pc = "process",
                                                  !.consumed = [@ EXCEPT !.sawActive = saw]]
        BY <1>8, <3>2 DEF ConsumeSawActive
      <4>. QED
        BY <1>1, <1>8, <4>1 DEF ConsumeSawActive, Steps
    <3>. QED
      BY <3>1, <3>2
  <2>. QED
    BY <2>1 DEF InitFails, StopListening
<1>9. CASE StartObserver \/ RegistrationFails \/ GetStateFails \/ ApplySawActive \/ ApplySource
           \/ ConsumeSource \/ ProcessObserverState
  <2>1. /\ monitor'.pc \in {"query", "next", "consume", "source", "consumeSawActive"}
        /\ monitor.pc \in InHand
    BY <1>1, <1>2, <1>9
    DEF StartObserver, RegistrationFails, GetStateFails, ApplySawActive, ApplySource,
        ConsumeSource, ProcessObserverState, Steps, InHand
  <2>. QED
    BY <2>1 DEF InitFails, StopListening, InHand
<1>. QED
  BY <1>3, <1>4, <1>5, <1>6, <1>7, <1>8, <1>9
  DEF Next, Monitor, Callback, vars, CreateSession, ChangeState, OnSessionCreated, OnStateChanged,
      CallbackSawActive, CallbackSource, Tick, SetDemandModeRuntime, OnDemandModeChanged, Quit,
      Ended

\* The notification stays in force as long as the monitor watches.
LEMMA ListeningKept == TypeOK /\ Progress /\ Listening /\ [Next]_vars => Listening'
<1>. SUFFICES ASSUME TypeOK, Progress, Listening, [Next]_vars PROVE Listening'
  OBVIOUS
<1>0. monitor \in Steps
  BY TypeParts DEF MonitorTypes, Steps
<1>1. CASE InitListens
  BY <1>1 DEF InitListens, Listening
<1>2. CASE UNCHANGED <<listening, m_stopping>> /\ ~InitListens
  BY <1>2, MonitorPlaces DEF Listening
<1>3. CASE InitFails \/ StopListening
  <2>1. monitor'.pc \in {"failed", "release"}
    BY <1>0, <1>3 DEF InitFails, StopListening, Steps
  <2>. QED
    BY <2>1 DEF Listening
<1>. QED
  BY <1>1, <1>2, <1>3
  DEF Next, Monitor, Callback, vars, arrivalVars, CreateSession, ChangeState, OnSessionCreated,
      OnStateChanged, CallbackSawActive, CallbackSource, Tick, EnumerateExistingSessions,
      DrainPendingSessions, StartObserver, RegistrationFails, RegisterKnown, RegisterNew, Refresh,
      GetState, GetStateFails, ApplySeen, ApplySawActive, ApplySource, ConsumeSource,
      ConsumeSawActive, ProcessObserverState, TakeSnapshot, CleanupExpiredSessions,
      EvaluateReconciled, WaitForChange, ReleasePendingSessions, UnregisterAllSessions,
      SetDemandModeRuntime, OnDemandModeChanged, Quit, Ended

\* What is left of a queue of events.
LEMMA TailElements ==
  ASSUME NEW S, NEW q \in Seq(S), q # <<>>
  PROVE  /\ Len(Tail(q)) = Len(q) - 1 /\ Len(q) \in Nat
         /\ \A k \in 1..Len(q) - 1 : Tail(q)[k] = q[k + 1]
OBVIOUS

\* Nobody says that a session has ended before it has.
LEMMA EndKept == TypeOK /\ Progress /\ EndIsFinal /\ [Next]_vars => EndIsFinal'
<1>. SUFFICES ASSUME TypeOK, Progress, EndIsFinal, [Next]_vars PROVE EndIsFinal'
  OBVIOUS
<1>0. monitor \in Steps /\ (monitor.pc \in InHand => monitor.current \in Sessions)
  BY TypeParts DEF MonitorTypes, Steps, Progress, TypeOK
<1>1. \A s \in Sessions : actual[s] = "Expired" => actual'[s] = "Expired"
  BY WindowsSteps
<1>2. ASSUME ~GetState
      PROVE  monitor'.pc = "apply" /\ monitor'.seen = "Expired"
               => actual'[monitor'.current] = "Expired"
  <2>1. monitor'.pc = "apply" => monitor' = monitor
    BY <1>2, MonitorPlaces
  <2>. QED
    BY <1>0, <1>1, <2>1 DEF EndIsFinal, InHand
<1>3. CASE GetState
  <2>1. /\ UNCHANGED <<actual, events, observer>> /\ monitor.current \in Sessions
        /\ monitor' = [monitor EXCEPT !.pc = "apply", !.seen = actual[monitor.current]]
    BY <1>0, <1>3 DEF GetState, windowsVars, InHand
  <2>2. monitor'.current = monitor.current /\ monitor'.seen = actual[monitor.current]
    BY <1>0, <2>1 DEF Steps
  <2>. QED
    BY <2>1, <2>2 DEF EndIsFinal
<1>4. ASSUME NEW s \in Sessions, NEW state \in Activity, ChangeState(s, state)
      PROVE  EndIsFinal'
  <2>1. /\ actual' = [actual EXCEPT ![s] = state] /\ UNCHANGED <<observer, monitor>>
        /\ events' = [events EXCEPT ![s] = Append(events[s], state)] \/ events' = events
        /\ actual[s] # "Expired"
    BY <1>4 DEF ChangeState
  <2>2. ASSUME NEW x \in Sessions, NEW i \in 1..Len(events'[x]), events'[x][i] = "Expired"
        PROVE  actual'[x] = "Expired"
    <3>1. CASE x = s /\ events' # events
      <4>1. /\ events'[s] = Append(events[s], state) /\ events[s] \in Seq(Activity)
            /\ actual'[s] = state
        BY <2>1, <3>1 DEF TypeOK
      <4>2. CASE i = Len(events[s]) + 1
        BY <2>2, <3>1, <4>1, <4>2
      <4>3. CASE i # Len(events[s]) + 1
        <5>1. i \in 1..Len(events[s]) /\ events'[s][i] = events[s][i]
          BY <3>1, <4>1, <4>3
        <5>. QED
          BY <1>1, <2>2, <3>1, <5>1 DEF EndIsFinal
      <4>. QED
        BY <4>2, <4>3
    <3>2. CASE ~(x = s /\ events' # events)
      <4>1. events'[x] = events[x]
        BY <2>1, <3>2 DEF TypeOK
      <4>. QED
        BY <1>1, <2>2, <4>1 DEF EndIsFinal
    <3>. QED
      BY <3>1, <3>2
  <2>3. ~GetState \/ EndIsFinal'
    BY <1>3
  <2>. QED
    BY <1>1, <1>2, <2>1, <2>2, <2>3 DEF EndIsFinal
<1>5. ASSUME NEW s \in Sessions, OnStateChanged(s) PROVE EndIsFinal'
  <2>1. /\ events[s] # <<>> /\ UNCHANGED <<actual, monitor>>
        /\ observer' = [observer EXCEPT ![s].state = Head(events[s])]
        /\ events' = [events EXCEPT ![s] = Tail(events[s])] /\ events[s] \in Seq(Activity)
    BY <1>5 DEF OnStateChanged, TypeOK
  <2>2. Head(events[s]) = "Expired" => actual[s] = "Expired"
    BY <2>1 DEF EndIsFinal
  <2>3. \A x \in Sessions : observer'[x].state = "Expired" => actual[x] = "Expired"
    BY <2>1, <2>2 DEF EndIsFinal, TypeOK
  <2>4. ASSUME NEW x \in Sessions, NEW i \in 1..Len(events'[x]), events'[x][i] = "Expired"
        PROVE  actual[x] = "Expired"
    <3>1. CASE x = s
      <4>1. events'[s] = Tail(events[s])
        BY <2>1 DEF TypeOK
      <4>2. /\ Len(Tail(events[s])) = Len(events[s]) - 1 /\ Len(events[s]) \in Nat
            /\ \A k \in 1..Len(events[s]) - 1 : Tail(events[s])[k] = events[s][k + 1]
        BY <2>1, TailElements
      <4>3. i \in 1..Len(events[s]) - 1
        BY <2>4, <3>1, <4>1, <4>2
      <4>4. i + 1 \in 1..Len(events[s]) /\ events'[s][i] = events[s][i + 1]
        BY <4>1, <4>2, <4>3
      <4>. QED
        BY <2>4, <3>1, <4>4 DEF EndIsFinal
    <3>2. CASE x # s
      BY <2>1, <2>4, <3>2 DEF EndIsFinal, TypeOK
    <3>. QED
      BY <3>1, <3>2
  <2>5. (monitor.pc = "apply" /\ monitor.seen = "Expired" => actual[monitor.current] = "Expired")'
    BY <2>1 DEF EndIsFinal
  <2>. QED
    BY <2>1, <2>3, <2>4, <2>5 DEF EndIsFinal
<1>6. CASE ApplySeen
  <2>1. /\ UNCHANGED <<actual, events>> /\ monitor.pc = "apply" /\ monitor.current \in Sessions
        /\ observer' = [observer EXCEPT ![monitor.current].state = monitor.seen]
    BY <1>0, <1>6 DEF ApplySeen, windowsVars, InHand
  <2>2. \A x \in Sessions : observer'[x].state = "Expired" => actual[x] = "Expired"
    BY <2>1 DEF EndIsFinal, TypeOK
  <2>3. ~GetState
    BY <2>1 DEF GetState
  <2>. QED
    BY <1>2, <2>1, <2>2, <2>3 DEF EndIsFinal
<1>7. CASE CleanupExpiredSessions \/ UnregisterAllSessions
  <2>1. PICK gone : Detached(gone)
    BY <1>7 DEF CleanupExpiredSessions, UnregisterAllSessions
  <2>2. /\ \A x \in Sessions : observer'[x] = NewObserver \/ observer'[x] = observer[x]
        /\ \A x \in Sessions : events'[x] = <<>> \/ events'[x] = events[x]
        /\ actual' = actual
    BY <1>7, <2>1 DEF Detached, CleanupExpiredSessions, UnregisterAllSessions
  <2>3. ~GetState
    BY <1>7 DEF CleanupExpiredSessions, UnregisterAllSessions, GetState
  <2>. QED
    BY <1>2, <2>2, <2>3 DEF EndIsFinal, NewObserver
<1>8. CASE /\ UNCHANGED events /\ ~GetState
           /\ \A s \in Sessions : observer'[s].state = observer[s].state
  BY <1>1, <1>2, <1>8 DEF EndIsFinal
<1>9. ASSUME NEW s \in Sessions, CallbackSawActive(s) \/ CallbackSource(s) PROVE EndIsFinal'
  <2>1. /\ UNCHANGED events
        /\ \A x \in Sessions : observer'[x].state = observer[x].state
    BY <1>9 DEF CallbackSawActive, CallbackSource, TypeOK
  <2>. QED
    BY <1>3, <1>8, <2>1
<1>10. CASE StartObserver \/ ApplySawActive \/ ApplySource \/ ConsumeSource \/ ConsumeSawActive
  <2>1. monitor.current \in Sessions /\ UNCHANGED events
    BY <1>0, <1>10
    DEF StartObserver, ApplySawActive, ApplySource, ConsumeSource, ConsumeSawActive, windowsVars,
        InHand
  <2>2. PICK flag \in BOOLEAN :
          \/ observer' = [observer EXCEPT ![monitor.current].registered = flag]
          \/ observer' = [observer EXCEPT ![monitor.current].sawActive = flag]
          \/ observer' = [observer EXCEPT ![monitor.current].source = flag]
    BY <1>10
    DEF StartObserver, ApplySawActive, ApplySource, ConsumeSource, ConsumeSawActive
  <2>3. \A x \in Sessions : observer'[x].state = observer[x].state
    <3>. USE <2>1 DEF TypeOK
    <3>1. CASE observer' = [observer EXCEPT ![monitor.current].registered = flag]
      BY <3>1
    <3>2. CASE observer' = [observer EXCEPT ![monitor.current].sawActive = flag]
      BY <3>2
    <3>3. CASE observer' = [observer EXCEPT ![monitor.current].source = flag]
      BY <3>3
    <3>. QED
      BY <2>2, <3>1, <3>2, <3>3
  <2>. QED
    BY <1>3, <1>8, <2>1, <2>3
<1>11. CASE UNCHANGED <<events, observer>>
  BY <1>3, <1>8, <1>11
<1>. QED
  BY <1>3, <1>4, <1>5, <1>6, <1>7, <1>9, <1>10, <1>11
  DEF Next, Monitor, Callback, vars, windowsVars, CreateSession, OnSessionCreated, Tick, InitFails,
      InitListens, EnumerateExistingSessions, DrainPendingSessions, RegistrationFails,
      RegisterKnown, RegisterNew, Refresh, GetStateFails, ProcessObserverState, TakeSnapshot,
      EvaluateReconciled, WaitForChange, StopListening, ReleasePendingSessions,
      SetDemandModeRuntime, OnDemandModeChanged, Quit, Ended

\* A step of the watching monitor, or of a callback, hands every session on.
LEMMA KnownKept ==
  ASSUME Inv, Listening, EndIsFinal, [Next]_vars, Watching, Watching', NEW s \in Known
  PROVE  s \in Known' \/ actual[s] = "Expired"
<1>0. monitor \in Steps /\ TypeOK /\ TrackerAgrees /\ Progress
  BY TypeParts DEF Inv, MonitorTypes, Steps
<1>1. NextSession.todo = monitor.todo /\ Refreshed.todo = monitor.todo
  BY <1>0 DEF NextSession, Refreshed, Steps
<1>. USE DEF Known
<1>2. CASE UNCHANGED <<announcing, m_pendingSessions, m_sessions, missed>>
           /\ monitor'.todo = monitor.todo
  BY <1>2
<1>3. ASSUME NEW x \in Sessions, CreateSession(x) PROVE s \in Known'
  BY <1>3 DEF CreateSession, trackerVars
<1>4. ASSUME NEW x \in Sessions, OnSessionCreated(x) PROVE s \in Known'
  BY <1>4 DEF OnSessionCreated, Arrived, trackerVars, Listening, Watching
<1>5. CASE DrainPendingSessions
  <2>1. monitor.todo = {} /\ monitor'.todo = m_pendingSessions
    BY <1>0, <1>5 DEF DrainPendingSessions, Progress, Steps
  <2>. QED
    BY <1>5, <2>1 DEF DrainPendingSessions, trackerVars
<1>6. ASSUME NEW x \in Sessions, RegisterKnown(x) \/ RegisterNew(x) \/ Refresh(x)
      PROVE  s \in Known'
  <2>1. /\ monitor'.todo = monitor.todo \ {x} /\ x \in m_sessions'
        /\ m_sessions \subseteq m_sessions'
    BY <1>0, <1>6
    DEF RegisterKnown, RegisterNew, Refresh, Steps, Progress, TrackerAgrees, trackerVars
  <2>. QED
    BY <1>6, <2>1 DEF RegisterKnown, RegisterNew, Refresh, arrivalVars, trackerVars
<1>7. CASE RegistrationFails
  BY <1>1, <1>7 DEF RegistrationFails, Removed, arrivalVars
<1>8. CASE TakeSnapshot
  <2>1. monitor.todo = {}
    BY <1>8 DEF TakeSnapshot
  <2>. QED
    BY <1>8, <2>1 DEF TakeSnapshot, arrivalVars, trackerVars
<1>9. CASE CleanupExpiredSessions
  <2>1. monitor'.todo = monitor.todo
    BY <1>0, <1>9 DEF CleanupExpiredSessions, Steps
  <2>2. \A x \in m_sessions : x \in m_sessions' \/ observer[x].state = "Expired"
    BY <1>9 DEF CleanupExpiredSessions, Removed
  <2>3. m_sessions \subseteq Sessions
    BY <1>0 DEF TypeOK
  <2>. QED
    BY <1>9, <2>1, <2>2, <2>3 DEF CleanupExpiredSessions, arrivalVars, EndIsFinal
<1>10. CASE \/ StartObserver \/ GetState \/ GetStateFails \/ ApplySawActive
            \/ ApplySource \/ ConsumeSource \/ ConsumeSawActive \/ ProcessObserverState
            \/ EvaluateReconciled \/ WaitForChange
  <2>1. monitor'.todo = monitor.todo
    <3>1. CASE ConsumeSawActive
      <4>1. CASE monitor' = NextSession
        BY <1>1, <4>1
      <4>2. CASE monitor' # NextSession
        <5>1. PICK saw : monitor' = [monitor EXCEPT !.pc = "process",
                                                    !.consumed = [@ EXCEPT !.sawActive = saw]]
          BY <3>1, <4>2 DEF ConsumeSawActive
        <5>. QED
          BY <1>0, <5>1 DEF Steps
      <4>. QED
        BY <4>1, <4>2
    <3>2. CASE ~ConsumeSawActive
      BY <1>0, <1>1, <1>10, <3>2
      DEF StartObserver, GetState, GetStateFails, ApplySawActive, ApplySource, ConsumeSource,
          ProcessObserverState, EvaluateReconciled, WaitForChange, Steps
    <3>. QED
      BY <3>1, <3>2
  <2>. QED
    BY <1>2, <1>10, <2>1
    DEF StartObserver, GetState, GetStateFails, ApplySawActive, ApplySource, ConsumeSource,
        ConsumeSawActive, ProcessObserverState, EvaluateReconciled, WaitForChange, arrivalVars,
        trackerVars
<1>11. CASE ApplySeen
  <2>. DEFINE left == AfterExchange(monitor.current, monitor.seen)
              after == IF left = "idle" THEN Refreshed ELSE [monitor EXCEPT !.pc = left]
  <2>1. monitor' = [after EXCEPT !.seen = "Inactive"]
        /\ UNCHANGED <<announcing, m_pendingSessions, m_sessions, missed>>
    BY <1>11 DEF ApplySeen, arrivalVars, trackerVars
  <2>2. after.todo = monitor.todo /\ after \in Steps
    <3>1. Nothing \in [source : BOOLEAN, sawActive : BOOLEAN]
      BY DEF Nothing
    <3>2. left \in {"idle", "sawActive", "source"}
      BY DEF AfterExchange
    <3>. QED
      BY <1>0, <1>1, <3>1, <3>2 DEF Refreshed, NextSession, Steps, Places, InHand
  <2>3. monitor'.todo = after.todo
    BY <2>1, <2>2 DEF Steps
  <2>. QED
    BY <1>2, <2>1, <2>2, <2>3
<1>12. ~(EnumerateExistingSessions \/ InitListens \/ InitFails \/ StopListening
         \/ ReleasePendingSessions \/ UnregisterAllSessions)
  <2>1. ~StopListening
    BY MonitorPlaces, <1>0 DEF Watching, InitListens
  <2>. QED
    BY <2>1
    DEF Watching, EnumerateExistingSessions, InitListens, InitFails, ReleasePendingSessions,
        UnregisterAllSessions
<1>13. CASE UNCHANGED <<arrivalVars, trackerVars, monitor>>
  BY <1>2, <1>13 DEF arrivalVars, trackerVars
<1>. QED
  BY <1>3, <1>4, <1>5, <1>6, <1>7, <1>8, <1>9, <1>10, <1>11, <1>12, <1>13
  DEF Next, Monitor, Callback, vars, ChangeState, OnStateChanged, CallbackSawActive,
      CallbackSource, Tick, SetDemandModeRuntime, OnDemandModeChanged, Quit, Ended

\* Nothing is lost by any step: the enumeration takes over what was there, the
\* notification what comes, and each hands on to the next.
LEMMA LostKept ==
  Inv /\ Listening /\ EndIsFinal /\ NothingLost /\ [Next]_vars => NothingLost'
<1>. SUFFICES ASSUME Inv, Listening, EndIsFinal, NothingLost, [Next]_vars, Watching',
                     NEW s \in Sessions, actual'[s] \notin {"none", "Expired"}
              PROVE  s \in Known'
  BY DEF NothingLost, Watching, Known
<1>0. TypeOK /\ Progress /\ monitor \in Steps
  BY TypeParts DEF Inv, MonitorTypes, Steps
<1>1. CASE Watching
  <2>1. CASE actual[s] = "none" /\ CreateSession(s)
    BY <1>1, <2>1 DEF CreateSession, Listening, Watching, Known, trackerVars
  <2>2. CASE actual[s] \notin {"none", "Expired"}
    <3>1. s \in Known
      BY <1>1, <2>2 DEF NothingLost, Watching, Known
    <3>. QED
      BY <1>1, <2>2, <3>1, KnownKept
  <2>. QED
    BY <1>0, <2>1, <2>2, WindowsSteps
<1>2. CASE ~Watching
  <2>1. ~InitListens
    <3>1. InitListens => monitor'.pc = "enumerate"
      BY <1>0 DEF InitListens, Steps
    <3>. QED
      BY <3>1 DEF Watching
  <2>2. monitor.pc = "enumerate" /\ monitor' # monitor
    BY <1>0, <1>2, <2>1, MonitorPlaces DEF Watching
  <2>3. EnumerateExistingSessions
    BY <2>2
    DEF Next, Monitor, Callback, vars, CreateSession, ChangeState, OnSessionCreated,
        OnStateChanged, CallbackSawActive, CallbackSource, Tick, InitFails, InitListens,
        DrainPendingSessions, StartObserver, RegistrationFails, RegisterKnown, RegisterNew,
        Refresh, GetState, GetStateFails, ApplySeen, ApplySawActive, ApplySource, ConsumeSource,
        ConsumeSawActive, ProcessObserverState, TakeSnapshot, CleanupExpiredSessions,
        EvaluateReconciled, WaitForChange, StopListening, ReleasePendingSessions,
        UnregisterAllSessions, SetDemandModeRuntime, OnDemandModeChanged, Quit, Ended, InitFails,
        StopListening
  <2>. DEFINE existing == {x \in Sessions : actual[x] # "none"}
  <2>4. PICK found \in SUBSET existing :
          /\ monitor' = [monitor EXCEPT !.pc = "next", !.todo = found]
          /\ missed' = existing \ (found \cup announcing \cup m_pendingSessions)
          /\ UNCHANGED <<actual, announcing, m_pendingSessions>>
    BY <2>3 DEF EnumerateExistingSessions, arrivalVars, windowsVars
  <2>5. monitor'.todo = found /\ s \in existing
    BY <1>0, <2>4 DEF Steps
  <2>. QED
    BY <2>4, <2>5 DEF Known
<1>. QED
  BY <1>1, <1>2

\* Sessions come before, while and after the monitor starts; none that lasts is lost
\* (EnumerateExistingSessions, OnSessionCreated, drainPendingSessions, cleanup).
THEOREM FoundCorrect == Spec => []NothingLost
<1>. DEFINE All == Listening /\ EndIsFinal /\ NothingLost
<1>1. Init => All
  BY DEF Init, Listening, EndIsFinal, NothingLost, NewObserver
<1>2. Inv /\ All /\ [Next]_vars => All'
  BY ListeningKept, EndKept, LostKept DEF Inv
<1>3. All => NothingLost
  OBVIOUS
<1>. QED
  BY <1>1, <1>2, <1>3, InvCorrect, PTL DEF Spec

-----------------------------------------------------------------------------
(* No pulse is lost.                                                       *)

\* A session tracked as active is counted.
LEMMA ActiveCounts ==
  ASSUME TypeOK, TrackerAgrees, NEW s \in Sessions, m_sessionStates[s] = "Active"
  PROVE  m_activeCount > 0
<1>1. Recording \in SUBSET Sessions /\ s \in Recording
  BY DEF Recording
<1>2. IsFiniteSet(Recording) /\ Cardinality(Recording) # 0
  BY <1>1, SubsetBound, FS_EmptySet
<1>3. m_activeCount = Cardinality(Recording) /\ m_activeCount \in Nat
  BY GateTyped DEF TrackerAgrees, Recording
<1>. QED
  BY <1>2, <1>3

\* The flag of a recording is cleared by taking it in hand, or with its observer.
LEMMA FlagTaken ==
  ASSUME Inv, [Next]_vars, NEW s \in Sessions, observer[s].sawActive, ~observer'[s].sawActive
  PROVE  \/ observer'[s] = NewObserver /\ s \notin m_sessions'
         \/ /\ monitor'.pc = "process" /\ monitor'.current = s
            /\ monitor'.consumed.sawActive
<1>0. /\ TypeOK /\ monitor \in Steps /\ observer \in [Sessions -> Observers]
      /\ monitor.pc \in InHand => monitor.current \in Sessions
  BY TypeParts DEF Inv, MonitorTypes, Steps, ObserverTypes, Progress, TypeOK
<1>1. CASE CleanupExpiredSessions \/ UnregisterAllSessions
  <2>1. PICK gone : Detached(gone) /\ Removed(gone)
    BY <1>1 DEF CleanupExpiredSessions, UnregisterAllSessions
  <2>2. s \in gone
    BY <2>1 DEF Detached
  <2>. QED
    BY <2>1, <2>2 DEF Detached, Removed
<1>2. CASE ConsumeSawActive
  <2>1. monitor.current = s
    BY <1>0, <1>2 DEF ConsumeSawActive, InHand
  <2>2. monitor' = [monitor EXCEPT !.pc = "process", !.consumed.sawActive = observer[s].sawActive]
    BY <1>2, <2>1 DEF ConsumeSawActive
  <2>. QED
    BY <1>0, <2>1, <2>2 DEF Steps
<1>3. ASSUME NEW x \in Sessions,
             OnStateChanged(x) \/ CallbackSawActive(x) \/ CallbackSource(x)
      PROVE  FALSE
  <2>1. CASE OnStateChanged(x)
    BY <1>0, <2>1 DEF OnStateChanged, Observers
  <2>2. CASE CallbackSawActive(x)
    BY <1>0, <2>2 DEF CallbackSawActive, Observers
  <2>3. CASE CallbackSource(x)
    BY <1>0, <2>3 DEF CallbackSource, Observers
  <2>. QED
    BY <1>3, <2>1, <2>2, <2>3
<1>4. CASE StartObserver
  BY <1>0, <1>4 DEF StartObserver, Observers
<1>5. CASE ApplySeen
  BY <1>0, <1>5 DEF ApplySeen, Observers
<1>6. CASE ApplySawActive
  BY <1>0, <1>6 DEF ApplySawActive, Observers
<1>7. CASE ApplySource
  BY <1>0, <1>7 DEF ApplySource, Observers
<1>8. CASE ConsumeSource
  BY <1>0, <1>8 DEF ConsumeSource, Observers
<1>9. CASE UNCHANGED observer
  BY <1>9
<1>. QED
  BY <1>1, <1>2, <1>3, <1>4, <1>5, <1>6, <1>7, <1>8, <1>9
  DEF Next, Monitor, Callback, vars, CreateSession, ChangeState, OnSessionCreated, Tick,
      InitFails, InitListens, EnumerateExistingSessions, DrainPendingSessions,
      RegistrationFails, RegisterKnown, RegisterNew, Refresh, GetState, GetStateFails,
      ProcessObserverState, TakeSnapshot, EvaluateReconciled, WaitForChange, StopListening,
      ReleasePendingSessions, SetDemandModeRuntime, OnDemandModeChanged, Quit, Ended

\* A recording in hand opens the gate, were it over already, or leaves it open.
LEMMA PulseOpens ==
  ASSUME Inv, [Next]_vars, monitor.pc = "process", monitor.consumed.sawActive,
         monitor' # monitor
  PROVE  micRequested'
<1>. DEFINE s == monitor.current
<1>0. /\ TypeOK /\ TrackerAgrees /\ Deadline /\ s \in Sessions
      /\ Gate \in Gates /\ m_activeCount \in Nat /\ demandMode \in BOOLEAN
  BY GateTyped DEF Inv, Progress, InHand, TypeOK
<1>1. ProcessObserverState
  BY DEF Next, Monitor, Callback, vars, CreateSession, ChangeState, OnSessionCreated,
         OnStateChanged, CallbackSawActive, CallbackSource, Tick, InitFails, InitListens,
         EnumerateExistingSessions, DrainPendingSessions, StartObserver, RegistrationFails,
         RegisterKnown, RegisterNew, Refresh, GetState, GetStateFails, ApplySeen, ApplySawActive,
         ApplySource, ConsumeSource, ConsumeSawActive, TakeSnapshot, CleanupExpiredSessions,
         EvaluateReconciled, WaitForChange, StopListening, ReleasePendingSessions,
         UnregisterAllSessions, SetDemandModeRuntime, OnDemandModeChanged, Quit, Ended
<1>2. m_activeCount' \in Nat
  BY <1>1, <1>0, StepTyped, GateTyped DEF TypeOK
<1>3. m_sessionStates[s] = "Active" => /\ Gate.open /\ Gate.deadline = NoDeadline
                                       /\ micRequested
  BY <1>0, ActiveCounts DEF Deadline, Gate
<1>4. CASE Pulse
  <2>1. /\ AfterPulse \in Gates /\ AfterPulse.open /\ AfterPulse.deadline = NoDeadline
    <3>1. CASE m_sessionStates[s] = "Active"
      BY <1>0, <1>3, <3>1 DEF AfterPulse
    <3>2. CASE m_sessionStates[s] # "Active"
      <4>1. m_activeCount + 1 \in Nat /\ m_activeCount + 1 > 0
        BY <1>0
      <4>2. AfterPulse = Evaluated(Gate, m_activeCount + 1)
        BY <1>4, <3>2 DEF AfterPulse
      <4>. QED
        BY <1>0, <4>1, <4>2, EvaluatedGate
    <3>. QED
      BY <3>1, <3>2
  <2>2. SetGate(Evaluated(AfterPulse, m_activeCount'))
    BY <1>1, <1>4 DEF ProcessObserverState
  <2>3. Evaluated(AfterPulse, m_activeCount').open
    BY <1>0, <1>2, <2>1, EvaluatedGate DEF NoDeadline, Gates
  <2>. QED
    BY <2>2, <2>3 DEF SetGate
<1>5. CASE ~Pulse
  <2>1. observer[s].state = "Active"
    BY <1>5 DEF Pulse
  <2>2. CASE m_sessionStates[s] = "Active"
    BY <1>1, <1>3, <1>5, <2>1, <2>2 DEF ProcessObserverState
  <2>3. CASE m_sessionStates[s] # "Active"
    <3>1. m_activeCount' > 0
      BY <1>0, <1>1, <2>1, <2>3 DEF ProcessObserverState, Counted
    <3>2. SetGate(Evaluated(Gate, m_activeCount'))
      BY <1>1, <1>5, <2>1, <2>3 DEF ProcessObserverState, AfterPulse
    <3>3. Evaluated(Gate, m_activeCount').open
      BY <1>0, <1>2, <3>1, EvaluatedGate
    <3>. QED
      BY <3>2, <3>3 DEF SetGate
  <2>. QED
    BY <2>2, <2>3
<1>. QED
  BY <1>4, <1>5

\* A recording of any length, seen by a callback or by GetState(), opens the gate with the
\* step that takes note of it (consumeSawActive, processObserverState).
THEOREM PulseCorrect == Spec => PulseTaken
<1>1. Inv /\ [Next]_vars =>
        [/\ \A s \in Sessions :
              observer[s].sawActive /\ ~observer'[s].sawActive =>
                \/ observer'[s] = NewObserver /\ s \notin m_sessions'
                \/ /\ monitor'.pc = "process" /\ monitor'.current = s
                   /\ monitor'.consumed.sawActive
         /\ monitor.pc = "process" /\ monitor.consumed.sawActive /\ monitor' # monitor
              => micRequested']_vars
  BY FlagTaken, PulseOpens
<1>. QED
  BY <1>1, InvCorrect, PTL DEF Spec, PulseTaken

-----------------------------------------------------------------------------
(* No change of state is lost.                                             *)

\* An observer nobody has started, or whose session was let go.
Fresh(s) == observer[s] = NewObserver /\ callback[s] = "idle" /\ events[s] = <<>>
Unborn(s) == s \notin m_sessions \/ (monitor.pc = "start" /\ monitor.current = s)
FreshInv == \A s \in Sessions : Unborn(s) => Fresh(s)

\* The two halves of ChangeHandedOn: a mark on the observer, or the monitor's hand.
Marked(s) == observer[s].source \/ callback[s] # "idle"
Taken(s) ==
  /\ monitor.current = s
  /\ \/ monitor.pc \in {"sawActive", "source", "process"}
     \/ monitor.pc = "consumeSawActive" /\ monitor.consumed.source
HandedOn(s) == m_sessionStates[s] # observer[s].state => Marked(s) \/ Taken(s)

\* The monitor comes to start a session by registering it only.
LEMMA StartPlaces ==
  ASSUME Inv, [Next]_vars, monitor'.pc = "start"
  PROVE  monitor' = monitor \/ (monitor'.current \in Sessions /\ RegisterNew(monitor'.current))
<1>0. monitor \in Steps
  BY TypeParts DEF Inv, MonitorTypes, Steps
<1>1. NextSession.pc = "next" /\ Refreshed.pc \in {"next", "consume"}
  BY <1>0 DEF NextSession, Refreshed, Steps
<1>2. ASSUME NEW x \in Sessions, RegisterNew(x)
      PROVE  monitor'.current = x
  BY <1>0, <1>2 DEF RegisterNew, Steps
<1>3. CASE ApplySeen
  <2>. DEFINE left == AfterExchange(monitor.current, monitor.seen)
              after == IF left = "idle" THEN Refreshed ELSE [monitor EXCEPT !.pc = left]
  <2>1. monitor' = [after EXCEPT !.seen = "Inactive"]
    BY <1>3 DEF ApplySeen
  <2>2. left \in {"idle", "sawActive", "source"}
    BY DEF AfterExchange
  <2>3. after \in Steps
    <3>1. Nothing \in [source : BOOLEAN, sawActive : BOOLEAN]
      BY DEF Nothing
    <3>. QED
      BY <1>0, <2>2, <3>1 DEF Refreshed, NextSession, Steps, Places, InHand
  <2>4. after.pc \in {"next", "consume", "sawActive", "source"}
    BY <1>0, <1>1, <2>2 DEF Steps
  <2>. QED
    BY <2>1, <2>3, <2>4 DEF Steps
<1>4. CASE ConsumeSawActive
  <2>1. CASE monitor' = NextSession
    BY <1>1, <2>1
  <2>2. CASE monitor' # NextSession
    <3>1. PICK saw : monitor' = [monitor EXCEPT !.pc = "process",
                                                !.consumed = [@ EXCEPT !.sawActive = saw]]
      BY <1>4, <2>2 DEF ConsumeSawActive
    <3>. QED
      BY <1>0, <3>1 DEF Steps
  <2>. QED
    BY <2>1, <2>2
<1>5. CASE \/ InitFails \/ InitListens \/ EnumerateExistingSessions \/ DrainPendingSessions
           \/ StartObserver \/ RegistrationFails
           \/ (\E x \in Sessions : RegisterKnown(x) \/ Refresh(x))
  BY <1>0, <1>1, <1>5
  DEF InitFails, InitListens, EnumerateExistingSessions, DrainPendingSessions, StartObserver,
      RegistrationFails, RegisterKnown, Refresh, Steps
<1>6. CASE \/ GetState \/ GetStateFails \/ ApplySawActive \/ ApplySource \/ ConsumeSource
           \/ ProcessObserverState
  BY <1>0, <1>1, <1>6
  DEF GetState, GetStateFails, ApplySawActive, ApplySource, ConsumeSource, ProcessObserverState,
      Steps
<1>7. CASE \/ TakeSnapshot \/ CleanupExpiredSessions \/ EvaluateReconciled \/ WaitForChange
           \/ StopListening \/ ReleasePendingSessions \/ UnregisterAllSessions
  BY <1>0, <1>7
  DEF TakeSnapshot, CleanupExpiredSessions, EvaluateReconciled, WaitForChange, StopListening,
      ReleasePendingSessions, UnregisterAllSessions, Steps
<1>8. CASE monitor' = monitor
  BY <1>8
<1>. QED
  BY <1>2, <1>3, <1>4, <1>5, <1>6, <1>7, <1>8
  DEF Next, Monitor, Callback, vars, CreateSession, ChangeState, OnSessionCreated, OnStateChanged,
      CallbackSawActive, CallbackSource, Tick, SetDemandModeRuntime, OnDemandModeChanged, Quit,
      Ended

\* Nobody touches an observer that is not started yet.
LEMMA FreshKept ==
  ASSUME Inv, FreshInv, [Next]_vars, NEW s \in Sessions, Unborn(s), ~StartObserver
  PROVE  Fresh(s)'
<1>0. /\ TypeOK /\ Progress /\ Fresh(s)
      /\ monitor.pc \in InHand /\ monitor.pc # "start" => monitor.current \in Sessions \ {s}
  BY DEF Inv, FreshInv, Progress, TypeOK, Unborn, InHand
<1>. USE DEF Fresh
<1>1. CASE UNCHANGED <<observer, callback, events>>
  BY <1>0, <1>1
<1>2. ASSUME NEW x \in Sessions, NEW state \in Activity, ChangeState(x, state) PROVE Fresh(s)'
  <2>1. observer[s].registered = FALSE
    BY <1>0 DEF NewObserver
  <2>. QED
    BY <1>0, <1>2, <2>1 DEF ChangeState, TypeOK
<1>3. ASSUME NEW x \in Sessions, OnStateChanged(x) \/ CallbackSawActive(x) \/ CallbackSource(x)
      PROVE  Fresh(s)'
  <2>1. x # s
    BY <1>0, <1>3 DEF OnStateChanged, CallbackSawActive, CallbackSource
  <2>2. UNCHANGED <<observer[s], callback[s], events[s]>>
    BY <1>0, <1>3, <2>1 DEF OnStateChanged, CallbackSawActive, CallbackSource, TypeOK
  <2>. QED
    BY <1>0, <2>2
<1>4. CASE ApplySeen \/ ApplySawActive \/ ApplySource \/ ConsumeSource \/ ConsumeSawActive
  <2>1. monitor.current \in Sessions \ {s}
    BY <1>0, <1>4
    DEF ApplySeen, ApplySawActive, ApplySource, ConsumeSource, ConsumeSawActive, InHand
  <2>2. UNCHANGED <<observer[s], callback, events>>
    BY <1>0, <1>4, <2>1
    DEF ApplySeen, ApplySawActive, ApplySource, ConsumeSource, ConsumeSawActive, windowsVars,
        TypeOK
  <2>. QED
    BY <1>0, <2>2
<1>5. CASE CleanupExpiredSessions \/ UnregisterAllSessions
  <2>1. PICK gone : Detached(gone)
    BY <1>5 DEF CleanupExpiredSessions, UnregisterAllSessions
  <2>. QED
    BY <1>0, <2>1 DEF Detached
<1>. QED
  BY <1>1, <1>2, <1>3, <1>4, <1>5
  DEF Next, Monitor, Callback, vars, windowsVars, CreateSession, OnSessionCreated, Tick, InitFails,
      InitListens, EnumerateExistingSessions, DrainPendingSessions, RegistrationFails,
      RegisterKnown, RegisterNew, Refresh, GetState, GetStateFails, ProcessObserverState,
      TakeSnapshot, EvaluateReconciled, WaitForChange, StopListening, ReleasePendingSessions,
      SetDemandModeRuntime, OnDemandModeChanged, Quit, Ended

\* A session that is let go leaves a new observer behind.
LEMMA FreshStep == Inv /\ FreshInv /\ [Next]_vars => FreshInv'
<1>. SUFFICES ASSUME Inv, FreshInv, [Next]_vars, NEW s \in Sessions, Unborn(s)'
              PROVE  Fresh(s)'
  BY DEF FreshInv
<1>0. TypeOK /\ TrackerAgrees /\ Progress /\ monitor \in Steps
  BY TypeParts DEF Inv, MonitorTypes, Steps
<1>1. CASE StartObserver
  <2>1. /\ monitor'.pc = "query" /\ m_sessions' = m_sessions
        /\ monitor.current \in m_sessions /\ UNCHANGED <<callback, events>>
        /\ observer' = [observer EXCEPT ![monitor.current].registered = TRUE]
    BY <1>0, <1>1 DEF StartObserver, Steps, trackerVars, windowsVars, Progress, InHand
  <2>2. s \notin m_sessions /\ s # monitor.current
    BY <2>1 DEF Unborn
  <2>3. observer'[s] = observer[s] /\ Fresh(s)
    BY <1>0, <2>1, <2>2 DEF TypeOK, FreshInv, Unborn
  <2>. QED
    BY <2>1, <2>3 DEF Fresh
<1>2. CASE Unborn(s) /\ ~StartObserver
  BY <1>2, FreshKept
<1>3. CASE ~Unborn(s) /\ ~StartObserver
  <2>1. s \in m_sessions /\ ~(monitor.pc = "start" /\ monitor.current = s)
    BY <1>3 DEF Unborn
  <2>2. ~(monitor'.pc = "start" /\ monitor'.current = s)
    <3>1. ~RegisterNew(s)
      BY <1>0, <2>1 DEF RegisterNew, TrackerAgrees
    <3>. QED
      BY <2>1, <3>1, StartPlaces
  <2>3. s \notin m_sessions'
    BY <2>2 DEF Unborn
  <2>4. CASE CleanupExpiredSessions \/ UnregisterAllSessions
    <3>1. PICK gone : Detached(gone) /\ Removed(gone)
      BY <2>4 DEF CleanupExpiredSessions, UnregisterAllSessions
    <3>2. s \in gone
      BY <2>1, <2>3, <3>1 DEF Removed
    <3>. QED
      BY <3>1, <3>2 DEF Detached, Fresh
  <2>5. CASE RegistrationFails
    BY <2>1, <2>3, <2>5 DEF RegistrationFails, Removed
  <2>6. ASSUME NEW x \in Sessions, RegisterNew(x) PROVE FALSE
    BY <2>1, <2>3, <2>6 DEF RegisterNew
  <2>7. CASE UNCHANGED m_sessions
    BY <2>1, <2>3, <2>7
  <2>. QED
    BY <2>4, <2>5, <2>6, <2>7
    DEF Next, Monitor, Callback, vars, trackerVars, CreateSession, ChangeState, OnSessionCreated,
        OnStateChanged, CallbackSawActive, CallbackSource, Tick, InitFails, InitListens,
        EnumerateExistingSessions, DrainPendingSessions, StartObserver, RegisterKnown, Refresh,
        GetState, GetStateFails, ApplySeen, ApplySawActive, ApplySource, ConsumeSource,
        ConsumeSawActive, ProcessObserverState, TakeSnapshot, EvaluateReconciled, WaitForChange,
        StopListening, ReleasePendingSessions, SetDemandModeRuntime, OnDemandModeChanged, Quit,
        Ended
<1>. QED
  BY <1>1, <1>2, <1>3

\* The exchange of a state leaves the mark, whichever thread it is on.
LEMMA CallbackHandsOn ==
  ASSUME Inv, NEW s \in Sessions, HandedOn(s), NEW x \in Sessions,
         OnStateChanged(x) \/ CallbackSawActive(x) \/ CallbackSource(x)
  PROVE  HandedOn(s)'
<1>0. /\ observer \in [Sessions -> Observers] /\ monitor' = monitor
      /\ m_sessionStates' = m_sessionStates
      /\ callback \in [Sessions -> {"idle", "sawActive", "source"}]
  BY DEF Inv, TypeOK, Observers, OnStateChanged, CallbackSawActive, CallbackSource, trackerVars
<1>1. CASE x # s
  <2>1. UNCHANGED <<observer[s], callback[s]>>
    BY <1>0, <1>1 DEF OnStateChanged, CallbackSawActive, CallbackSource
  <2>. QED
    BY <1>0, <2>1 DEF HandedOn, Marked, Taken
<1>2. CASE x = s /\ OnStateChanged(s)
  <2>1. /\ observer'[s].state = Head(events[s]) /\ observer'[s].source = observer[s].source
        /\ callback'[s] = AfterExchange(s, Head(events[s])) /\ callback[s] = "idle"
    BY <1>0, <1>2 DEF OnStateChanged, Observers
  <2>2. CASE observer[s].state = Head(events[s])
    BY <1>0, <2>1, <2>2 DEF HandedOn, Marked, Taken
  <2>3. CASE observer[s].state # Head(events[s])
    BY <2>1, <2>3 DEF AfterExchange, HandedOn, Marked
  <2>. QED
    BY <2>2, <2>3
<1>3. CASE x = s /\ CallbackSawActive(s)
  BY <1>0, <1>3 DEF CallbackSawActive, HandedOn, Marked
<1>4. CASE x = s /\ CallbackSource(s)
  BY <1>0, <1>4 DEF CallbackSource, HandedOn, Marked, Observers
<1>. QED
  BY <1>1, <1>2, <1>3, <1>4

\* Taking a flag down passes it to the monitor's hand, and the hand to the tracker.
LEMMA MonitorHandsOn ==
  ASSUME Inv, NEW s \in Sessions, HandedOn(s),
         \/ ApplySeen \/ ApplySawActive \/ ApplySource \/ ConsumeSource \/ ConsumeSawActive
         \/ ProcessObserverState
  PROVE  HandedOn(s)'
<1>. DEFINE c == monitor.current
<1>0. /\ observer \in [Sessions -> Observers] /\ monitor \in Steps /\ c \in Sessions
      /\ m_sessionStates \in [Sessions -> Activity \cup {"untracked"}] /\ callback' = callback
  BY TypeParts
  DEF Inv, TypeOK, Observers, Progress, InHand, Steps, MonitorTypes, windowsVars, ApplySeen,
      ApplySawActive, ApplySource, ConsumeSource, ConsumeSawActive, ProcessObserverState
<1>1. CASE s # c
  <2>1. UNCHANGED <<observer[s], m_sessionStates[s]>>
    BY <1>0, <1>1
    DEF ApplySeen, ApplySawActive, ApplySource, ConsumeSource, ConsumeSawActive,
        ProcessObserverState, trackerVars
  <2>. QED
    BY <1>0, <1>1, <2>1 DEF HandedOn, Marked, Taken
<1>2. CASE s = c /\ ApplySeen
  <2>. DEFINE left == AfterExchange(c, monitor.seen)
              after == IF left = "idle" THEN Refreshed ELSE [monitor EXCEPT !.pc = left]
  <2>1. /\ monitor' = [after EXCEPT !.seen = "Inactive"] /\ monitor.pc = "apply"
        /\ observer'[s].state = monitor.seen /\ observer'[s].source = observer[s].source
        /\ m_sessionStates' = m_sessionStates
    BY <1>0, <1>2 DEF ApplySeen, Observers, trackerVars
  <2>2. CASE left = "idle"
    <3>1. observer[s].state = monitor.seen
      BY <1>2, <2>2 DEF AfterExchange
    <3>. QED
      BY <1>0, <2>1, <3>1 DEF HandedOn, Marked, Taken
  <2>3. CASE left # "idle"
    <3>1. left \in {"sawActive", "source"} /\ after = [monitor EXCEPT !.pc = left]
      BY <2>3 DEF AfterExchange
    <3>2. monitor'.pc = left /\ monitor'.current = c
      BY <1>0, <2>1, <3>1 DEF Steps
    <3>. QED
      BY <1>2, <3>1, <3>2 DEF HandedOn, Taken
  <2>. QED
    BY <2>2, <2>3
<1>3. CASE s = c /\ ApplySawActive
  <2>1. monitor'.pc = "source" /\ monitor'.current = c
    BY <1>0, <1>3 DEF ApplySawActive, Steps
  <2>. QED
    BY <1>3, <2>1 DEF HandedOn, Taken
<1>4. CASE s = c /\ ApplySource
  BY <1>0, <1>4 DEF ApplySource, HandedOn, Marked, Observers
<1>5. CASE s = c /\ ConsumeSource
  <2>1. /\ monitor'.pc = "consumeSawActive" /\ monitor'.current = c
        /\ monitor'.consumed.source = observer[s].source
        /\ observer'[s].state = observer[s].state /\ m_sessionStates' = m_sessionStates
        /\ monitor.pc = "consume"
    BY <1>0, <1>5 DEF ConsumeSource, Steps, Observers, trackerVars
  <2>. QED
    BY <1>0, <1>5, <2>1 DEF HandedOn, Marked, Taken
<1>6. CASE s = c /\ ConsumeSawActive
  <2>1. /\ observer'[s].state = observer[s].state /\ observer'[s].source = observer[s].source
        /\ m_sessionStates' = m_sessionStates /\ monitor.pc = "consumeSawActive"
    BY <1>0, <1>6 DEF ConsumeSawActive, Observers, trackerVars
  <2>2. CASE monitor.consumed.source
    <3>1. monitor' = [monitor EXCEPT !.pc = "process", !.consumed.sawActive = observer[c].sawActive]
      BY <1>6, <2>2 DEF ConsumeSawActive
    <3>2. monitor'.pc = "process" /\ monitor'.current = c
      BY <1>0, <3>1 DEF Steps
    <3>. QED
      BY <1>6, <3>2 DEF HandedOn, Taken
  <2>3. CASE ~monitor.consumed.source
    BY <1>0, <2>1, <2>3 DEF HandedOn, Marked, Taken
  <2>. QED
    BY <2>2, <2>3
<1>7. CASE s = c /\ ProcessObserverState
  <2>1. m_sessionStates'[s] = observer[s].state /\ observer' = observer
    BY <1>0, <1>7 DEF ProcessObserverState
  <2>. QED
    BY <2>1 DEF HandedOn
<1>. QED
  BY <1>1, <1>2, <1>3, <1>4, <1>5, <1>6, <1>7

\* A session that is new begins with what its observer says.
LEMMA HandedOnStep ==
  ASSUME Inv, FreshInv, [Next]_vars, NEW s \in Sessions, s \in m_sessions',
         s \in m_sessions => HandedOn(s)
  PROVE  HandedOn(s)'
<1>0. /\ TypeOK /\ TrackerAgrees /\ Progress /\ monitor \in Steps
      /\ observer \in [Sessions -> Observers]
  BY TypeParts DEF Inv, MonitorTypes, Steps, ObserverTypes
<1>1. ASSUME NEW x \in Sessions, RegisterNew(x) PROVE HandedOn(s)'
  <2>1. /\ m_sessionStates' = [m_sessionStates EXCEPT ![x] = "Inactive"]
        /\ m_sessions' = m_sessions \cup {x} /\ UNCHANGED <<observer, callback>>
        /\ monitor.pc = "next" /\ x \notin m_sessions
    BY <1>0, <1>1 DEF RegisterNew, windowsVars, TrackerAgrees
  <2>2. CASE x = s
    <3>1. m_sessionStates'[s] = "Inactive"
      BY <1>0, <2>1, <2>2 DEF TypeOK
    <3>2. observer[s].state = "Inactive"
      BY <2>1, <2>2 DEF FreshInv, Unborn, Fresh, NewObserver
    <3>. QED
      BY <2>1, <3>1, <3>2 DEF HandedOn
  <2>3. CASE x # s
    <3>1. m_sessionStates'[s] = m_sessionStates[s] /\ s \in m_sessions
      BY <1>0, <2>1, <2>3 DEF TypeOK
    <3>. QED
      BY <2>1, <3>1 DEF HandedOn, Marked, Taken
  <2>. QED
    BY <2>2, <2>3
<1>. SUFFICES ASSUME \A x \in Sessions : ~RegisterNew(x) PROVE HandedOn(s)'
  BY <1>1
<1>2. CASE CleanupExpiredSessions \/ UnregisterAllSessions
  <2>1. PICK gone : Detached(gone) /\ Removed(gone)
    BY <1>2 DEF CleanupExpiredSessions, UnregisterAllSessions
  <2>2. s \in m_sessions /\ s \notin gone
    BY <2>1 DEF Removed
  <2>3. UNCHANGED <<observer[s], callback[s], m_sessionStates[s]>>
    BY <2>1, <2>2 DEF Detached, Removed
  <2>. QED
    BY <1>2, <2>2, <2>3
    DEF HandedOn, Marked, Taken, CleanupExpiredSessions, UnregisterAllSessions
<1>3. CASE RegistrationFails
  <2>1. s \in m_sessions /\ m_sessionStates'[s] = m_sessionStates[s]
    BY <1>3 DEF RegistrationFails, Removed
  <2>. QED
    BY <1>3, <2>1 DEF RegistrationFails, HandedOn, Marked, Taken, windowsVars
<1>4. CASE StartObserver
  <2>1. /\ monitor.current \in Sessions /\ UNCHANGED <<callback, trackerVars>>
        /\ observer' = [observer EXCEPT ![monitor.current].registered = TRUE]
    BY <1>0, <1>4 DEF StartObserver, windowsVars, Progress, InHand, TypeOK
  <2>2. observer'[s].state = observer[s].state /\ observer'[s].source = observer[s].source
    BY <1>0, <2>1 DEF Observers
  <2>. QED
    BY <1>4, <2>1, <2>2 DEF StartObserver, HandedOn, Marked, Taken, trackerVars
<1>5. ASSUME NEW x \in Sessions, OnStateChanged(x) \/ CallbackSawActive(x) \/ CallbackSource(x)
      PROVE  HandedOn(s)'
  <2>1. m_sessions' = m_sessions
    BY <1>5 DEF OnStateChanged, CallbackSawActive, CallbackSource, trackerVars
  <2>. QED
    BY <1>5, <2>1, CallbackHandsOn
<1>6. CASE \/ ApplySeen \/ ApplySawActive \/ ApplySource \/ ConsumeSource \/ ConsumeSawActive
           \/ ProcessObserverState
  <2>1. m_sessions' = m_sessions
    BY <1>6
    DEF ApplySeen, ApplySawActive, ApplySource, ConsumeSource, ConsumeSawActive,
        ProcessObserverState, trackerVars
  <2>. QED
    BY <1>6, <2>1, MonitorHandsOn
<1>7. CASE /\ UNCHANGED <<observer, callback, m_sessions, m_sessionStates>>
           /\ \/ monitor' = monitor
              \/ monitor.pc \notin {"sawActive", "source", "process", "consumeSawActive"}
  BY <1>7 DEF HandedOn, Marked, Taken
<1>8. CASE \/ InitFails \/ InitListens \/ EnumerateExistingSessions \/ DrainPendingSessions
           \/ (\E x \in Sessions : RegisterKnown(x) \/ Refresh(x))
           \/ GetState \/ GetStateFails \/ TakeSnapshot \/ EvaluateReconciled \/ WaitForChange
           \/ StopListening \/ ReleasePendingSessions
  BY <1>7, <1>8
  DEF InitFails, InitListens, EnumerateExistingSessions, DrainPendingSessions, RegisterKnown,
      Refresh, GetState, GetStateFails, TakeSnapshot, EvaluateReconciled, WaitForChange,
      StopListening, ReleasePendingSessions, windowsVars, trackerVars
<1>. QED
  BY <1>2, <1>3, <1>4, <1>5, <1>6, <1>7, <1>8
  DEF Next, Monitor, Callback, vars, windowsVars, trackerVars, CreateSession, ChangeState,
      OnSessionCreated, Tick, SetDemandModeRuntime, OnDemandModeChanged, Quit, Ended

\* What a callback or GetState() notes of a session reaches the tracker or is on its way to
\* it, whichever of the two threads exchanged the state last (applyState, consume*).
THEOREM ChangeCorrect == Spec => []ChangeHandedOn
<1>. DEFINE All == FreshInv /\ ChangeHandedOn
<1>1. ChangeHandedOn <=> \A s \in m_sessions : HandedOn(s)
  BY DEF ChangeHandedOn, HandedOn, Marked, Taken
<1>2. Init => All
  BY DEF Init, FreshInv, Fresh, ChangeHandedOn
<1>3. Inv /\ All /\ [Next]_vars => All'
  <2>. SUFFICES ASSUME Inv, All, [Next]_vars PROVE All'
    OBVIOUS
  <2>1. FreshInv'
    BY FreshStep
  <2>2. m_sessions' \subseteq Sessions
    BY StepTyped DEF TypeOK
  <2>3. \A s \in m_sessions' : HandedOn(s)'
    BY <1>1, <2>2, HandedOnStep
  <2>4. ChangeHandedOn'
    BY <2>3 DEF ChangeHandedOn, HandedOn, Marked, Taken
  <2>. QED
    BY <2>1, <2>4
<1>4. All => ChangeHandedOn
  OBVIOUS
<1>. QED
  BY <1>2, <1>3, <1>4, InvCorrect, PTL DEF Spec


-----------------------------------------------------------------------------
(* The mode takes effect.                                                  *)

\* An evaluation leaves a gate as the mode wants it, whatever it was before.
LEMMA EvaluatedSettles ==
  ASSUME NEW gate \in Gates, NEW active \in Nat, demandMode \in BOOLEAN,
         SetGate(Evaluated(gate, active))
  PROVE  /\ demandMode /\ active = 0 /\ micRequested' => m_inactiveDeadlineTick' # NoDeadline
         /\ ~demandMode => micRequested'
<1>. USE GraceAssumption DEF GraceAssumption, SetGate, Evaluated, Closed, NoDeadline
<1>1. CASE ~demandMode \/ active > 0
  BY <1>1
<1>2. CASE ~(~demandMode \/ active > 0) /\ (~gate.open \/ gate.deadline = 0)
  BY <1>2
<1>3. CASE ~(~demandMode \/ active > 0) /\ ~(~gate.open \/ gate.deadline = 0)
  BY <1>3
<1>. QED
  BY <1>1, <1>2, <1>3

\* Each step evaluates the gate for the mode there is, leaves gate, mode and count
\* alone, or is a call of the UI, which is not over before its own evaluation.
LEMMA ModeStep ==
  ASSUME Inv, ModeTakesEffect, [Next]_vars
  PROVE  ModeTakesEffect'
<1>0. /\ TypeOK /\ Progress /\ Gate \in Gates /\ m_activeCount \in Nat
      /\ m_activeCount' \in Nat /\ demandMode \in BOOLEAN
  <2>1. Cardinality(Sessions) \in Nat
    BY FS_CardinalityType, SessionsAssumption DEF SessionsAssumption
  <2>2. m_activeCount' \in 0..Cardinality(Sessions)
    BY TrackerKept DEF Inv, TrackerTypes
  <2>. QED
    BY <2>1, <2>2, GateTyped DEF Inv
<1>1. ASSUME NEW gate \in Gates, SetGate(Evaluated(gate, m_activeCount')),
             demandMode' = demandMode
      PROVE  ModeTakesEffect'
  <2>1. /\ demandMode /\ m_activeCount' = 0 /\ micRequested'
             => m_inactiveDeadlineTick' # NoDeadline
        /\ ~demandMode => micRequested'
    BY <1>0, <1>1, EvaluatedSettles
  <2>. QED
    BY <1>1, <2>1 DEF ModeTakesEffect
<1>2. ASSUME ~EvaluateReconciled, uiPc' = uiPc,
             UNCHANGED <<micRequested, m_inactiveDeadlineTick, demandMode, m_activeCount>>
      PROVE  ModeTakesEffect'
  BY <1>0, <1>2, MonitorPlaces DEF ModeTakesEffect, Settled
<1>3. CASE InitFails
  <2>1. monitor'.pc = "failed"
    BY <1>0, <1>3 DEF InitFails, TypeOK
  <2>. QED
    BY <2>1 DEF ModeTakesEffect
<1>4. CASE Tick
  <2>1. m_inactiveDeadlineTick \in Nat /\ m_inactiveDeadlineTick' = m_inactiveDeadlineTick - 1
    BY <1>0, <1>4, GraceAssumption DEF Tick, TypeOK, NoDeadline, GraceAssumption
  <2>2. m_inactiveDeadlineTick' # NoDeadline
    BY <1>4, <2>1 DEF Tick, NoDeadline
  <2>3. UNCHANGED <<micRequested, demandMode, m_activeCount, uiPc, monitor>>
    BY <1>4 DEF Tick, trackerVars, uiVars
  <2>. QED
    BY <2>2, <2>3 DEF ModeTakesEffect
<1>5. CASE RegistrationFails \/ CleanupExpiredSessions \/ EvaluateReconciled
  <2>1. SetGate(Evaluated(Gate, m_activeCount')) /\ demandMode' = demandMode
    BY <1>5 DEF RegistrationFails, CleanupExpiredSessions, EvaluateReconciled, uiVars, trackerVars
  <2>. QED
    BY <1>0, <1>1, <2>1
<1>6. CASE OnDemandModeChanged
  <2>1. SetGate(Evaluated(Gate, m_activeCount')) /\ demandMode' = demandMode
    BY <1>6 DEF OnDemandModeChanged, trackerVars
  <2>. QED
    BY <1>0, <1>1, <2>1
<1>7. CASE UnregisterAllSessions
  <2>1. /\ monitor.pc = "unregister" /\ monitor'.pc = "done"
        /\ UNCHANGED <<micRequested, demandMode, uiPc>>
    BY <1>0, <1>7 DEF UnregisterAllSessions, uiVars, TypeOK
  <2>. QED
    BY <2>1 DEF ModeTakesEffect
<1>8. ASSUME NEW enabled \in BOOLEAN, SetDemandModeRuntime(enabled) PROVE ModeTakesEffect'
  BY <1>8 DEF SetDemandModeRuntime, ModeTakesEffect
<1>9. CASE ProcessObserverState
  <2>. DEFINE s == monitor.current
              state == observer[s].state
  <2>1. /\ m_activeCount' = Counted(m_sessionStates[s], state)
        /\ IF Pulse \/ m_sessionStates[s] # state
             THEN SetGate(Evaluated(AfterPulse, m_activeCount'))
             ELSE UNCHANGED <<micRequested, m_inactiveDeadlineTick>>
        /\ UNCHANGED <<demandMode, uiPc>> /\ ~EvaluateReconciled
    BY <1>9 DEF ProcessObserverState, uiVars, EvaluateReconciled
  <2>2. CASE ~(Pulse \/ m_sessionStates[s] # state)
    <3>1. m_activeCount' = m_activeCount
      BY <1>0, <2>1, <2>2 DEF Counted
    <3>. QED
      BY <1>2, <2>1, <2>2, <3>1
  <2>3. CASE Pulse \/ m_sessionStates[s] # state
    <3>1. AfterPulse \in Gates
      <4>1. m_activeCount + 1 \in Nat
        BY <1>0
      <4>. QED
        BY <1>0, <4>1, EvaluatedGate DEF AfterPulse
    <3>. QED
      BY <1>1, <2>1, <2>3, <3>1
  <2>. QED
    BY <2>2, <2>3
<1>10. CASE /\ ~EvaluateReconciled
            /\ \/ WaitForChange \/ Quit \/ EnumerateExistingSessions
               \/ \E s \in Sessions : RegisterNew(s)
  <2>1. UNCHANGED <<micRequested, m_inactiveDeadlineTick, demandMode, m_activeCount, uiPc>>
    BY <1>10
    DEF WaitForChange, Quit, EnumerateExistingSessions, RegisterNew, gateVars, trackerVars, uiVars
  <2>. QED
    BY <1>2, <1>10, <2>1
<1>11. CASE UNCHANGED <<gateVars, trackerVars, uiVars>> /\ ~EvaluateReconciled
  BY <1>2, <1>11 DEF gateVars, trackerVars, uiVars
<1>. QED
  BY <1>3, <1>4, <1>5, <1>6, <1>7, <1>8, <1>9, <1>10, <1>11
  DEF Next, Monitor, Callback, vars, CreateSession, ChangeState, OnSessionCreated,
      OnStateChanged, CallbackSawActive, CallbackSource, InitListens, DrainPendingSessions,
      StartObserver, RegisterKnown, Refresh, GetState, GetStateFails, ApplySeen,
      ApplySawActive, ApplySource, ConsumeSource, ConsumeSawActive, TakeSnapshot,
      StopListening, ReleasePendingSessions, Ended

\* The safety half of GateCloses, and its counterpart in always-stream mode: between two
\* calls an open gate nobody needs has a time to close at, and a stream that is always
\* wanted is on (setDemandModeRuntime, evaluateRequestedStateLocked).
THEOREM ModeCorrect == Spec => []ModeTakesEffect
<1>1. Init => ModeTakesEffect
  BY DEF Init, ModeTakesEffect
<1>. QED
  BY <1>1, ModeStep, InvCorrect, PTL DEF Spec
=============================================================================
