---------------------------- MODULE AudioBridge ----------------------------
(***************************************************************************)
(* audioBridgeThread() of main.cpp with adb_control.cpp and                *)
(* socket_client.cpp: it brings the phone's audio from a socket forwarded  *)
(* by adb to the ring buffer, while the demand gate is open.               *)
(*                                                                         *)
(*   bridge  set-up, connection, gate and recovery                         *)
(*   render  renderThread(): counts the events of the device that do not   *)
(*           come, ends at the first failed call                           *)
(*   phones  go offline and come back; their app dies or falls silent      *)
(*   user    and monitor: the gate's settings and the end of the program   *)
(*                                                                         *)
(* What the bridge does to the ring - the reset at the gate, the trim and  *)
(* the push of a wanted block - meets the render thread between any two    *)
(* accesses and is RenderRing's; no guard here depends on it.              *)
(*                                                                         *)
(* A poll of a timer is a step that may come at any time, so the back-off  *)
(* of pollAdbLost() and the 15 s between two health checks are only        *)
(* "later".  Log, statistics, tray icon and streaming flags are left out.  *)
(***************************************************************************)
EXTENDS Integers, FiniteSets

CONSTANTS
  Devices,     \* Android devices
  NoDevice,    \* no serial given, none selected, nothing forwarded
  StaleLimit,  \* 100 ms waits without data before a reconnect (90)
  IdleLimit,   \* blocks thrown away before an idle disconnect (500)
  StallLimit,  \* render events missed that count as a stall (3)
  MaxFaults    \* bound: what goes wrong outside the program

ASSUME DeviceAssumption == IsFiniteSet(Devices) /\ NoDevice \notin Devices
ASSUME LimitAssumption ==
  StaleLimit \in Nat /\ IdleLimit \in Nat /\ StallLimit \in Nat \ {0} /\ MaxFaults \in Nat

\* Consecutive failures that call for a full recovery.
FailLimit == 3

NoLink == "none"
ClosedLink == "closed"

\* The marks are no devices.
ASSUME LinkAssumption == NoLink \notin Devices /\ ClosedLink \notin Devices

VARIABLES
  online,    \* devices adb lists as "device"
  forward,   \* the device adb forwards the port to
  app,       \* per device: "down", "streaming", or up and "silent"
  faults,
  serial,    \* the serial of the configuration
  running, alwaysHot, demandMode, micRequested,
  renderAlive, renderStallScore,
  pc,
  job,       \* what adb.init() and setupAudioSource() are called for
  m_serial,  \* the device adb.init() has selected
  recoveryState,
  link,      \* the socket: none, closed by the peer, or the device at the other end
  old,       \* the connection is 3 s old
  fails,     \* connectFailCount and quickDisconnectCount
  inner,     \* the locals of the inner loop
  unannounced \* history: the bridge has thrown a block away at the gate, or hung up, since
              \* its last requestDenoiseReset()

phoneVars == <<online, forward, app, faults>>
userVars == <<serial, running, alwaysHot, demandMode, micRequested>>
renderVars == <<renderAlive, renderStallScore>>
linkVars == <<link, old, unannounced>>
vars == <<phoneVars, userVars, renderVars, pc, job, m_serial, recoveryState, linkVars, fails,
          inner>>

\* The locals at the head of the inner loop.
Entered == [idleCount |-> 0, staleCount |-> 0, wasIdle |-> TRUE]

Init ==
  /\ online \in SUBSET Devices
  /\ forward = NoDevice
  /\ app \in [Devices -> {"down", "streaming"}]
  /\ faults = 0
  /\ serial \in Devices \cup {NoDevice}
  /\ running = TRUE
  /\ alwaysHot \in BOOLEAN /\ demandMode \in BOOLEAN /\ micRequested \in BOOLEAN
  /\ renderAlive = TRUE
  /\ renderStallScore = 0
  /\ pc = "start"
  /\ job = "setup"
  /\ m_serial = NoDevice
  /\ recoveryState = "Healthy"
  /\ link = NoLink
  /\ old = FALSE
  /\ fails = [connect |-> 0, quick |-> 0]
  /\ inner = Entered
  /\ unannounced = FALSE

-----------------------------------------------------------------------------
(* adb.                                                                    *)

\* isDeviceOnline(serial): the configured device, or else the selected one.
Target == IF serial # NoDevice THEN serial ELSE m_serial
IsDeviceOnline == IF Target = NoDevice THEN online # {} ELSE Target \in online

\* A command of adb fails although it could succeed.
CommandFails ==
  /\ faults < MaxFaults
  /\ faults' = faults + 1
  /\ UNCHANGED <<online, forward, app>>

\* A command that depends on a condition of the phone.
Succeeds(condition) == condition /\ UNCHANGED phoneVars
Fails(condition) == (~condition /\ UNCHANGED phoneVars) \/ CommandFails

-----------------------------------------------------------------------------
(* Losing and recovering adb.                                              *)

\* requestDenoiseReset()
RequestReset == unannounced' = FALSE

\* disconnect() with the reset that follows it.
Disconnect ==
  /\ link' = NoLink
  /\ old' = FALSE
  /\ RequestReset

EnterAdbLost ==
  /\ recoveryState' = "AdbLost"
  /\ Disconnect
  /\ pc' = "outer"

\* recoverAdb() begins.  What its callers do after it is done before: they set
\* a counter to zero that nobody reads in between.
RecoverAdb ==
  /\ job' = "recover"
  /\ pc' = "init"

SetupFails ==
  \/ job = "setup" /\ pc' = "retry" /\ UNCHANGED <<recoveryState, linkVars>>
  \/ job = "recover" /\ EnterAdbLost

\* adb.init() selects the configured device if it is there and the first one
\* in adb's list otherwise.
AdbInit ==
  /\ pc = "init"
  /\ \/ /\ Succeeds(online # {})
        /\ m_serial' \in (IF serial \in online THEN {serial} ELSE online)
        /\ pc' = "app"
        /\ UNCHANGED <<recoveryState, linkVars>>
     \/ Fails(online # {}) /\ SetupFails /\ UNCHANGED m_serial
  /\ UNCHANGED <<userVars, renderVars, job, fails, inner>>

\* Starting an app that is up changes nothing.
StartApp ==
  /\ pc = "app"
  /\ \/ /\ m_serial \in online
        /\ app' = [app EXCEPT ![m_serial] = IF @ = "down" THEN "streaming" ELSE @]
        /\ pc' = "forward"
        /\ UNCHANGED <<online, forward, faults, recoveryState, linkVars>>
     \/ Fails(m_serial \in online) /\ SetupFails
  /\ UNCHANGED <<userVars, renderVars, job, m_serial, fails, inner>>

\* Removing the forward comes before making it, so it is gone if that fails.
RemakeForward(ok) ==
  /\ forward' = IF ok THEN m_serial ELSE NoDevice
  /\ \/ ok /\ m_serial \in online /\ UNCHANGED faults
     \/ ~ok /\ m_serial \notin online /\ UNCHANGED faults
     \/ ~ok /\ faults < MaxFaults /\ faults' = faults + 1
  /\ UNCHANGED <<online, app>>

CreateForward ==
  /\ pc = "forward"
  /\ \/ /\ RemakeForward(TRUE)
        /\ pc' = IF job = "setup" THEN "outer" ELSE "verify"
        /\ UNCHANGED <<recoveryState, linkVars>>
     \/ RemakeForward(FALSE) /\ SetupFails
  /\ UNCHANGED <<userVars, renderVars, job, m_serial, fails, inner>>

SetupAudioSource == StartApp \/ CreateForward

VerifyForward == forward # NoDevice /\ forward = m_serial

VerifyRecovery ==
  /\ pc = "verify"
  /\ \/ /\ Succeeds(VerifyForward)
        /\ recoveryState' = "Healthy"
        /\ fails' = [connect |-> 0, quick |-> 0]
        /\ pc' = "outer"
        /\ UNCHANGED linkVars
     \/ Fails(VerifyForward) /\ EnterAdbLost /\ UNCHANGED fails
  /\ UNCHANGED <<userVars, renderVars, job, m_serial, inner>>

-----------------------------------------------------------------------------
(* audioBridgeThread(): before the loops.                                  *)

Goto(place) ==
  pc' = place /\ UNCHANGED <<job, m_serial, recoveryState, linkVars, fails, inner>>

\* Winsock may be missing.
Start ==
  /\ pc = "start"
  /\ Goto("done") \/ Goto(IF running THEN "init" ELSE "done")
  /\ UNCHANGED <<phoneVars, userVars, renderVars>>

AfterRetry_Forever == "init"
AfterRetry == IF running THEN "init" ELSE "outer"

RetrySetup ==
  /\ pc = "retry"
  /\ Goto(AfterRetry)
  /\ UNCHANGED <<phoneVars, userVars, renderVars>>

-----------------------------------------------------------------------------
(* The outer loop.                                                         *)

Wanted == alwaysHot \/ ~demandMode \/ micRequested

AtOuter(state) == pc = "outer" /\ running /\ recoveryState = state

\* ADBControl::cleanup() removes the forward of the device in use, or any if
\* none was selected.
CleanedUp == IF m_serial \in {forward, NoDevice} THEN NoDevice ELSE forward

\* The last steps: the socket is closed and the forward removed.
Leave ==
  /\ pc = "outer" /\ ~running
  /\ link' = NoLink /\ old' = FALSE
  /\ forward' = CleanedUp
  /\ pc' = "done"
  /\ UNCHANGED <<online, app, faults, userVars, renderVars, job, m_serial, recoveryState,
                 unannounced, fails, inner>>

\* pollAdbLost(), when the device is back.
PollAdbLost ==
  /\ AtOuter("AdbLost")
  /\ Succeeds(IsDeviceOnline)
  /\ RecoverAdb
  /\ UNCHANGED <<userVars, renderVars, m_serial, recoveryState, linkVars, fails, inner>>

IdleHealthCheck ==
  /\ AtOuter("Healthy") /\ ~Wanted
  /\ \/ Succeeds(IsDeviceOnline) /\ pc' = "idleVerify" /\ UNCHANGED <<recoveryState, linkVars>>
     \/ Fails(IsDeviceOnline) /\ EnterAdbLost
  /\ UNCHANGED <<userVars, renderVars, job, m_serial, fails, inner>>

IdleVerify ==
  /\ pc = "idleVerify"
  /\ \/ Succeeds(VerifyForward) /\ pc' = "outer" /\ UNCHANGED job
     \/ Fails(VerifyForward) /\ RecoverAdb
  /\ UNCHANGED <<userVars, renderVars, m_serial, recoveryState, linkVars, fails, inner>>

\* SocketClient::connect().  Behind a forward to a device whose app does not
\* listen, adb accepts the connection and closes it.
Connected(d) == IF app[d] = "down" THEN ClosedLink ELSE d

Connect ==
  /\ AtOuter("Healthy") /\ Wanted
  /\ \/ /\ forward \in online
        /\ link' = Connected(forward)
        /\ old' = FALSE
        /\ RequestReset
        /\ fails' = [fails EXCEPT !.connect = 0]
        /\ inner' = Entered
        /\ pc' = "wait"
     \/ /\ forward \notin online
        /\ fails' = [fails EXCEPT !.connect = @ + 1]
        /\ pc' = "failed"
        /\ UNCHANGED <<linkVars, inner>>
  /\ UNCHANGED <<phoneVars, userVars, renderVars, job, m_serial, recoveryState>>

\* The first failure refreshes the forward, the third one recovers adb.
ConnectFailed ==
  /\ pc = "failed"
  /\ \/ Fails(IsDeviceOnline) /\ EnterAdbLost /\ UNCHANGED <<job, fails>>
     \/ /\ Succeeds(IsDeviceOnline)
        /\ IF fails.connect = FailLimit
             THEN RecoverAdb
             ELSE pc' = (IF fails.connect = 1 THEN "refresh" ELSE "outer") /\ UNCHANGED job
        /\ fails' = IF fails.connect = FailLimit THEN [fails EXCEPT !.connect = 0] ELSE fails
        /\ UNCHANGED <<recoveryState, linkVars>>
  /\ UNCHANGED <<userVars, renderVars, m_serial, inner>>

RefreshForward ==
  /\ pc = "refresh"
  /\ \/ RemakeForward(TRUE) /\ pc' = "outer" /\ UNCHANGED job
     \/ RemakeForward(FALSE) /\ RecoverAdb
  /\ UNCHANGED <<userVars, renderVars, m_serial, recoveryState, linkVars, fails, inner>>

-----------------------------------------------------------------------------
(* The inner loop: a connection.                                           *)

Waiting == pc = "wait" /\ running

\* What waitForData() and recvExact() find on a connection that is not closed.
NothingArrives == link \in Devices /\ app[link] = "silent"
BlockArrives == link \in Devices /\ app[link] = "streaming"

\* quickDisconnectCount, after a connection that did or did not last 3 s.
CountDisconnect_Never(lasted) ==
  fails' = [fails EXCEPT !.quick = 0]
CountDisconnect(lasted) ==
  fails' = [fails EXCEPT !.quick = IF lasted THEN 0 ELSE @ + 1]

\* After the inner loop, whose locals end with it.
LeaveConnection_Unannounced ==
  /\ pc = "left"
  /\ CountDisconnect(old)
  /\ link' = NoLink
  /\ old' = FALSE
  /\ inner' = Entered
  /\ pc' = IF fails'.quick = FailLimit THEN "quick" ELSE "outer"
  /\ UNCHANGED <<unannounced, phoneVars, userVars, renderVars, job, m_serial, recoveryState>>
LeaveConnection ==
  /\ pc = "left"
  /\ CountDisconnect(old)
  /\ Disconnect
  /\ inner' = Entered
  /\ pc' = IF fails'.quick = FailLimit THEN "quick" ELSE "outer"
  /\ UNCHANGED <<phoneVars, userVars, renderVars, job, m_serial, recoveryState>>

\* The socket is closed inside the loop; what would have come over it is lost.
HangUp == link' = NoLink /\ pc' = "left"

StopServing ==
  /\ pc = "wait" /\ ~running
  /\ Goto("left")
  /\ UNCHANGED <<phoneVars, userVars, renderVars>>

StaleCount_Restarted == 0
StaleCount == inner.staleCount + 1

\* waitForData() finds nothing for 100 ms; StaleLimit of them are over 3 s.
WaitTimesOut ==
  /\ Waiting /\ NothingArrives
  /\ IF inner.staleCount = StaleLimit
       THEN HangUp /\ RequestReset /\ old' = TRUE /\ UNCHANGED inner
       ELSE /\ inner' = [inner EXCEPT !.staleCount = StaleCount]
            /\ old' \in {old, TRUE}
            /\ UNCHANGED <<pc, link, unannounced>>
  /\ UNCHANGED <<phoneVars, userVars, renderVars, job, m_serial, recoveryState, fails>>

ReceiveBlock ==
  /\ Waiting /\ BlockArrives
  /\ inner' = [inner EXCEPT !.staleCount = 0]
  /\ old' \in {old, TRUE}
  /\ pc' = "gate"
  /\ UNCHANGED <<phoneVars, userVars, renderVars, job, m_serial, recoveryState, link,
                 unannounced, fails>>

\* recvExact() meets the end of the connection, or a block that stops half way.
ReceiveFails ==
  /\ Waiting
  /\ \/ link = ClosedLink /\ UNCHANGED faults
     \/ BlockArrives /\ faults < MaxFaults /\ faults' = faults + 1
  /\ HangUp /\ RequestReset
  /\ UNCHANGED <<online, forward, app, userVars, renderVars, job, m_serial, recoveryState, old,
                 fails, inner>>

EffectiveActive == ~demandMode \/ (micRequested /\ renderStallScore < StallLimit)

\* One more block thrown away; above IdleLimit the count tells nothing more.
NextIdleCount == IF inner.idleCount > IdleLimit THEN inner.idleCount ELSE inner.idleCount + 1

IdlesTooLong_AlwaysHot == alwaysHot /\ NextIdleCount > IdleLimit
IdlesTooLong == ~alwaysHot /\ NextIdleCount > IdleLimit

\* A block nobody wants: thrown away, after a reset if it is the first.  After
\* IdleLimit of them (over 3 s) the connection is given up.
DiscardBlock ==
  /\ pc = "gate" /\ ~EffectiveActive
  /\ inner' = [inner EXCEPT !.idleCount = NextIdleCount, !.wasIdle = TRUE]
  /\ unannounced' = TRUE
  /\ IF IdlesTooLong THEN HangUp /\ old' = TRUE
                     ELSE pc' = "wait" /\ UNCHANGED <<link, old>>
  /\ UNCHANGED <<phoneVars, userVars, renderVars, job, m_serial, recoveryState, fails>>

ResumeStream_Unannounced == UNCHANGED unannounced
ResumeStream == IF inner.wasIdle THEN RequestReset ELSE UNCHANGED unannounced

AcceptBlock ==
  /\ pc = "gate" /\ EffectiveActive
  /\ inner' = [inner EXCEPT !.idleCount = 0, !.wasIdle = FALSE]
  /\ ResumeStream
  /\ pc' = "push"
  /\ UNCHANGED <<phoneVars, userVars, renderVars, job, m_serial, recoveryState, link, old, fails>>

\* Trim and push, of which RenderRing has the accesses.
PushBlock ==
  /\ pc = "push"
  /\ Goto("wait")
  /\ UNCHANGED <<phoneVars, userVars, renderVars>>

\* Three quick disconnects in a row restart the Android app.
QuickDisconnects ==
  /\ pc = "quick"
  /\ fails' = [fails EXCEPT !.quick = 0]
  /\ \/ Succeeds(IsDeviceOnline) /\ RecoverAdb /\ UNCHANGED <<recoveryState, linkVars>>
     \/ Fails(IsDeviceOnline) /\ EnterAdbLost /\ UNCHANGED job
  /\ UNCHANGED <<userVars, renderVars, m_serial, inner>>

Bridge ==
  \/ Start \/ AdbInit \/ SetupAudioSource \/ VerifyRecovery \/ RetrySetup
  \/ Leave \/ PollAdbLost \/ IdleHealthCheck \/ IdleVerify
  \/ Connect \/ ConnectFailed \/ RefreshForward
  \/ StopServing \/ WaitTimesOut \/ ReceiveBlock \/ ReceiveFails
  \/ DiscardBlock \/ AcceptBlock \/ PushBlock \/ LeaveConnection \/ QuickDisconnects

bridgeVars == <<pc, job, m_serial, recoveryState, fails, inner>>

-----------------------------------------------------------------------------
(* renderThread().                                                         *)

StallScore == IF renderStallScore < StallLimit THEN renderStallScore + 1 ELSE renderStallScore

RenderWaitTimesOut ==
  /\ renderAlive
  /\ renderStallScore' = StallScore
  /\ UNCHANGED <<phoneVars, userVars, renderAlive, bridgeVars, linkVars>>

\* Blocks are taken from the ring in RenderRing.
RenderBlock ==
  /\ renderAlive
  /\ renderStallScore' = 0
  /\ UNCHANGED <<phoneVars, userVars, renderAlive, bridgeVars, linkVars>>

\* A failed HRESULT ends the thread; the score stays at zero.
RenderFails ==
  /\ renderAlive /\ faults < MaxFaults
  /\ faults' = faults + 1
  /\ renderAlive' = FALSE
  /\ renderStallScore' = 0
  /\ UNCHANGED <<online, forward, app, userVars, bridgeVars, linkVars>>

-----------------------------------------------------------------------------
(* The phones, and who else uses adb.                                      *)

\* A link to a device that is gone, or whose app has died, is closed.
LinkWithout(d) == link' = IF link = d THEN ClosedLink ELSE link

GoOffline(d) ==
  /\ d \in online /\ faults < MaxFaults
  /\ online' = online \ {d}
  /\ forward' = IF forward = d THEN NoDevice ELSE forward
  /\ LinkWithout(d)
  /\ faults' = faults + 1
  /\ UNCHANGED <<app, userVars, renderVars, bridgeVars, old, unannounced>>

ComeOnline(d) ==
  /\ d \notin online
  /\ online' = online \cup {d}
  /\ UNCHANGED <<forward, app, faults, userVars, renderVars, bridgeVars, linkVars>>

AppDies(d) ==
  /\ app[d] # "down" /\ faults < MaxFaults
  /\ app' = [app EXCEPT ![d] = "down"]
  /\ LinkWithout(d)
  /\ faults' = faults + 1
  /\ UNCHANGED <<online, forward, userVars, renderVars, bridgeVars, old, unannounced>>

FallSilent(d) ==
  /\ app[d] = "streaming" /\ faults < MaxFaults
  /\ app' = [app EXCEPT ![d] = "silent"]
  /\ faults' = faults + 1
  /\ UNCHANGED <<online, forward, userVars, renderVars, bridgeVars, linkVars>>

Resume(d) ==
  /\ app[d] = "silent"
  /\ app' = [app EXCEPT ![d] = "streaming"]
  /\ UNCHANGED <<online, forward, faults, userVars, renderVars, bridgeVars, linkVars>>

\* scrcpy removes the forwards when it ends.
LoseForward ==
  /\ forward # NoDevice /\ faults < MaxFaults
  /\ forward' = NoDevice
  /\ faults' = faults + 1
  /\ UNCHANGED <<online, app, userVars, renderVars, bridgeVars, linkVars>>

Phone(d) == GoOffline(d) \/ ComeOnline(d) \/ AppDies(d) \/ FallSilent(d) \/ Resume(d)

-----------------------------------------------------------------------------
(* The user and the monitor, as the bridge sees them.                      *)

ChangeGate ==
  /\ running
  /\ \/ alwaysHot' = ~alwaysHot /\ UNCHANGED <<demandMode, micRequested>>
     \/ demandMode' = ~demandMode /\ UNCHANGED <<alwaysHot, micRequested>>
     \/ micRequested' = ~micRequested /\ UNCHANGED <<alwaysHot, demandMode>>
  /\ UNCHANGED <<phoneVars, serial, running, renderVars, bridgeVars, linkVars>>

Quit ==
  /\ running
  /\ running' = FALSE
  /\ UNCHANGED <<phoneVars, serial, alwaysHot, demandMode, micRequested, renderVars,
                 bridgeVars, linkVars>>

\* The bridge thread and the user have ended.
Ended == ~running /\ pc = "done" /\ UNCHANGED vars

Next ==
  \/ Bridge
  \/ RenderWaitTimesOut \/ RenderBlock \/ RenderFails
  \/ (\E d \in Devices : Phone(d)) \/ LoseForward
  \/ ChangeGate \/ Quit \/ Ended

Spec == Init /\ [][Next]_vars

\* Windows schedules the bridge thread, and its timers expire.  Nothing is
\* asked of the phone, adb, the user or the audio device.
FairSpec == Spec /\ WF_vars(Bridge)

-----------------------------------------------------------------------------
(* Properties.                                                             *)

PhonesTypeOK ==
  /\ online \in SUBSET Devices /\ forward \in Devices \cup {NoDevice}
  /\ app \in [Devices -> {"down", "streaming", "silent"}] /\ faults \in 0..MaxFaults
FlagsTypeOK ==
  /\ running \in BOOLEAN /\ alwaysHot \in BOOLEAN
  /\ demandMode \in BOOLEAN /\ micRequested \in BOOLEAN
  /\ renderAlive \in BOOLEAN /\ old \in BOOLEAN /\ unannounced \in BOOLEAN
PlaceTypeOK ==
  /\ serial \in Devices \cup {NoDevice} /\ m_serial \in Devices \cup {NoDevice}
  /\ pc \in {"start", "init", "app", "forward", "verify", "retry", "outer", "idleVerify",
             "failed", "refresh", "wait", "gate", "push", "left", "quick", "done"}
  /\ job \in {"setup", "recover"} /\ recoveryState \in {"Healthy", "AdbLost"}
  /\ link \in Devices \cup {NoLink, ClosedLink}
InnerLocals == [idleCount : 0..IdleLimit + 1, staleCount : 0..StaleLimit, wasIdle : BOOLEAN]
CountsTypeOK ==
  /\ renderStallScore \in 0..StallLimit
  /\ fails \in [connect : 0..FailLimit, quick : 0..FailLimit]
  /\ inner \in InnerLocals
TypeOK == PhonesTypeOK /\ FlagsTypeOK /\ PlaceTypeOK /\ CountsTypeOK

\* The denoiser learns of every gap at the gate and between connections before
\* the next block goes to the ring, and not only then: whenever a connection is
\* left it has been told, so nothing of the old stream is kept for the next.  (The
\* reset of connect() is one more than this needs.  The blocks the trim drops and
\* those a full ring refuses are gaps too; main.cpp:472-482 announces none.)
GapsAnnounced == pc \in {"push", "outer"} => ~unannounced

\* There is a socket while a connection is served and, at most until the end of the
\* inner loop is done with, at no other time: every way out of that loop, of a
\* recovery and of the thread leaves none behind, none is overwritten by the next
\* connect(), and none is served while adb is given up.
SocketServed ==
  /\ pc \in {"wait", "gate", "push"} => link # NoLink
  /\ link # NoLink => pc \in {"wait", "gate", "push", "left"}
  /\ recoveryState = "AdbLost" => link = NoLink

\* Whatever goes wrong finitely often - adb commands, the forward, the
\* connection, the Android app - once the device is there and its app not
\* hung, a listener gets a connection to it that stays.
Recovers ==
  <>[](running /\ pc # "done" /\ IsDeviceOnline /\ (\A d \in Devices : app[d] # "silent")
       /\ (~demandMode \/ micRequested) /\ EffectiveActive)
    => <>[](link \in Devices)

\* With nobody listening and Always Hot off the phone is left alone.
IdleDisconnects == <>[](~Wanted) => <>[](link = NoLink)

\* A phone that stays connected and sends nothing is noticed.
StallNoticed == <>[](\A d \in Devices : app[d] = "silent") => []<>(link = NoLink)

\* The program ends: the bridge thread leaves every loop and closes the socket.
BridgeEnds == ~running ~> (pc = "done" /\ link = NoLink)

\* adb_control.cpp: "Preferred device %s not found, falling back to
\* auto-detect".  A device so selected is served: it is only given up when it
\* is offline.
FallbackServed ==
  [][recoveryState = "Healthy" /\ recoveryState' = "AdbLost" => m_serial \notin online]_vars
=============================================================================
