------------------------- MODULE AudioBridgeProofs -------------------------
(***************************************************************************)
(* Theorems about AudioBridge, for every set of devices and all limits:    *)
(* the types and limits of its counters, every gap announced, a socket     *)
(* only while a connection is served.                                      *)
(***************************************************************************)
EXTENDS AudioBridge, TLAPS

\* Why the failure counters stop at their limit: a counter that has reached it
\* is on its way to the recovery that resets it.
FailsEscalate ==
  /\ fails.connect = FailLimit => pc = "failed" \/ recoveryState = "AdbLost"
  /\ fails.quick = FailLimit => pc = "quick"

TypeInv == TypeOK /\ FailsEscalate

\* A connection that is not idle has announced its last gap, and so has one
\* that is about to push; only a connection has a gap to announce.
GapsInv ==
  /\ ~inner.wasIdle => ~unannounced
  /\ unannounced => pc \in {"wait", "gate", "left"}

-----------------------------------------------------------------------------
(* Type correctness.                                                       *)

\* The initial state has the types of the variables.
LEMMA TypeInit == Init => TypeInv
<1>. USE LimitAssumption DEF LimitAssumption, Init
<1>1. Init => PhonesTypeOK
  BY DEF PhonesTypeOK
<1>2. Init => FlagsTypeOK
  BY DEF FlagsTypeOK
<1>3. Init => PlaceTypeOK
  BY DEF PlaceTypeOK, NoLink
<1>4. Init => CountsTypeOK
  BY DEF CountsTypeOK, InnerLocals, Entered, FailLimit
<1>5. Init => FailsEscalate
  BY DEF FailsEscalate, FailLimit
<1>. QED
  BY <1>1, <1>2, <1>3, <1>4, <1>5 DEF TypeInv, TypeOK

\* Every step keeps the types of the phones.
LEMMA PhonesTypeStep ==
  TypeOK /\ [Next]_vars => PhonesTypeOK'
<1>. USE LimitAssumption
     DEF LimitAssumption, TypeOK, PhonesTypeOK, PlaceTypeOK, phoneVars, userVars, renderVars,
         linkVars, bridgeVars,
         Fails, Succeeds, CommandFails, SetupFails, EnterAdbLost, Disconnect, RequestReset
<1>. SUFFICES ASSUME TypeOK, [Next]_vars PROVE PhonesTypeOK'
  OBVIOUS
<1>1. CASE Start \/ RetrySetup
  BY <1>1 DEF Start, RetrySetup, AfterRetry, Goto
<1>2. CASE AdbInit
  BY <1>2 DEF AdbInit
<1>3. CASE StartApp
  BY <1>3 DEF StartApp
<1>4. CASE CreateForward
  BY <1>4 DEF CreateForward, RemakeForward
<1>5. CASE VerifyRecovery
  BY <1>5 DEF VerifyRecovery
<1>6. CASE Leave \/ PollAdbLost
  BY <1>6 DEF Leave, CleanedUp, PollAdbLost, RecoverAdb
<1>7. CASE IdleHealthCheck \/ IdleVerify
  BY <1>7 DEF IdleHealthCheck, IdleVerify, RecoverAdb
<1>8. CASE Connect
  BY <1>8 DEF Connect, Connected, AtOuter
<1>9. CASE ConnectFailed
  BY <1>9 DEF ConnectFailed, RecoverAdb
<1>10. CASE RefreshForward
  BY <1>10 DEF RefreshForward, RemakeForward, RecoverAdb
<1>11. CASE QuickDisconnects
  BY <1>11 DEF QuickDisconnects, RecoverAdb
<1>12. CASE StopServing \/ ReceiveFails
  BY <1>12 DEF StopServing, Goto, ReceiveFails, HangUp
<1>13. CASE WaitTimesOut
  BY <1>13 DEF WaitTimesOut, Waiting, HangUp, StaleCount
<1>14. CASE ReceiveBlock
  BY <1>14 DEF ReceiveBlock, Waiting
<1>15. CASE DiscardBlock
  BY <1>15 DEF DiscardBlock, NextIdleCount, HangUp
<1>16. CASE AcceptBlock \/ PushBlock
  BY <1>16 DEF AcceptBlock, ResumeStream, PushBlock, Goto
<1>17. CASE LeaveConnection
  BY <1>17 DEF LeaveConnection, CountDisconnect
<1>18. CASE RenderWaitTimesOut \/ RenderBlock \/ RenderFails
  BY <1>18 DEF RenderWaitTimesOut, StallScore, RenderBlock, RenderFails
<1>19. ASSUME NEW d \in Devices, Phone(d) PROVE PhonesTypeOK'
  BY <1>19 DEF Phone, GoOffline, ComeOnline, AppDies, FallSilent, Resume, LinkWithout
<1>20. CASE LoseForward \/ ChangeGate \/ Quit \/ UNCHANGED vars
  BY <1>20 DEF LoseForward, ChangeGate, Quit, vars
<1>. QED
  BY <1>1, <1>2, <1>3, <1>4, <1>5, <1>6, <1>7, <1>8, <1>9, <1>10, <1>11, <1>12, <1>13, <1>14,
     <1>15, <1>16, <1>17, <1>18, <1>19, <1>20
     DEF Next, Bridge, SetupAudioSource, Ended

\* Every step keeps the flags Boolean.
LEMMA FlagsTypeStep ==
  TypeOK /\ [Next]_vars => FlagsTypeOK'
<1>. USE DEF TypeOK, FlagsTypeOK, phoneVars, userVars, renderVars, linkVars, bridgeVars,
         Fails, Succeeds, CommandFails, SetupFails, EnterAdbLost, Disconnect, RequestReset
<1>. SUFFICES ASSUME TypeOK, [Next]_vars PROVE FlagsTypeOK'
  OBVIOUS
<1>1. CASE Start \/ RetrySetup
  BY <1>1 DEF Start, RetrySetup, AfterRetry, Goto
<1>2. CASE AdbInit
  BY <1>2 DEF AdbInit
<1>3. CASE StartApp
  BY <1>3 DEF StartApp
<1>4. CASE CreateForward
  BY <1>4 DEF CreateForward, RemakeForward
<1>5. CASE VerifyRecovery
  BY <1>5 DEF VerifyRecovery
<1>6. CASE Leave \/ PollAdbLost
  BY <1>6 DEF Leave, CleanedUp, PollAdbLost, RecoverAdb
<1>7. CASE IdleHealthCheck \/ IdleVerify
  BY <1>7 DEF IdleHealthCheck, IdleVerify, RecoverAdb
<1>8. CASE Connect
  BY <1>8 DEF Connect, Connected, AtOuter
<1>9. CASE ConnectFailed
  BY <1>9 DEF ConnectFailed, RecoverAdb
<1>10. CASE RefreshForward
  BY <1>10 DEF RefreshForward, RemakeForward, RecoverAdb
<1>11. CASE QuickDisconnects
  BY <1>11 DEF QuickDisconnects, RecoverAdb
<1>12. CASE StopServing \/ ReceiveFails
  BY <1>12 DEF StopServing, Goto, ReceiveFails, HangUp
<1>13. CASE WaitTimesOut
  BY <1>13 DEF WaitTimesOut, Waiting, HangUp, StaleCount
<1>14. CASE ReceiveBlock
  BY <1>14 DEF ReceiveBlock, Waiting
<1>15. CASE DiscardBlock
  BY <1>15 DEF DiscardBlock, NextIdleCount, HangUp
<1>16. CASE AcceptBlock \/ PushBlock
  BY <1>16 DEF AcceptBlock, ResumeStream, PushBlock, Goto
<1>17. CASE LeaveConnection
  BY <1>17 DEF LeaveConnection, CountDisconnect
<1>18. CASE RenderWaitTimesOut \/ RenderBlock \/ RenderFails
  BY <1>18 DEF RenderWaitTimesOut, StallScore, RenderBlock, RenderFails
<1>19. ASSUME NEW d \in Devices, Phone(d) PROVE FlagsTypeOK'
  BY <1>19 DEF Phone, GoOffline, ComeOnline, AppDies, FallSilent, Resume, LinkWithout
<1>20. CASE LoseForward \/ ChangeGate \/ Quit \/ UNCHANGED vars
  BY <1>20 DEF LoseForward, ChangeGate, Quit, vars
<1>. QED
  BY <1>1, <1>2, <1>3, <1>4, <1>5, <1>6, <1>7, <1>8, <1>9, <1>10, <1>11, <1>12, <1>13, <1>14,
     <1>15, <1>16, <1>17, <1>18, <1>19, <1>20
     DEF Next, Bridge, SetupAudioSource, Ended

\* Every step of the bridge leads to a place, with a device selected or none.
LEMMA PlaceTypeStep ==
  TypeOK /\ [Next]_vars => PlaceTypeOK'
<1>. USE DEF TypeOK, PlaceTypeOK, PhonesTypeOK, NoLink, ClosedLink, phoneVars, userVars,
         renderVars, linkVars, bridgeVars,
         Fails, Succeeds, CommandFails, SetupFails, EnterAdbLost, Disconnect, RequestReset
<1>. SUFFICES ASSUME TypeOK, [Next]_vars PROVE PlaceTypeOK'
  OBVIOUS
<1>1. CASE Start \/ RetrySetup
  BY <1>1 DEF Start, RetrySetup, AfterRetry, Goto
<1>2. CASE AdbInit
  BY <1>2 DEF AdbInit
<1>3. CASE StartApp
  BY <1>3 DEF StartApp
<1>4. CASE CreateForward
  BY <1>4 DEF CreateForward, RemakeForward
<1>5. CASE VerifyRecovery
  BY <1>5 DEF VerifyRecovery
<1>6. CASE Leave \/ PollAdbLost
  BY <1>6 DEF Leave, CleanedUp, PollAdbLost, RecoverAdb
<1>7. CASE IdleHealthCheck \/ IdleVerify
  BY <1>7 DEF IdleHealthCheck, IdleVerify, RecoverAdb
<1>8. CASE Connect
  BY <1>8 DEF Connect, Connected, AtOuter, DeviceAssumption
<1>9. CASE ConnectFailed
  BY <1>9 DEF ConnectFailed, RecoverAdb
<1>10. CASE RefreshForward
  BY <1>10 DEF RefreshForward, RemakeForward, RecoverAdb
<1>11. CASE QuickDisconnects
  BY <1>11 DEF QuickDisconnects, RecoverAdb
<1>12. CASE StopServing \/ ReceiveFails
  BY <1>12 DEF StopServing, Goto, ReceiveFails, HangUp
<1>13. CASE WaitTimesOut
  BY <1>13 DEF WaitTimesOut, Waiting, HangUp, StaleCount
<1>14. CASE ReceiveBlock
  BY <1>14 DEF ReceiveBlock, Waiting
<1>15. CASE DiscardBlock
  BY <1>15 DEF DiscardBlock, NextIdleCount, HangUp
<1>16. CASE AcceptBlock \/ PushBlock
  BY <1>16 DEF AcceptBlock, ResumeStream, PushBlock, Goto
<1>17. CASE LeaveConnection
  BY <1>17 DEF LeaveConnection, CountDisconnect
<1>18. CASE RenderWaitTimesOut \/ RenderBlock \/ RenderFails
  BY <1>18 DEF RenderWaitTimesOut, StallScore, RenderBlock, RenderFails
<1>19. ASSUME NEW d \in Devices, Phone(d) PROVE PlaceTypeOK'
  BY <1>19 DEF Phone, GoOffline, ComeOnline, AppDies, FallSilent, Resume, LinkWithout
<1>20. CASE LoseForward \/ ChangeGate \/ Quit \/ UNCHANGED vars
  BY <1>20 DEF LoseForward, ChangeGate, Quit, vars
<1>. QED
  BY <1>1, <1>2, <1>3, <1>4, <1>5, <1>6, <1>7, <1>8, <1>9, <1>10, <1>11, <1>12, <1>13, <1>14,
     <1>15, <1>16, <1>17, <1>18, <1>19, <1>20
     DEF Next, Bridge, SetupAudioSource, Ended

\* The assignments to the locals of the inner loop keep their types.
LEMMA InnerUpdates ==
  ASSUME NEW r \in InnerLocals
  PROVE  /\ Entered \in InnerLocals
         /\ \A n \in 0..IdleLimit + 1, w \in BOOLEAN :
              [r EXCEPT !.idleCount = n, !.wasIdle = w] \in InnerLocals
         /\ \A n \in 0..StaleLimit : [r EXCEPT !.staleCount = n] \in InnerLocals
<1>. USE LimitAssumption DEF LimitAssumption, InnerLocals
<1>1. Entered \in InnerLocals
  BY DEF Entered
<1>2. \A n \in 0..IdleLimit + 1, w \in BOOLEAN :
        [r EXCEPT !.idleCount = n, !.wasIdle = w] \in InnerLocals
  OBVIOUS
<1>3. \A n \in 0..StaleLimit : [r EXCEPT !.staleCount = n] \in InnerLocals
  OBVIOUS
<1>. QED
  BY <1>1, <1>2, <1>3

\* A disconnect counts the quick ones up to the limit and no others.
LEMMA Disconnected ==
  ASSUME TypeInv, pc # "quick", NEW lasted \in BOOLEAN, CountDisconnect(lasted)
  PROVE  fails' \in [connect : 0..FailLimit, quick : 0..FailLimit] /\ fails'.connect = fails.connect
  BY DEF CountDisconnect, TypeInv, TypeOK, CountsTypeOK, FailsEscalate, FailLimit

\* Every counter stays below its limit.
LEMMA CountsTypeStep ==
  TypeInv /\ [Next]_vars => CountsTypeOK'
<1>. USE LimitAssumption
     DEF LimitAssumption, TypeInv, TypeOK, FlagsTypeOK, CountsTypeOK,
         FailsEscalate, FailLimit,
         phoneVars, userVars, renderVars, linkVars, bridgeVars,
         Fails, Succeeds, CommandFails, SetupFails, EnterAdbLost, Disconnect, RequestReset
<1>. SUFFICES ASSUME TypeInv, [Next]_vars PROVE CountsTypeOK'
  OBVIOUS
<1>1. CASE Start \/ RetrySetup
  BY <1>1 DEF Start, RetrySetup, AfterRetry, Goto
<1>2. CASE AdbInit
  BY <1>2 DEF AdbInit
<1>3. CASE StartApp
  BY <1>3 DEF StartApp
<1>4. CASE CreateForward
  BY <1>4 DEF CreateForward, RemakeForward
<1>5. CASE VerifyRecovery
  BY <1>5 DEF VerifyRecovery
<1>6. CASE Leave \/ PollAdbLost
  BY <1>6 DEF Leave, CleanedUp, PollAdbLost, RecoverAdb
<1>7. CASE IdleHealthCheck \/ IdleVerify
  BY <1>7 DEF IdleHealthCheck, IdleVerify, RecoverAdb
<1>8. CASE Connect
  <2>1. fails.connect # FailLimit \/ forward \in online
    BY <1>8 DEF Connect, Connected, AtOuter
  <2>2. fails' \in [connect : 0..FailLimit, quick : 0..FailLimit]
    BY <1>8, <2>1 DEF Connect
  <2>3. inner' \in InnerLocals
    BY <1>8, InnerUpdates DEF Connect
  <2>. QED
    BY <1>8, <2>2, <2>3 DEF Connect, Connected
<1>9. CASE ConnectFailed
  BY <1>9 DEF ConnectFailed, RecoverAdb
<1>10. CASE RefreshForward
  BY <1>10 DEF RefreshForward, RemakeForward, RecoverAdb
<1>11. CASE QuickDisconnects
  BY <1>11 DEF QuickDisconnects, RecoverAdb
<1>12. CASE StopServing \/ ReceiveFails
  BY <1>12 DEF StopServing, Goto, ReceiveFails, HangUp
<1>13. CASE WaitTimesOut
  <2>1. inner.staleCount # StaleLimit => StaleCount \in 0..StaleLimit
    BY DEF StaleCount, InnerLocals
  <2>2. inner' \in InnerLocals
    BY <1>13, <2>1, InnerUpdates DEF WaitTimesOut
  <2>. QED
    BY <1>13, <2>2 DEF WaitTimesOut
<1>14. CASE ReceiveBlock
  <2>1. 0 \in 0..StaleLimit
    OBVIOUS
  <2>2. [inner EXCEPT !.staleCount = 0] \in InnerLocals
    BY <2>1, InnerUpdates
  <2>. QED
    BY <1>14, <2>2 DEF ReceiveBlock
<1>15. CASE DiscardBlock
  <2>1. NextIdleCount \in 0..IdleLimit + 1
    BY DEF NextIdleCount, InnerLocals
  <2>2. inner' \in InnerLocals
    BY <1>15, <2>1, InnerUpdates DEF DiscardBlock
  <2>. QED
    BY <1>15, <2>2 DEF DiscardBlock
<1>16. CASE AcceptBlock \/ PushBlock
  <2>1. 0 \in 0..IdleLimit + 1
    OBVIOUS
  <2>2. [inner EXCEPT !.idleCount = 0, !.wasIdle = FALSE] \in InnerLocals
    BY <2>1, InnerUpdates
  <2>. QED
    BY <1>16, <2>2 DEF AcceptBlock, PushBlock, Goto
<1>17. CASE LeaveConnection
  <2>1. fails' \in [connect : 0..FailLimit, quick : 0..FailLimit]
    BY <1>17, Disconnected DEF LeaveConnection
  <2>2. inner' \in InnerLocals
    BY <1>17, InnerUpdates DEF LeaveConnection
  <2>. QED
    BY <1>17, <2>1, <2>2 DEF LeaveConnection
<1>18. CASE RenderWaitTimesOut \/ RenderBlock \/ RenderFails
  BY <1>18 DEF RenderWaitTimesOut, StallScore, RenderBlock, RenderFails
<1>19. ASSUME NEW d \in Devices, Phone(d) PROVE CountsTypeOK'
  BY <1>19 DEF Phone, GoOffline, ComeOnline, AppDies, FallSilent, Resume, LinkWithout
<1>20. CASE LoseForward \/ ChangeGate \/ Quit \/ UNCHANGED vars
  BY <1>20 DEF LoseForward, ChangeGate, Quit, vars
<1>. QED
  BY <1>1, <1>2, <1>3, <1>4, <1>5, <1>6, <1>7, <1>8, <1>9, <1>10, <1>11, <1>12, <1>13, <1>14,
     <1>15, <1>16, <1>17, <1>18, <1>19, <1>20
     DEF Next, Bridge, SetupAudioSource, Ended

\* A counter at its limit is on its way to the recovery.
LEMMA EscalateStep ==
  TypeInv /\ [Next]_vars => FailsEscalate'
<1>. USE DEF TypeInv, TypeOK, FlagsTypeOK, CountsTypeOK, InnerLocals, FailsEscalate,
         FailLimit, phoneVars, userVars, renderVars, linkVars, bridgeVars,
         Fails, Succeeds, CommandFails, SetupFails, EnterAdbLost, Disconnect, RequestReset
<1>. SUFFICES ASSUME TypeInv, [Next]_vars PROVE FailsEscalate'
  OBVIOUS
<1>1. CASE Start \/ RetrySetup
  BY <1>1 DEF Start, RetrySetup, AfterRetry, Goto
<1>2. CASE AdbInit
  BY <1>2 DEF AdbInit
<1>3. CASE StartApp
  BY <1>3 DEF StartApp
<1>4. CASE CreateForward
  BY <1>4 DEF CreateForward, RemakeForward
<1>5. CASE VerifyRecovery
  BY <1>5 DEF VerifyRecovery
<1>6. CASE Leave \/ PollAdbLost
  BY <1>6 DEF Leave, CleanedUp, PollAdbLost, AtOuter, RecoverAdb
<1>7. CASE IdleHealthCheck \/ IdleVerify
  BY <1>7 DEF IdleHealthCheck, IdleVerify, AtOuter, RecoverAdb
<1>8. CASE Connect
  BY <1>8 DEF Connect, Connected, AtOuter
<1>9. CASE ConnectFailed
  BY <1>9 DEF ConnectFailed, RecoverAdb
<1>10. CASE RefreshForward
  BY <1>10 DEF RefreshForward, RemakeForward, RecoverAdb
<1>11. CASE QuickDisconnects
  BY <1>11 DEF QuickDisconnects, RecoverAdb
<1>12. CASE StopServing \/ ReceiveFails
  BY <1>12 DEF StopServing, Goto, ReceiveFails, HangUp, Waiting
<1>13. CASE WaitTimesOut
  BY <1>13 DEF WaitTimesOut, Waiting, HangUp, StaleCount
<1>14. CASE ReceiveBlock
  BY <1>14 DEF ReceiveBlock, Waiting
<1>15. CASE DiscardBlock
  BY <1>15 DEF DiscardBlock, NextIdleCount, HangUp
<1>16. CASE AcceptBlock \/ PushBlock
  BY <1>16 DEF AcceptBlock, ResumeStream, PushBlock, Goto
<1>17. CASE LeaveConnection
  BY <1>17, Disconnected DEF LeaveConnection
<1>18. CASE RenderWaitTimesOut \/ RenderBlock \/ RenderFails
  BY <1>18 DEF RenderWaitTimesOut, StallScore, RenderBlock, RenderFails
<1>19. ASSUME NEW d \in Devices, Phone(d) PROVE FailsEscalate'
  BY <1>19 DEF Phone, GoOffline, ComeOnline, AppDies, FallSilent, Resume, LinkWithout
<1>20. CASE LoseForward \/ ChangeGate \/ Quit \/ UNCHANGED vars
  BY <1>20 DEF LoseForward, ChangeGate, Quit, vars
<1>. QED
  BY <1>1, <1>2, <1>3, <1>4, <1>5, <1>6, <1>7, <1>8, <1>9, <1>10, <1>11, <1>12, <1>13, <1>14,
     <1>15, <1>16, <1>17, <1>18, <1>19, <1>20
     DEF Next, Bridge, SetupAudioSource, Ended

\* Every step keeps the types and the counters' way out.
LEMMA TypeStep == TypeInv /\ [Next]_vars => TypeInv'
  BY PhonesTypeStep, FlagsTypeStep, PlaceTypeStep, CountsTypeStep, EscalateStep
     DEF TypeInv, TypeOK

\* Along every behaviour the types hold and the counters escalate.
LEMMA TypeInvariant == Spec => []TypeInv
  BY TypeInit, TypeStep, PTL DEF Spec

\* Every variable keeps its type, every counter of main.cpp its limit.
THEOREM TypeCorrect == Spec => []TypeOK
<1>1. TypeInv => TypeOK
  BY DEF TypeInv
<1>. QED
  BY <1>1, TypeInvariant, PTL

-----------------------------------------------------------------------------
(* The gaps.                                                               *)

\* Every step keeps the gap that is not announced inside a connection.
LEMMA GapsStep == TypeInv /\ GapsInv /\ [Next]_vars => GapsInv'
<1>. USE DEF GapsInv, TypeInv, TypeOK, FlagsTypeOK, CountsTypeOK, InnerLocals, Entered,
         phoneVars, userVars, renderVars, linkVars, bridgeVars,
         Fails, Succeeds, CommandFails, SetupFails, EnterAdbLost, Disconnect, RequestReset
<1>. SUFFICES ASSUME TypeInv, GapsInv, [Next]_vars PROVE GapsInv'
  OBVIOUS
<1>1. CASE Start \/ RetrySetup
  BY <1>1 DEF Start, RetrySetup, AfterRetry, Goto
<1>2. CASE AdbInit \/ StartApp
  BY <1>2 DEF AdbInit, StartApp
<1>3. CASE CreateForward \/ VerifyRecovery
  BY <1>3 DEF CreateForward, RemakeForward, VerifyRecovery
<1>4. CASE Leave \/ PollAdbLost
  BY <1>4 DEF Leave, CleanedUp, PollAdbLost, AtOuter, RecoverAdb
<1>5. CASE IdleHealthCheck \/ IdleVerify
  BY <1>5 DEF IdleHealthCheck, IdleVerify, AtOuter, RecoverAdb
<1>6. CASE Connect
  BY <1>6 DEF Connect, AtOuter
<1>7. CASE ConnectFailed \/ RefreshForward
  BY <1>7 DEF ConnectFailed, RefreshForward, RemakeForward, RecoverAdb
<1>8. CASE QuickDisconnects
  BY <1>8 DEF QuickDisconnects, RecoverAdb
<1>9. CASE StopServing \/ ReceiveFails
  BY <1>9 DEF StopServing, Goto, ReceiveFails, HangUp, Waiting
<1>10. CASE WaitTimesOut \/ ReceiveBlock
  <2>1. inner'.wasIdle = inner.wasIdle
    BY <1>10 DEF WaitTimesOut, ReceiveBlock
  <2>2. pc = "wait" /\ pc' \in {"wait", "gate", "left"}
    BY <1>10 DEF WaitTimesOut, ReceiveBlock, Waiting, HangUp
  <2>3. unannounced' = unannounced \/ unannounced' = FALSE
    BY <1>10 DEF WaitTimesOut, ReceiveBlock
  <2>. QED
    BY <2>1, <2>2, <2>3
<1>11. CASE DiscardBlock
  BY <1>11 DEF DiscardBlock, HangUp
<1>12. CASE AcceptBlock \/ PushBlock
  BY <1>12 DEF AcceptBlock, ResumeStream, PushBlock, Goto
<1>13. CASE LeaveConnection
  BY <1>13 DEF LeaveConnection
<1>14. CASE RenderWaitTimesOut \/ RenderBlock \/ RenderFails
  BY <1>14 DEF RenderWaitTimesOut, RenderBlock, RenderFails
<1>15. ASSUME NEW d \in Devices, Phone(d) PROVE GapsInv'
  BY <1>15 DEF Phone, GoOffline, ComeOnline, AppDies, FallSilent, Resume
<1>16. CASE LoseForward \/ ChangeGate \/ Quit \/ UNCHANGED vars
  BY <1>16 DEF LoseForward, ChangeGate, Quit, vars
<1>. QED
  BY <1>1, <1>2, <1>3, <1>4, <1>5, <1>6, <1>7, <1>8, <1>9, <1>10, <1>11, <1>12, <1>13, <1>14,
     <1>15, <1>16 DEF Next, Bridge, SetupAudioSource, Ended

\* The denoiser has been told of every gap at the gate and between connections by
\* the time the next block reaches the ring or the connection is left.
THEOREM GapsCorrect == Spec => []GapsAnnounced
<1>1. Init => GapsInv
  BY DEF Init, GapsInv, Entered
<1>2. GapsInv => GapsAnnounced
  BY DEF GapsInv, GapsAnnounced
<1>. QED
  BY <1>1, <1>2, GapsStep, TypeInvariant, PTL DEF Spec

-----------------------------------------------------------------------------
(* The socket.                                                             *)

\* connect() returns with a socket or leaves the link as it was.
LEMMA ConnectOpens ==
  ASSUME TypeOK, Connect
  PROVE  (link' # NoLink /\ pc' = "wait") \/ (link' = link /\ pc' = "failed")
<1>1. \/ forward \in Devices /\ link' = Connected(forward) /\ pc' = "wait"
      \/ link' = link /\ pc' = "failed"
  BY DEF Connect, TypeOK, PhonesTypeOK, linkVars
<1>2. forward \in Devices => Connected(forward) \in Devices \cup {ClosedLink}
  BY DEF Connected
<1>3. NoLink \notin Devices /\ NoLink # ClosedLink
  BY LinkAssumption DEF LinkAssumption, NoLink, ClosedLink
<1>. QED
  BY <1>1, <1>2, <1>3

\* Every step into the inner loop opens a socket, every step out closes it.
LEMMA SocketStep == TypeInv /\ SocketServed /\ [Next]_vars => SocketServed'
<1>. USE DEF SocketServed, TypeInv, TypeOK, PhonesTypeOK, PlaceTypeOK, NoLink, ClosedLink,
         phoneVars, userVars, renderVars, linkVars, bridgeVars, Fails, Succeeds, CommandFails,
         SetupFails, EnterAdbLost, Disconnect, RequestReset
<1>. SUFFICES ASSUME TypeInv, SocketServed, [Next]_vars PROVE SocketServed'
  OBVIOUS
<1>1. CASE Start \/ RetrySetup
  BY <1>1 DEF Start, RetrySetup, AfterRetry, Goto
<1>2. CASE AdbInit
  BY <1>2 DEF AdbInit
<1>3. CASE StartApp
  BY <1>3 DEF StartApp
<1>4. CASE CreateForward
  BY <1>4 DEF CreateForward, RemakeForward
<1>5. CASE VerifyRecovery
  BY <1>5 DEF VerifyRecovery
<1>6. CASE Leave \/ PollAdbLost
  BY <1>6 DEF Leave, CleanedUp, PollAdbLost, AtOuter, RecoverAdb
<1>7. CASE IdleHealthCheck \/ IdleVerify
  BY <1>7 DEF IdleHealthCheck, IdleVerify, AtOuter, RecoverAdb
<1>8. CASE Connect
  <2>1. (link' # NoLink /\ pc' = "wait") \/ (link' = link /\ pc' = "failed")
    BY <1>8, ConnectOpens
  <2>2. pc = "outer" /\ recoveryState' = "Healthy"
    BY <1>8 DEF Connect, AtOuter
  <2>. QED
    BY <2>1, <2>2
<1>9. CASE ConnectFailed
  BY <1>9 DEF ConnectFailed, RecoverAdb
<1>10. CASE RefreshForward
  BY <1>10 DEF RefreshForward, RemakeForward, RecoverAdb
<1>11. CASE QuickDisconnects
  BY <1>11 DEF QuickDisconnects, RecoverAdb
<1>12. CASE StopServing \/ ReceiveFails
  BY <1>12 DEF StopServing, Goto, ReceiveFails, HangUp, Waiting
<1>13. CASE WaitTimesOut
  BY <1>13 DEF WaitTimesOut, Waiting, HangUp
<1>14. CASE ReceiveBlock
  BY <1>14 DEF ReceiveBlock, Waiting
<1>15. CASE DiscardBlock
  BY <1>15 DEF DiscardBlock, HangUp
<1>16. CASE AcceptBlock \/ PushBlock
  BY <1>16 DEF AcceptBlock, ResumeStream, PushBlock, Goto
<1>17. CASE LeaveConnection
  BY <1>17 DEF LeaveConnection
<1>18. CASE RenderWaitTimesOut \/ RenderBlock \/ RenderFails
  BY <1>18 DEF RenderWaitTimesOut, RenderBlock, RenderFails
<1>19. ASSUME NEW d \in Devices, Phone(d) PROVE SocketServed'
  <2>1. UNCHANGED <<pc, recoveryState>> /\ (link' = link \/ (link = d /\ link' = ClosedLink))
    BY <1>19 DEF Phone, GoOffline, ComeOnline, AppDies, FallSilent, Resume, LinkWithout
  <2>2. link' = NoLink <=> link = NoLink
    BY <1>19, <2>1, LinkAssumption DEF LinkAssumption
  <2>. QED
    BY <2>1, <2>2
<1>20. CASE LoseForward \/ ChangeGate \/ Quit \/ UNCHANGED vars
  BY <1>20 DEF LoseForward, ChangeGate, Quit, vars
<1>. QED
  BY <1>1, <1>2, <1>3, <1>4, <1>5, <1>6, <1>7, <1>8, <1>9, <1>10, <1>11, <1>12, <1>13, <1>14,
     <1>15, <1>16, <1>17, <1>18, <1>19, <1>20
     DEF Next, Bridge, SetupAudioSource, Ended

\* No path through connection, gate, recovery and end leaks the socket.
THEOREM SocketCorrect == Spec => []SocketServed
<1>1. Init => SocketServed
  BY DEF Init, SocketServed
<1>. QED
  BY <1>1, SocketStep, TypeInvariant, PTL DEF Spec
=============================================================================
