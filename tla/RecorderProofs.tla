--------------------------- MODULE RecorderProofs ---------------------------
(***************************************************************************)
(* Proofs about Recorder, for any number of launches, clients and faults:  *)
(* the microphone records only for a client, a service that has gone       *)
(* leaves nothing behind, a stop reaches the thread wherever it is, and no *)
(* client is left to wait on a socket nobody cares for.                    *)
(*                                                                         *)
(* Both rest on who owns what: the socket belongs to a thread between its  *)
(* bind and its close, the thread to a service that has not joined it.     *)
(***************************************************************************)
EXTENDS Recorder, SequenceTheorems, TLAPS

Commands == {"RECORD", "STOP", "DESTROY"}

MainTypes ==
  /\ permitted \in BOOLEAN /\ asking \in BOOLEAN /\ queue \in Seq(Commands)
  /\ effects \in BOOLEAN
  /\ service \in {"none", "created", "interrupt", "shutdown", "join", "joined"}

ThreadTypes ==
  /\ notice \in {"none", "starting", "listening", "established"}
  /\ thread \in Steps /\ interrupted \in BOOLEAN /\ recording \in BOOLEAN
  /\ serverSocket \in {"none", "open", "shut", "closed"}

ClientTypes ==
  /\ client \in {"none", "open", "stalled", "gone"} /\ waiting \in BOOLEAN
  /\ starts \in Nat /\ clients \in Nat /\ faults \in Nat

\* The types in the three groups the actions change.
LEMMA TypeParts == TypeOK <=> MainTypes /\ ThreadTypes /\ ClientTypes
BY DEF TypeOK, MainTypes, ThreadTypes, ClientTypes, Commands

\* An open socket has a thread that will close it.
SocketOwned ==
  serverSocket \in {"open", "shut"} => thread \notin {"none", "bind", "dead"}

\* onDestroy() goes on only when the thread has ended.
JoinedMeansEnded == service = "joined" => ~Alive

IInv == TypeOK /\ MicOnlyForClient /\ NothingLeft /\ SocketOwned /\ JoinedMeansEnded

-----------------------------------------------------------------------------
(* Types.                                                                  *)

\* Adding a command to the queue, or taking the first one, leaves a queue.
LEMMA QueueTyped ==
  ASSUME NEW q \in Seq(Commands), NEW c \in Commands
  PROVE  /\ Append(q, c) \in Seq(Commands)
         /\ q # <<>> => Tail(q) \in Seq(Commands) /\ Append(Tail(q), c) \in Seq(Commands)
<1>1. Append(q, c) \in Seq(Commands)
  BY AppendProperties
<1>2. ASSUME q # <<>> PROVE Tail(q) \in Seq(Commands) /\ Append(Tail(q), c) \in Seq(Commands)
  <2>1. Tail(q) \in Seq(Commands)
    BY <1>2, HeadTailProperties
  <2>. QED
    BY <2>1, AppendProperties
<1>. QED
  BY <1>1, <1>2

\* One step per action.
LEMMA NextType == TypeOK /\ [Next]_vars => TypeOK'
<1>. SUFFICES ASSUME TypeOK, [Next]_vars PROVE TypeOK'
  OBVIOUS
<1>. SUFFICES ASSUME MainTypes, ThreadTypes, ClientTypes
              PROVE  MainTypes' /\ ThreadTypes' /\ ClientTypes'
  BY TypeParts DEF TypeOK, MainTypes, ThreadTypes, ClientTypes, Commands
<1>. USE DEF mainVars, threadVars, clientVars, Outcome, Fault
<1>1. CASE Launch \/ PressStop \/ \E granted \in BOOLEAN : Answered(granted)
  <2>1. /\ queue' = queue \/ queue' = Append(queue, "RECORD") \/ queue' = Append(queue, "STOP")
        /\ starts' \in Nat
    BY <1>1 DEF Launch, PressStop, Answered, Started, ClientTypes
  <2>4. permitted' \in BOOLEAN
    BY <1>1 DEF Launch, PressStop, Answered, MainTypes
  <2>5. asking' \in BOOLEAN
    BY <1>1 DEF Launch, PressStop, Answered, MainTypes
  <2>2. queue' \in Seq(Commands)
    BY <2>1, QueueTyped DEF MainTypes, Commands
  <2>3. UNCHANGED <<service, effects, notice, threadVars, clientVars, faults>>
    BY <1>1 DEF Launch, PressStop, Answered
  <2>. QED
    BY <2>1, <2>2, <2>3, <2>4, <2>5 DEF MainTypes, ThreadTypes, ClientTypes
<1>2. CASE onCreate
  BY <1>2 DEF onCreate, MainTypes, ThreadTypes, ClientTypes
<1>3. ASSUME NEW ok \in BOOLEAN, onStartCommand(ok)
      PROVE  MainTypes' /\ ThreadTypes' /\ ClientTypes'
  <2>1. /\ queue # <<>>
        /\ queue' \in {Tail(queue), Append(Tail(queue), "DESTROY")}
        /\ effects' \in BOOLEAN
        /\ \/ thread' = "bind" /\ interrupted' = FALSE /\ serverSocket' = "none"
           \/ UNCHANGED <<thread, interrupted, serverSocket>>
        /\ faults' \in Nat
        /\ UNCHANGED <<permitted, asking, service, notice, recording, clientVars, starts>>
    BY <1>3 DEF onStartCommand, StartRecorder, StopSelf, MainTypes, ClientTypes
  <2>2. queue' \in Seq(Commands)
    BY <2>1, QueueTyped DEF MainTypes, Commands
  <2>3. interrupted' \in BOOLEAN
    BY <2>1 DEF ThreadTypes
  <2>4. thread' \in Steps /\ serverSocket' \in {"none", "open", "shut", "closed"}
    BY <2>1 DEF ThreadTypes, Steps
  <2>. QED
    BY <2>1, <2>2, <2>3, <2>4 DEF MainTypes, ThreadTypes, ClientTypes
<1>4. CASE onDestroy
  <2>1. queue' \in Seq(Commands)
    BY <1>4, QueueTyped DEF onDestroy, MainTypes, Commands
  <2>. QED
    BY <1>4, <2>1 DEF onDestroy, MainTypes, ThreadTypes, ClientTypes
<1>5. CASE Interrupt \/ Shutdown \/ Join \/ Destroyed
  BY <1>5 DEF Interrupt, Shutdown, Join, Destroyed, MainTypes, ThreadTypes, ClientTypes, Steps
<1>6. ASSUME NEW ok \in BOOLEAN, Bind(ok) \/ Read(ok)
      PROVE  MainTypes' /\ ThreadTypes' /\ ClientTypes'
  BY <1>6 DEF Bind, Read, GoTo, Rest, MainTypes, ThreadTypes, ClientTypes, Steps
<1>7. CASE Loop \/ Listen \/ AcceptFails
  BY <1>7 DEF Loop, Listen, AcceptFails, GoTo, Rest, MainTypes, ThreadTypes, ClientTypes, Steps
<1>13. CASE Accept
  <2>1. waiting' = FALSE /\ client' = "open" /\ thread' = "accepted"
    BY <1>13 DEF Accept, GoTo
  <2>2. UNCHANGED <<notice, interrupted, serverSocket, recording, clients, faults>> /\ Rest
    BY <1>13 DEF Accept
  <2>3. ClientTypes'
    <3>1. waiting' \in BOOLEAN
      BY <2>1
    <3>. QED
      BY <2>1, <2>2, <3>1 DEF Rest, ClientTypes
  <2>. QED
    BY <2>1, <2>2, <2>3 DEF Rest, MainTypes, ThreadTypes, Steps
<1>12. CASE Record
  <2>1. recording' = recording \/ recording' = TRUE
    BY <1>12 DEF Record
  <2>2. recording' \in BOOLEAN
    BY <2>1 DEF ThreadTypes
  <2>3. notice' \in {notice, "established"} /\ thread' \in {"finally", "inner"}
    BY <1>12 DEF Record, GoTo
  <2>4. UNCHANGED <<mainVars, interrupted, serverSocket, clientVars, starts, faults>>
    BY <1>12 DEF Record, Rest
  <2>. QED
    BY <2>2, <2>3, <2>4 DEF MainTypes, ThreadTypes, ClientTypes, Steps
<1>8. CASE Inner \/ Write \/ Finally \/ Close
  BY <1>8 DEF Inner, Write, Finally, Close, GoTo, Rest, MainTypes, ThreadTypes, ClientTypes,
              Steps
<1>9. CASE Connect \/ ClientStalls \/ ClientReads \/ ClientLeaves
  <2>1. /\ client' \in {"none", "open", "stalled", "gone"}
        /\ clients' \in Nat /\ faults' \in Nat
    BY <1>9 DEF Connect, ClientStalls, ClientReads, ClientLeaves, ClientTypes
  <2>2. waiting' \in BOOLEAN
    BY <1>9 DEF Connect, ClientStalls, ClientReads, ClientLeaves, ClientTypes
  <2>3. UNCHANGED <<mainVars, notice, threadVars, starts>>
    BY <1>9 DEF Connect, ClientStalls, ClientReads, ClientLeaves
  <2>. QED
    BY <2>1, <2>2, <2>3 DEF MainTypes, ThreadTypes, ClientTypes
<1>10. CASE Kill
  <2>1. MainTypes'
    BY <1>10, EmptySeq DEF Kill, MainTypes
  <2>2. ThreadTypes'
    BY <1>10 DEF Kill, ThreadTypes, Steps
  <2>3. ClientTypes'
    <3>1. waiting' \in BOOLEAN
      BY <1>10 DEF Kill
    <3>. QED
      BY <1>10, <3>1 DEF Kill, ClientTypes
  <2>. QED
    BY <2>1, <2>2, <2>3
<1>11. CASE UNCHANGED vars
  BY <1>11 DEF vars, MainTypes, ThreadTypes, ClientTypes
<1>. QED
  BY <1>1, <1>2, <1>3, <1>4, <1>5, <1>6, <1>7, <1>8, <1>9, <1>10, <1>11, <1>12,
     <1>13
  DEF Next, ServiceSteps, ThreadSteps

-----------------------------------------------------------------------------
(* Ownership.                                                              *)

\* Before the app has been launched there is nothing.
LEMMA InitInv == Init => IInv
<1>. SUFFICES ASSUME Init PROVE IInv
  OBVIOUS
<1>1. MainTypes
  BY EmptySeq DEF Init, MainTypes
<1>2. ThreadTypes
  BY DEF Init, ThreadTypes, Steps
<1>3. ClientTypes
  BY DEF Init, ClientTypes
<1>4. MicOnlyForClient /\ NothingLeft /\ SocketOwned /\ JoinedMeansEnded
  BY DEF Init, MicOnlyForClient, NothingLeft, SocketOwned, JoinedMeansEnded
<1>. QED
  BY <1>1, <1>2, <1>3, <1>4, TypeParts DEF IInv

Owned == MicOnlyForClient /\ NothingLeft /\ SocketOwned /\ JoinedMeansEnded

\* One step per action.
LEMMA NextOwned == IInv /\ [Next]_vars => Owned'
<1>. SUFFICES ASSUME IInv, [Next]_vars PROVE Owned'
  OBVIOUS
<1>. USE DEF IInv, Owned, MicOnlyForClient, NothingLeft, SocketOwned, JoinedMeansEnded, Alive,
             mainVars, threadVars, clientVars
<1>1. CASE Launch \/ PressStop \/ \E granted \in BOOLEAN : Answered(granted)
  BY <1>1 DEF Launch, PressStop, Answered
<1>2. CASE onCreate
  BY <1>2 DEF onCreate
<1>3. ASSUME NEW ok \in BOOLEAN, onStartCommand(ok) PROVE Owned'
  <2>1. /\ service = "created" /\ service' = "created"
        /\ UNCHANGED <<notice, recording>>
    BY <1>3 DEF onStartCommand
  <2>2. \/ ~Alive /\ thread' = "bind" /\ serverSocket' = "none"
        \/ UNCHANGED <<thread, serverSocket>>
    BY <1>3 DEF onStartCommand, StartRecorder, StopSelf, TypeOK
  <2>. QED
    BY <2>1, <2>2
<1>4. CASE onDestroy
  BY <1>4 DEF onDestroy
<1>5. CASE Interrupt \/ Shutdown \/ Join
  BY <1>5 DEF Interrupt, Shutdown, Join
<1>6. CASE Destroyed
  BY <1>6 DEF Destroyed
<1>7. ASSUME NEW ok \in BOOLEAN, Bind(ok) \/ Read(ok) PROVE Owned'
  BY <1>7 DEF Bind, Read, GoTo, Rest
<1>8. CASE Loop \/ Listen \/ Accept \/ AcceptFails
  BY <1>8 DEF Loop, Listen, Accept, AcceptFails, GoTo, Rest
<1>9. CASE Record \/ Inner \/ Write
  BY <1>9 DEF Record, Inner, Write, GoTo, Rest
<1>10. CASE Finally \/ Close
  BY <1>10 DEF Finally, Close, GoTo, Rest
<1>11. CASE Connect \/ ClientStalls \/ ClientReads \/ ClientLeaves
  BY <1>11 DEF Connect, ClientStalls, ClientReads, ClientLeaves
<1>12. CASE Kill
  BY <1>12 DEF Kill
<1>13. CASE UNCHANGED vars
  BY <1>13 DEF vars
<1>. QED
  BY <1>1, <1>2, <1>3, <1>4, <1>5, <1>6, <1>7, <1>8, <1>9, <1>10, <1>11, <1>12, <1>13
  DEF Next, ServiceSteps, ThreadSteps

\* The recorder's invariant, for any number of launches, clients and faults.
THEOREM InvCorrect == Spec => []IInv
<1>1. IInv /\ [Next]_vars => IInv'
  BY NextType, NextOwned DEF IInv, Owned
<1>. QED
  BY <1>1, InitInv, PTL DEF Spec

\* The variables keep their types, the queue of the main thread among them.
THEOREM TypeCorrect == Spec => []TypeOK
<1>1. IInv => TypeOK
  BY DEF IInv
<1>. QED
  BY <1>1, InvCorrect, PTL

\* No way out of a connection leaves the microphone on.
THEOREM MicCorrect == Spec => []MicOnlyForClient
<1>1. IInv => MicOnlyForClient
  BY DEF IInv
<1>. QED
  BY <1>1, InvCorrect, PTL

\* A service that has gone, in order or killed, leaves no thread, socket, effect or notice.
THEOREM NothingLeftCorrect == Spec => []NothingLeft
<1>1. IInv => NothingLeft
  BY DEF IInv
<1>. QED
  BY <1>1, InvCorrect, PTL

-----------------------------------------------------------------------------
(* The stop and the clients that wait.                                     *)

\* A thread past its bind has a socket until it closes it.
Bound == thread \notin {"none", "bind", "dead"} => serverSocket \in {"open", "shut"}

HeardInv == StopHeard /\ ClientHeld /\ Bound

\* One step per action.  A thread that begins a turn after the flag goes to its
\* end, so it can be in accept() only with the socket it had when Shutdown came.
LEMMA NextHeard == IInv /\ HeardInv /\ [Next]_vars => HeardInv'
<1>. SUFFICES ASSUME IInv, HeardInv, [Next]_vars PROVE HeardInv'
  OBVIOUS
<1>. SUFFICES ASSUME SocketOwned, interrupted \in BOOLEAN, waiting \in BOOLEAN
              PROVE  HeardInv'
  BY DEF IInv, TypeOK
<1>. USE DEF HeardInv, StopHeard, ClientHeld, Bound, SocketOwned, Alive, mainVars, threadVars,
             clientVars
<1>1. CASE Launch \/ PressStop \/ \E granted \in BOOLEAN : Answered(granted)
  BY <1>1 DEF Launch, PressStop, Answered
<1>2. CASE onCreate
  BY <1>2 DEF onCreate
<1>3. ASSUME NEW ok \in BOOLEAN, onStartCommand(ok) PROVE HeardInv'
  <2>1. service = "created" /\ service' = "created" /\ waiting' = waiting
    BY <1>3 DEF onStartCommand
  <2>2. \/ ~Alive /\ thread' = "bind" /\ serverSocket' = "none"
        \/ UNCHANGED <<thread, serverSocket>>
    BY <1>3 DEF onStartCommand, StartRecorder, StopSelf, IInv, TypeOK
  <2>. QED
    BY <2>1, <2>2
<1>4. CASE onDestroy
  BY <1>4 DEF onDestroy
<1>5. CASE Interrupt \/ Shutdown \/ Join
  BY <1>5 DEF Interrupt, Shutdown, Join
<1>6. CASE Destroyed
  BY <1>6 DEF Destroyed, IInv, JoinedMeansEnded
<1>7. ASSUME NEW ok \in BOOLEAN, Bind(ok) \/ Read(ok) PROVE HeardInv'
  BY <1>7 DEF Bind, Read, GoTo, Rest
<1>8. CASE Loop \/ Listen \/ Accept \/ AcceptFails
  BY <1>8 DEF Loop, Listen, Accept, AcceptFails, GoTo, Rest
<1>9. CASE Record \/ Inner \/ Write
  BY <1>9 DEF Record, Inner, Write, GoTo, Rest
<1>10. CASE Finally \/ Close
  BY <1>10 DEF Finally, Close, GoTo, Rest
<1>11. CASE Connect \/ ClientStalls \/ ClientReads \/ ClientLeaves
  BY <1>11 DEF Connect, ClientStalls, ClientReads, ClientLeaves
<1>12. CASE Kill
  BY <1>12 DEF Kill
<1>13. CASE UNCHANGED vars
  BY <1>13 DEF vars
<1>. QED
  BY <1>1, <1>2, <1>3, <1>4, <1>5, <1>6, <1>7, <1>8, <1>9, <1>10, <1>11, <1>12, <1>13
  DEF Next, ServiceSteps, ThreadSteps

\* The two hold together, with the socket of a thread past its bind.
LEMMA HeardCorrect == Spec => []HeardInv
<1>1. Init => HeardInv
  BY DEF Init, HeardInv, StopHeard, ClientHeld, Bound
<1>. QED
  BY <1>1, NextHeard, InvCorrect, PTL DEF Spec

\* onDestroy() never waits for a thread that the stop has missed.
THEOREM StopHeardCorrect == Spec => []StopHeard
<1>1. HeardInv => StopHeard
  BY DEF HeardInv
<1>. QED
  BY <1>1, HeardCorrect, PTL

\* A client that waits is never left with nobody to take or refuse it.
THEOREM ClientHeldCorrect == Spec => []ClientHeld
<1>1. HeardInv => ClientHeld
  BY DEF HeardInv
<1>. QED
  BY <1>1, HeardCorrect, PTL
=============================================================================
