------------------------------ MODULE Recorder ------------------------------
(***************************************************************************)
(* The Android app that serves the microphone: its activity asks for the   *)
(* permissions and starts the service (MainActivity.java), the service     *)
(* keeps one thread with one AudioRecord (RecordService.java), the thread  *)
(* listens on a local socket, and sends each client blocks of samples      *)
(* until one of them fails (RecordThread.java).                            *)
(*                                                                         *)
(* Three parties: the main thread of the app, which runs the activity and  *)
(* the service's callbacks one at a time, in the order Android queued      *)
(* them; the record thread; and the client, the bridge of the PC behind    *)
(* `adb forward`.  The PC may also kill the app at any time.               *)
(***************************************************************************)
EXTENDS Naturals, Sequences

CONSTANTS
  MaxStarts,   \* bound: launches of the activity, and Stop actions
  MaxClients,  \* bound: connections made
  MaxFaults    \* bound: failed calls, stalled clients and kills

ASSUME RecorderBoundAssumption ==
  MaxStarts \in Nat /\ MaxClients \in Nat /\ MaxFaults \in Nat

VARIABLES
  permitted,   \* missingPermissions() is empty
  asking,      \* the activity waits for the user's answer
  queue,       \* what Android has queued for the service's main thread
  service,     \* none, created, or where onDestroy() is
  effects,     \* audio effects are held
  notice,      \* the notification: none, starting, listening or established
  thread,      \* recorderThread: none, or where it is in run()
  interrupted, \* its flag
  serverSocket,\* its socket: none, open, shut down or closed
  recording,   \* the AudioRecord records
  client,      \* the connection being served: none, open, stalled or gone
  waiting,     \* a client is connected but not yet accepted
  starts, clients, faults

mainVars == <<permitted, asking, queue, service, effects>>
threadVars == <<thread, interrupted, serverSocket, recording>>
clientVars == <<client, waiting, clients>>
vars == <<mainVars, notice, threadVars, clientVars, starts, faults>>

Init ==
  /\ permitted \in BOOLEAN
  /\ asking = FALSE
  /\ queue = <<>>
  /\ service = "none" /\ effects = FALSE
  /\ notice = "none"
  /\ thread = "none" /\ interrupted = FALSE
  /\ serverSocket = "none" /\ recording = FALSE
  /\ client = "none" /\ waiting = FALSE /\ clients = 0
  /\ starts = 0 /\ faults = 0

Fault == faults < MaxFaults /\ faults' = faults + 1
Outcome(ok) == IF ok THEN UNCHANGED faults ELSE Fault

\* Thread.isAlive().
Alive == thread \notin {"none", "dead"}

-----------------------------------------------------------------------------
(* The activity and the notification's Stop action.                        *)

\* RecordService.start(): the service is created if it is not there.
Started == queue' = Append(queue, "RECORD")

Launch ==
  /\ ~asking /\ starts < MaxStarts
  /\ starts' = starts + 1
  /\ IF permitted THEN Started /\ UNCHANGED asking ELSE asking' = TRUE /\ UNCHANGED queue
  /\ UNCHANGED <<permitted, service, effects, notice, threadVars, clientVars, faults>>

\* onRequestPermissionsResult().
Answered(granted) ==
  /\ asking
  /\ permitted' = granted /\ asking' = FALSE
  /\ IF granted THEN Started ELSE UNCHANGED queue
  /\ UNCHANGED <<service, effects, notice, threadVars, clientVars, starts, faults>>

PressStop ==
  /\ notice \in {"listening", "established"} /\ starts < MaxStarts
  /\ starts' = starts + 1
  /\ queue' = Append(queue, "STOP")
  /\ UNCHANGED <<permitted, asking, service, effects, notice, threadVars, clientVars,
                 faults>>

-----------------------------------------------------------------------------
(* The service, on the main thread.                                        *)

onCreate ==
  /\ service = "none" /\ queue # <<>>
  /\ service' = "created"
  /\ notice' = "starting"
  /\ UNCHANGED <<permitted, asking, queue, effects, threadVars, clientVars, starts,
                 faults>>

\* ACTION_STOP, or createRecorder() has failed: Android destroys the service
\* after the commands already queued, which cannot keep it.
StopSelf ==
  /\ queue' = IF \E i \in 2..Len(queue) : queue[i] = "DESTROY" THEN Tail(queue)
              ELSE Append(Tail(queue), "DESTROY")
  /\ UNCHANGED <<thread, interrupted, serverSocket>>

\* createRecorder() and a new thread.
StartRecorder(initialized) ==
  /\ effects' = initialized
  /\ IF initialized
     THEN /\ thread' = "bind" /\ interrupted' = FALSE /\ serverSocket' = "none"
          /\ queue' = Tail(queue)
     ELSE StopSelf

onStartCommand(initialized) ==
  /\ service = "created" /\ queue # <<>> /\ Head(queue) # "DESTROY"
  /\ CASE Head(queue) = "STOP" -> StopSelf /\ UNCHANGED effects
       [] Head(queue) = "RECORD" /\ Alive ->
            queue' = Tail(queue) /\ UNCHANGED <<effects, thread, interrupted, serverSocket>>
       [] OTHER -> StartRecorder(initialized)
  /\ Outcome(initialized)
  /\ UNCHANGED <<permitted, asking, service, notice, recording, clientVars, starts>>

onDestroy ==
  /\ service = "created" /\ queue # <<>> /\ Head(queue) = "DESTROY"
  /\ queue' = Tail(queue)
  /\ service' = IF thread = "none" THEN "joined" ELSE "interrupt"
  /\ UNCHANGED <<permitted, asking, effects, notice, threadVars, clientVars, starts, faults>>

\* RecordThread.interrupt(): first the flag, ...
Interrupt ==
  /\ service = "interrupt"
  /\ interrupted' = TRUE
  /\ service' = "shutdown"
  /\ UNCHANGED <<permitted, asking, queue, effects, notice, thread, serverSocket,
                 recording, clientVars, starts, faults>>

\* ... then the socket, if there is one, which wakes accept().
Shutdown_IfWaiting ==
  /\ service = "shutdown"
  /\ serverSocket' = IF serverSocket = "open" /\ thread = "accept" THEN "shut" ELSE serverSocket
  /\ service' = "join"
  /\ UNCHANGED <<permitted, asking, queue, effects, notice, thread, interrupted,
                 recording, clientVars, starts, faults>>
Shutdown ==
  /\ service = "shutdown"
  /\ serverSocket' = IF serverSocket = "open" THEN "shut" ELSE serverSocket
  /\ service' = "join"
  /\ UNCHANGED <<permitted, asking, queue, effects, notice, thread, interrupted,
                 recording, clientVars, starts, faults>>

Join_NoWait ==
  /\ service = "join"
  /\ service' = "joined"
  /\ UNCHANGED <<permitted, asking, queue, effects, notice, threadVars, clientVars,
                 starts, faults>>
Join ==
  /\ service = "join" /\ ~Alive
  /\ service' = "joined"
  /\ UNCHANGED <<permitted, asking, queue, effects, notice, threadVars, clientVars,
                 starts, faults>>

\* releaseAudioEffects() and stopForeground().
Destroyed ==
  /\ service = "joined"
  /\ service' = "none"
  /\ effects' = FALSE /\ notice' = "none"
  /\ thread' = "none"
  /\ UNCHANGED <<permitted, asking, queue, interrupted, serverSocket, recording, clientVars,
                 starts, faults>>

ServiceSteps ==
  \/ onCreate \/ \E ok \in BOOLEAN : onStartCommand(ok)
  \/ onDestroy \/ Interrupt \/ Shutdown \/ Join \/ Destroyed

-----------------------------------------------------------------------------
(* RecordThread.run().                                                     *)

GoTo(step) == thread' = step
Rest == UNCHANGED <<mainVars, starts>>

\* The name is free: it is this thread's alone, and closed when it ends.
Bind(ok) ==
  /\ thread = "bind" /\ Outcome(ok)
  /\ IF ok THEN GoTo("loop") /\ serverSocket' = "open"
           ELSE GoTo("dead") /\ UNCHANGED serverSocket
  /\ UNCHANGED <<notice, interrupted, recording, clientVars>> /\ Rest

Loop ==
  /\ thread = "loop"
  /\ GoTo(IF interrupted THEN "close" ELSE "listen")
  /\ UNCHANGED <<notice, interrupted, serverSocket, recording, clientVars, faults>> /\ Rest

Listen ==
  /\ thread = "listen"
  /\ GoTo("accept") /\ notice' = "listening"
  /\ UNCHANGED <<interrupted, serverSocket, recording, clientVars, faults>> /\ Rest

Accept ==
  /\ thread = "accept" /\ waiting /\ serverSocket = "open"
  /\ client' = "open" /\ waiting' = FALSE
  /\ GoTo("accepted")
  /\ UNCHANGED <<notice, interrupted, serverSocket, recording, clients, faults>> /\ Rest

\* accept() throws: the socket is shut down, or a fault.
AcceptFails ==
  /\ thread = "accept"
  /\ IF serverSocket = "shut" THEN UNCHANGED faults ELSE Fault
  /\ GoTo("finally")
  /\ UNCHANGED <<notice, interrupted, serverSocket, recording, clientVars>> /\ Rest

\* The break leaves the outer loop too, through finally.
Record ==
  /\ thread = "accepted"
  /\ IF interrupted
     THEN GoTo("finally") /\ UNCHANGED <<notice, recording>>
     ELSE GoTo("inner") /\ notice' = "established" /\ recording' = TRUE
  /\ UNCHANGED <<interrupted, serverSocket, clientVars, faults>> /\ Rest

Inner ==
  /\ thread = "inner"
  /\ GoTo(IF interrupted THEN "finally" ELSE "read")
  /\ UNCHANGED <<notice, interrupted, serverSocket, recording, clientVars, faults>> /\ Rest

\* A block, or an error: before the first byte it ends the connection.
Read(ok) ==
  /\ thread = "read" /\ Outcome(ok)
  /\ \/ GoTo("write")
     \/ ~ok /\ GoTo("finally")
  /\ UNCHANGED <<notice, interrupted, serverSocket, recording, clientVars>> /\ Rest

\* write() waits for a client that does not read, and throws if it has gone.
Write ==
  /\ thread = "write" /\ client # "stalled"
  /\ GoTo(IF client = "open" THEN "inner" ELSE "finally")
  /\ UNCHANGED <<notice, interrupted, serverSocket, recording, clientVars, faults>> /\ Rest

\* The connection is closed, the recorder stopped.
Finally_KeepsRecording ==
  /\ thread = "finally"
  /\ client' = "none"
  /\ GoTo("loop")
  /\ UNCHANGED <<notice, interrupted, serverSocket, recording, waiting, clients, faults>> /\ Rest
Finally ==
  /\ thread = "finally"
  /\ client' = "none" /\ recording' = FALSE
  /\ GoTo("loop")
  /\ UNCHANGED <<notice, interrupted, serverSocket, waiting, clients, faults>> /\ Rest

\* The socket is closed, and with it the connections not yet accepted.
Close_LeavesSocket ==
  /\ thread = "close"
  /\ GoTo("dead")
  /\ UNCHANGED <<notice, interrupted, serverSocket, recording, clientVars, faults>> /\ Rest
Close ==
  /\ thread = "close"
  /\ serverSocket' = "closed" /\ waiting' = FALSE
  /\ GoTo("dead")
  /\ UNCHANGED <<notice, interrupted, recording, client, clients, faults>> /\ Rest

ThreadSteps ==
  \/ \E ok \in BOOLEAN : Bind(ok) \/ Read(ok)
  \/ Loop \/ Listen \/ Accept \/ AcceptFails \/ Record \/ Inner \/ Write \/ Finally \/ Close

\* What the thread does by itself, with no fault of its surroundings.
Healthy == ThreadSteps /\ UNCHANGED faults

-----------------------------------------------------------------------------
(* The client, and the end of the process (`am force-stop`, a crash).      *)

Connect ==
  /\ serverSocket = "open" /\ ~waiting /\ clients < MaxClients
  /\ waiting' = TRUE /\ clients' = clients + 1
  /\ UNCHANGED <<mainVars, notice, threadVars, client, starts, faults>>

ClientStalls ==
  /\ client = "open" /\ Fault
  /\ client' = "stalled"
  /\ UNCHANGED <<mainVars, notice, threadVars, waiting, clients, starts>>

\* A stalled client reads on, or gives up (the bridge after 9 s).
ClientReads ==
  /\ client = "stalled"
  /\ client' = "open"
  /\ UNCHANGED <<mainVars, notice, threadVars, waiting, clients, starts, faults>>

ClientLeaves ==
  /\ client \in {"open", "stalled"}
  /\ client' = "gone"
  /\ UNCHANGED <<mainVars, notice, threadVars, waiting, clients, starts, faults>>

Kill ==
  /\ Fault
  /\ asking' = FALSE /\ queue' = <<>>
  /\ service' = "none" /\ effects' = FALSE /\ notice' = "none"
  /\ thread' = "none" /\ interrupted' = FALSE
  /\ serverSocket' = "none" /\ recording' = FALSE
  /\ client' = "none" /\ waiting' = FALSE
  /\ UNCHANGED <<permitted, starts, clients>>

Next ==
  \/ Launch \/ PressStop \/ \E granted \in BOOLEAN : Answered(granted)
  \/ ServiceSteps \/ ThreadSteps
  \/ Connect \/ ClientStalls \/ ClientReads \/ ClientLeaves \/ Kill

Spec == Init /\ [][Next]_vars

\* The threads run; the recorder delivers; a stalled client does not stay.
FairSpec ==
  /\ Spec /\ WF_vars(ServiceSteps) /\ WF_vars(Healthy)
  /\ WF_vars(ClientReads \/ (client = "stalled" /\ ClientLeaves))

-----------------------------------------------------------------------------
(* Properties.                                                             *)

Steps == {"none", "bind", "loop", "listen", "accept", "accepted", "inner", "read", "write",
          "finally", "close", "dead"}

TypeOK ==
  /\ permitted \in BOOLEAN /\ asking \in BOOLEAN /\ queue \in Seq({"RECORD", "STOP", "DESTROY"})
  /\ effects \in BOOLEAN
  /\ service \in {"none", "created", "interrupt", "shutdown", "join", "joined"}
  /\ notice \in {"none", "starting", "listening", "established"}
  /\ thread \in Steps /\ interrupted \in BOOLEAN /\ recording \in BOOLEAN
  /\ serverSocket \in {"none", "open", "shut", "closed"}
  /\ client \in {"none", "open", "stalled", "gone"} /\ waiting \in BOOLEAN
  /\ starts \in Nat /\ clients \in Nat /\ faults \in Nat

\* The microphone records only while a client is served, and then the
\* notification says so: no way out of a connection (error of the recorder,
\* of the socket, Stop) leaves it on (RecordThread.run()).
MicOnlyForClient ==
  recording => /\ thread \in {"inner", "read", "write", "finally"}
               /\ notice = "established"

\* When the service is gone nothing of it is left: no thread, no open
\* socket that would hold the name, no effect, no notification
\* (RecordService.onDestroy()).
NothingLeft ==
  service = "none" =>
    /\ thread = "none" /\ serverSocket # "open" /\ serverSocket # "shut"
    /\ ~recording /\ ~effects /\ notice = "none"

\* The stop is not lost on a thread between bind and accept: once onDestroy()
\* waits for the thread, the flag is set and stays so, and a thread in
\* accept(), or on its way there, meets a socket that is shut down.
StopHeard ==
  /\ service \in {"shutdown", "join"} => interrupted
  /\ service = "join" /\ thread \in {"listen", "accept"} => serverSocket = "shut"

\* A client that waits has somebody to take it or to close on it: its socket
\* is there, with a thread that accepts on it or goes on to close it.
ClientHeld ==
  waiting => serverSocket \in {"open", "shut"} /\ thread \notin {"none", "bind", "dead"}

\* onDestroy() returns, so the main thread is not stuck in its join: the
\* flag and the socket wake the thread wherever it is, also between its
\* bind and its first accept().
DestroyReturns == service = "interrupt" ~> service = "none"

\* A client that has connected is accepted, or told that nobody listens,
\* unless another client is being served.
ClientServed == waiting ~> (~waiting \/ client = "open")
=============================================================================
