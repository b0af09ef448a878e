----------------------------- MODULE RenderRing -----------------------------
(***************************************************************************)
(* The sample ring buffer (ring_buffer.h) between the bridge thread        *)
(* (main.cpp) and the render thread (wasapi_output.cpp), access by access, *)
(* and the life of both: main() opens the audio device, starts and joins   *)
(* them, and closes it.  Where the bridge's blocks come from and which are *)
(* wanted is AudioBridge's.                                                *)
(*                                                                         *)
(* The buffer is written for one producer and one consumer.  The render    *)
(* thread consumes; but the bridge pops blocks too when the queue has      *)
(* grown, and resets the buffer while nobody is listening.  The history    *)
(* variable raced says whether such a step ever met a pop of the render    *)
(* thread, met whether the last reset did.                                 *)
(*                                                                         *)
(* All transfers are whole blocks and the size is a multiple of the block, *)
(* so a position is a number of blocks.  Blocks are numbered in the order  *)
(* the bridge receives them.                                               *)
(***************************************************************************)
EXTENDS Naturals, Sequences

CONSTANTS
  Slots,      \* m_capacity in blocks (128)
  HighMark,   \* the bridge drops blocks above this (3) ...
  LowMark,    \* ... down to this (2)
  ResetEvery, \* discarded blocks between two resets (50)
  MaxBlocks   \* bound: blocks the phone sends

ASSUME RingAssumption ==
  /\ Slots \in Nat /\ Slots > HighMark + 1
  /\ HighMark \in Nat /\ LowMark \in Nat /\ 0 < LowMark /\ LowMark < HighMark
  /\ ResetEvery \in Nat \ {0} /\ MaxBlocks \in Nat

Positions == 0..Slots - 1

\* What WASAPIOutput::init() opens, in this order, and the destructor releases.
Objects == <<"m_pEnumerator", "m_pDevice", "m_pAudioClient", "m_pWaveFormat", "m_hEvent",
             "m_pRenderClient">>
AllOpen == Len(Objects)

VARIABLES
  m_buffer,   \* the block in each slot, 0 for none yet
  m_readPos, m_writePos,
  bridge,     \* [at, read, toDrop]: the step of the bridge and what it read
  received,   \* the number of the last block received
  idleCount,
  render,     \* [at, read, data]: the same of the render thread
  device,     \* the audio device signals its event, or no longer does
  m_running,
  main,       \* where main() is
  held,       \* how many of Objects are open
  joinable,   \* m_renderThread is a thread nobody has joined
  last,       \* history: the last block played
  replayed,   \* history: a block was played again, or never was one
  raced, met

ringVars == <<m_buffer, m_readPos, m_writePos>>
bridgeVars == <<bridge, received, idleCount>>
renderVars == <<render, device>>
mainVars == <<m_running, main, held, joinable>>
history == <<last, replayed, raced, met>>
vars == <<ringVars, bridgeVars, renderVars, mainVars, history>>

Init ==
  /\ m_buffer = [p \in Positions |-> 0]
  /\ m_readPos = 0 /\ m_writePos = 0
  /\ bridge = [at |-> "none", read |-> 0, toDrop |-> 0]
  /\ received = 0
  /\ idleCount = 0
  /\ render = [at |-> "none", read |-> 0, data |-> 0]
  /\ device = "alive"
  /\ m_running = FALSE
  /\ main = "start" /\ held = 0 /\ joinable = FALSE
  /\ last = 0 /\ replayed = FALSE /\ raced = FALSE /\ met = FALSE

-----------------------------------------------------------------------------
(* ring_buffer.h                                                           *)

After(position) == (position + 1) % Slots

availableRead(readPos, writePos) ==
  IF writePos >= readPos THEN writePos - readPos ELSE Slots - readPos + writePos

\* One byte is kept free, so a ring of Slots blocks takes Slots - 1.
availableWrite(writePos, readPos) == Slots - availableRead(readPos, writePos) - 1

\* The render thread is in a pop.
Popping == render.at \in {"write", "copy", "store"}
\* The bridge is in a pop or a reset.
Consuming == bridge.at \in {"pop", "reset"}

-----------------------------------------------------------------------------
(* The bridge thread, from a block received to the next (main.cpp).        *)

\* A block handled, the loop goes on, unless the program is to end.
Running == main \in {"bridge", "render", "loop"}
Resume == IF Running THEN "wait" ELSE "ended"

\* One more block thrown away, counted without end modulo ResetEvery: every
\* multiple of it is ResetEvery here.
NextIdleCount == IF idleCount = 2 * ResetEvery - 1 THEN ResetEvery ELSE idleCount + 1

\* Nobody wants the block: every ResetEvery of them the ring is reset.
DiscardBlock ==
  /\ bridge.at = "wait" /\ received < MaxBlocks
  /\ received' = received + 1
  /\ idleCount' = NextIdleCount
  /\ IF NextIdleCount = ResetEvery
     THEN /\ m_readPos' = 0
          /\ bridge' = [bridge EXCEPT !.at = "reset"]
          /\ raced' = (raced \/ Popping)
          /\ met' = Popping
     ELSE /\ bridge' = [bridge EXCEPT !.at = Resume]
          /\ UNCHANGED <<m_readPos, raced, met>>
  /\ UNCHANGED <<m_buffer, m_writePos, renderVars, mainVars, last, replayed>>

\* The second store of reset().
ResetWrite_Forgotten ==
  /\ bridge.at = "reset"
  /\ raced' = (raced \/ Popping)
  /\ met' = (met \/ Popping)
  /\ bridge' = [bridge EXCEPT !.at = Resume]
  /\ UNCHANGED <<ringVars, received, idleCount, renderVars, mainVars, last, replayed>>
ResetWrite ==
  /\ bridge.at = "reset"
  /\ m_writePos' = 0
  /\ raced' = (raced \/ Popping)
  /\ met' = (met \/ Popping)
  /\ bridge' = [bridge EXCEPT !.at = Resume]
  /\ UNCHANGED <<m_buffer, m_readPos, received, idleCount, renderVars, mainVars, last, replayed>>

\* A connection is lost and another made: its count begins again.
NewConnection ==
  /\ bridge.at = "wait" /\ idleCount # 0
  /\ idleCount' = 0
  /\ UNCHANGED <<ringVars, bridge, received, renderVars, mainVars, history>>

Queued == availableRead(m_readPos, m_writePos)
ToDrop_OffByOne == IF Queued > HighMark + 1 THEN Queued - LowMark ELSE 0
ToDrop == IF Queued > HighMark THEN Queued - LowMark ELSE 0

\* A wanted block: the size of the queue decides how many are dropped.
AcceptBlock ==
  /\ bridge.at = "wait" /\ received < MaxBlocks
  /\ received' = received + 1
  /\ idleCount' = 0
  /\ bridge' = [bridge EXCEPT !.at = IF ToDrop > 0 THEN "drop" ELSE "push", !.toDrop = ToDrop]
  /\ UNCHANGED <<ringVars, renderVars, mainVars, history>>

\* pop() by the bridge: the positions are read, then the read position stored.
DropBegin ==
  /\ bridge.at = "drop"
  /\ bridge' = [bridge EXCEPT !.at = IF Queued > 0 THEN "pop" ELSE "dropped",
                              !.read = m_readPos]
  /\ raced' = (raced \/ (Queued > 0 /\ Popping))
  /\ UNCHANGED <<ringVars, received, idleCount, renderVars, mainVars, last, replayed, met>>

DropStore ==
  /\ bridge.at = "pop"
  /\ m_readPos' = After(bridge.read)
  /\ raced' = (raced \/ Popping)
  /\ bridge' = [bridge EXCEPT !.at = "dropped"]
  /\ UNCHANGED <<m_buffer, m_writePos, received, idleCount, renderVars, mainVars, last,
                 replayed, met>>

DropNext ==
  /\ bridge.at = "dropped"
  /\ bridge' = [bridge EXCEPT !.toDrop = @ - 1, !.at = IF bridge.toDrop > 1 THEN "drop" ELSE "push"]
  /\ UNCHANGED <<ringVars, received, idleCount, renderVars, mainVars, history>>

\* push(): a full ring refuses the block.
PushBegin ==
  /\ bridge.at = "push"
  /\ bridge' = [bridge EXCEPT
       !.at = IF availableWrite(m_writePos, m_readPos) >= 1 THEN "copy" ELSE Resume]
  /\ UNCHANGED <<ringVars, received, idleCount, renderVars, mainVars, history>>

PushCopy ==
  /\ bridge.at = "copy"
  /\ m_buffer' = [m_buffer EXCEPT ![m_writePos] = received]
  /\ bridge' = [bridge EXCEPT !.at = "publish"]
  /\ UNCHANGED <<m_readPos, m_writePos, received, idleCount, renderVars, mainVars, history>>

PushStore ==
  /\ bridge.at = "publish"
  /\ m_writePos' = After(m_writePos)
  /\ bridge' = [bridge EXCEPT !.at = Resume]
  /\ UNCHANGED <<m_buffer, m_readPos, received, idleCount, renderVars, mainVars, history>>

\* The loop ends: its receive times out, or the connection breaks.
BridgeEnds ==
  /\ bridge.at = "wait" /\ ~Running
  /\ bridge' = [bridge EXCEPT !.at = "ended"]
  /\ UNCHANGED <<ringVars, received, idleCount, renderVars, mainVars, history>>

Bridge ==
  \/ DiscardBlock \/ ResetWrite \/ NewConnection \/ AcceptBlock \/ DropBegin \/ DropStore \/ DropNext
  \/ PushBegin \/ PushCopy \/ PushStore \/ BridgeEnds

-----------------------------------------------------------------------------
(* renderThread() (wasapi_output.cpp).                                     *)

\* The silence of the first buffer, and IAudioClient::Start().
RenderStarts(ok) ==
  /\ render.at = "start"
  /\ render' = [render EXCEPT !.at = IF ok THEN "wait" ELSE "ended"]
  /\ UNCHANGED <<ringVars, bridgeVars, device, mainVars, history>>

\* The device has room for a block: pop() begins with the read position.
RenderWakes ==
  /\ render.at = "wait" /\ m_running /\ device = "alive"
  /\ render' = [render EXCEPT !.at = "write", !.read = m_readPos]
  /\ raced' = (raced \/ Consuming)
  /\ met' = (met \/ bridge.at = "reset")
  /\ UNCHANGED <<ringVars, bridgeVars, device, mainVars, last, replayed>>

\* The write position; without a block, silence is played.
PopBegin ==
  /\ render.at = "write"
  /\ render' = [render EXCEPT
       !.at = IF availableRead(render.read, m_writePos) >= 1 THEN "copy" ELSE "wait"]
  /\ UNCHANGED <<ringVars, bridgeVars, device, mainVars, history>>

PopCopy ==
  /\ render.at = "copy"
  /\ render' = [render EXCEPT !.at = "store", !.data = m_buffer[render.read]]
  /\ UNCHANGED <<ringVars, bridgeVars, device, mainVars, history>>

\* The read position is stored and the block goes to the device.
PopStore_Twice ==
  /\ render.at = "store"
  /\ render' = [render EXCEPT !.at = "wait"]
  /\ replayed' = (replayed \/ render.data <= last)
  /\ last' = render.data
  /\ UNCHANGED <<ringVars, bridgeVars, device, mainVars, raced, met>>
PopStore ==
  /\ render.at = "store"
  /\ m_readPos' = After(render.read)
  /\ render' = [render EXCEPT !.at = "wait"]
  /\ replayed' = (replayed \/ render.data <= last)
  /\ last' = render.data
  /\ UNCHANGED <<m_buffer, m_writePos, bridgeVars, device, mainVars, raced, met>>

\* A failed HRESULT, or stop(): the wait for the event lasts at most 2 s.
RenderEnds_OnEvent ==
  /\ render.at = "wait" /\ (device = "failed" \/ (~m_running /\ device = "alive"))
  /\ render' = [render EXCEPT !.at = "ended"]
  /\ UNCHANGED <<ringVars, bridgeVars, device, mainVars, history>>
RenderEnds ==
  /\ render.at = "wait" /\ (device = "failed" \/ ~m_running)
  /\ render' = [render EXCEPT !.at = "ended"]
  /\ UNCHANGED <<ringVars, bridgeVars, device, mainVars, history>>

Render ==
  \/ \E ok \in BOOLEAN : RenderStarts(ok)
  \/ RenderWakes \/ PopBegin \/ PopCopy \/ PopStore \/ RenderEnds

\* The device goes silent (its event stops) or fails.
DeviceChanges ==
  /\ device = "alive"
  /\ device' \in {"silent", "failed"}
  /\ UNCHANGED <<ringVars, bridgeVars, render, mainVars, history>>

-----------------------------------------------------------------------------
(* main(), and the WASAPIOutput it owns.                                   *)

Calls(from, to) == main = from /\ main' = to

\* A second instance, and --help, end here.
EnterMain ==
  /\ main = "start"
  /\ main' \in {"init", "exited"}
  /\ UNCHANGED <<ringVars, bridgeVars, renderVars, m_running, held, joinable, history>>

\* init(): one object after the other.  A call fails, or --list-devices has seen
\* enough with the first, and main() returns.
OpenObject ==
  /\ main = "init" /\ held < AllOpen
  /\ \/ held' = held + 1 /\ UNCHANGED main
     \/ main' = "return" /\ UNCHANGED held
  /\ UNCHANGED <<ringVars, bridgeVars, renderVars, m_running, joinable, history>>

\* The DSP pipeline, the last of init(); then the settings window.
Prepare(ok) ==
  /\ \/ held = AllOpen /\ Calls("init", IF ok THEN "window" ELSE "return")
     \/ Calls("window", IF ok THEN "bridge" ELSE "return")
  /\ UNCHANGED <<ringVars, bridgeVars, renderVars, m_running, held, joinable, history>>

StartBridge ==
  /\ Calls("bridge", "render")
  /\ bridge' = [bridge EXCEPT !.at = "wait"]
  /\ UNCHANGED <<ringVars, received, idleCount, renderVars, m_running, held, joinable, history>>

\* start().
StartRender ==
  /\ Calls("render", "loop")
  /\ m_running' = TRUE /\ joinable' = TRUE
  /\ render' = [render EXCEPT !.at = "start"]
  /\ UNCHANGED <<ringVars, bridgeVars, device, held, history>>

\* Exit: the message loop ends and running is cleared.
Quit ==
  /\ Calls("loop", "joinBridge")
  /\ UNCHANGED <<ringVars, bridgeVars, renderVars, m_running, held, joinable, history>>

\* The monitor thread, joined after the bridge, has no part in the ring.
JoinBridge ==
  /\ Calls("joinBridge", "stop") /\ bridge.at = "ended"
  /\ UNCHANGED <<ringVars, bridgeVars, renderVars, m_running, held, joinable, history>>

\* stop(): nothing to do if it has been called, or start() never was.
Stop ==
  /\ Calls("stop", IF m_running THEN "join" ELSE "return")
  /\ m_running' = FALSE
  /\ UNCHANGED <<ringVars, bridgeVars, renderVars, held, joinable, history>>

JoinRender ==
  /\ Calls("join", "return") /\ render.at = "ended"
  /\ joinable' = FALSE
  /\ UNCHANGED <<ringVars, bridgeVars, renderVars, m_running, held, history>>

\* The destructor: stop(), then everything is released.
Destroy ==
  /\ IF m_running THEN Calls("return", "stop") /\ UNCHANGED held
     ELSE Calls("return", "exited") /\ held' = 0
  /\ UNCHANGED <<ringVars, bridgeVars, renderVars, m_running, joinable, history>>

Shutdown == JoinBridge \/ Stop \/ JoinRender \/ Destroy

Main ==
  \/ EnterMain \/ OpenObject \/ (\E ok \in BOOLEAN : Prepare(ok))
  \/ StartBridge \/ StartRender \/ Quit \/ Shutdown

Next == Bridge \/ Render \/ DeviceChanges \/ Main

Spec == Init /\ [][Next]_vars
\* The threads run, and main() does not stop on its way out.
FairSpec == Spec /\ WF_vars(Bridge) /\ WF_vars(Render) /\ WF_vars(Shutdown)

-----------------------------------------------------------------------------
(* Properties.                                                             *)

\* The positions and the locals stay in range, whatever races.
TypeOK ==
  /\ m_buffer \in [Positions -> 0..MaxBlocks]
  /\ m_readPos \in Positions /\ m_writePos \in Positions
  /\ bridge \in [at : {"none", "wait", "reset", "drop", "pop", "dropped", "push", "copy",
                       "publish", "ended"},
                 read : Positions, toDrop : 0..Slots - 1]
  /\ received \in 0..MaxBlocks /\ idleCount \in 0..2 * ResetEvery - 1
  /\ render \in [at : {"none", "start", "wait", "write", "copy", "store", "ended"},
                 read : Positions, data : 0..MaxBlocks]
  /\ device \in {"alive", "silent", "failed"} /\ m_running \in BOOLEAN
  /\ main \in {"start", "init", "window", "bridge", "render", "loop", "joinBridge", "stop",
               "join", "return", "exited"}
  /\ held \in 0..AllOpen /\ joinable \in BOOLEAN
  /\ last \in 0..MaxBlocks /\ replayed \in BOOLEAN /\ raced \in BOOLEAN
  /\ met \in BOOLEAN

\* As long as no step of the bridge on the read position meets a pop of the
\* render thread, each block is heard at most once and in order, and the
\* bridge never writes into the block being read.
OneConsumer ==
  ~raced =>
    /\ ~replayed
    /\ ~(bridge.at = "copy" /\ render.at = "copy" /\ render.read = m_writePos)

\* The queued blocks, oldest first.  A reset() begun has thrown them away.
Contents ==
  IF bridge.at = "reset" THEN <<>>
  ELSE [i \in 1..Queued |-> m_buffer[(m_readPos + i - 1) % Slots]]

\* What the two threads take the ring for: the accepted block is queued behind
\* the others, the oldest is played or dropped, all are thrown away at once, or
\* no access of either thread shows.
Untouched == Contents' = Contents /\ last' = last
Queues == Contents' = Append(Contents, received) /\ last' = last
Plays == Contents # <<>> /\ Contents' = Tail(Contents) /\ last' = Head(Contents)
Drops == Contents # <<>> /\ Contents' = Tail(Contents) /\ last' = last
Empties == Contents' = <<>> /\ last' = last /\ bridge'.at = "reset"

\* As long as nothing has raced, the positions and the copies of the two threads
\* are a first-in first-out queue, around the end of the buffer too: the render
\* thread plays the oldest block, and only the bridge adds or throws away any.
RingIsFifo ==
  [][\/ raced' \/ Untouched
     \/ UNCHANGED bridge /\ Plays
     \/ UNCHANGED render /\ (Queues \/ Drops \/ Empties)]_vars

\* While nobody listens the ring is emptied, even if the render thread has stalled
\* or ended: what is spoken later does not come after old audio.  Until a pop meets
\* the reset, that is: its late store brings the old blocks back.  Whatever has
\* raced before, the next reset that meets none empties the ring for good.
OldAudioDropped ==
  ~met /\ idleCount >= ResetEvery /\ bridge.at # "reset" => Queued = 0

\* Whatever has raced, and even if the positions claim a full ring of old
\* audio, the queue runs dry while the device plays and nothing comes in.
Drains == []<>(Queued = 0 \/ device # "alive" \/ render.at = "ended" \/ ~m_running)

\* Whatever the device does and however init() ended, no thread outlives what
\* it uses: the render thread runs with every object open, and the program ends
\* with both threads gone and joined (a thread object nobody joined aborts it).
DeviceOutlivesThreads ==
  /\ render.at \notin {"none", "ended"} => held = AllOpen
  /\ main = "exited" => ~joinable /\ bridge.at \in {"none", "ended"}

\* As long as nothing has raced the trim keeps the queue short, however the render
\* thread takes from it between the look at its size and the last drop (half done,
\* a reset() says nothing of it), and so a wanted block always finds room.
RingShort ==
  ~raced =>
    /\ bridge.at # "reset" => Queued <= HighMark + 1
    /\ bridge.at = "push" => availableWrite(m_writePos, m_readPos) >= 1

\* The program ends once it was told to, though the device may be silent
\* and the phone too.
ProgramEnds ==
  main \in {"joinBridge", "stop", "join", "return"} ~> main = "exited"

\* Claimed by the name of the class and by ARCHITECTURE.md, which call the
\* ring SPSC and list the render thread as its consumer: no block is played
\* twice.
PlayedOnce == ~replayed
=============================================================================
