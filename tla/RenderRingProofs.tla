-------------------------- MODULE RenderRingProofs --------------------------
(***************************************************************************)
(* Proofs about RenderRing, for every size of the ring and every mark:     *)
(* the positions stay in range whatever races; as long as nothing races    *)
(* the blocks are heard at most once and in order, and the queue is short; *)
(* a reset no pop meets leaves nothing queued, whatever has raced before;  *)
(* and no thread outlives the objects it works with.                       *)
(*                                                                         *)
(* The invariant says what the ring holds while nothing has raced: the     *)
(* blocks in the occupied slots are in the order they were received,       *)
(* behind the last one heard and before the one being pushed; and each     *)
(* thread may count on the position it has read.  Life says how far main() *)
(* is when a thread runs, Short how many blocks a trim still has to drop,  *)
(* Emptied that nobody is about to move a position of the emptied ring.    *)
(***************************************************************************)
EXTENDS RenderRing, SequenceTheorems, TLAPS

\* The slot p holds a block that is queued.
Occupied(p) == availableRead(m_readPos, p) < availableRead(m_readPos, m_writePos)

\* A drop in progress has something to drop.
Dropping == bridge.at \in {"drop", "pop", "dropped"} => bridge.toDrop > 0

\* What is queued is new, and in order.  A half done reset() queues nothing real.
InOrder ==
  bridge.at # "reset" =>
    /\ \A p \in Positions : Occupied(p) => last < m_buffer[p] /\ m_buffer[p] <= received
    /\ \A p, q \in Positions :
         Occupied(p) /\ Occupied(q) /\ availableRead(m_readPos, p) < availableRead(m_readPos, q)
           => m_buffer[p] < m_buffer[q]

\* The block in the bridge's hands is newer than all of it.
Newest ==
  /\ last <= received
  /\ bridge.at \in {"drop", "pop", "dropped", "push", "copy", "publish"} =>
       /\ last < received
       /\ \A p \in Positions : Occupied(p) => m_buffer[p] < received
  /\ bridge.at = "publish" => m_buffer[m_writePos] = received

\* What the render thread has read is still so.
RenderHolds ==
  /\ Popping => render.read = m_readPos /\ ~Consuming
  /\ render.at \in {"copy", "store"} => m_readPos # m_writePos
  /\ render.at = "store" => render.data = m_buffer[m_readPos]

\* So is what the bridge has read.
BridgeHolds ==
  /\ bridge.at = "pop" => bridge.read = m_readPos /\ m_readPos # m_writePos
  /\ bridge.at = "reset" => m_readPos = 0
  /\ bridge.at \in {"copy", "publish"} => After(m_writePos) # m_readPos

\* The trim in progress brings the queue down to LowMark.
Short ==
  /\ bridge.at # "reset" => Queued <= HighMark + 1
  /\ bridge.at \in {"drop", "pop"} => Queued <= LowMark + bridge.toDrop
  /\ bridge.at = "dropped" => Queued + 1 <= LowMark + bridge.toDrop
  /\ bridge.at \in {"push", "copy", "publish"} => Queued <= HighMark

\* After a reset no pop has met the positions agree, and the render thread has not
\* found a block since; the bridge adds one with the count at zero only.
Emptied ==
  /\ bridge.at \in {"drop", "pop", "dropped", "push", "copy", "publish"} => idleCount = 0
  /\ ~met /\ bridge.at = "reset" => m_readPos = 0 /\ ~Popping
  /\ ~met /\ idleCount >= ResetEvery /\ bridge.at # "reset" =>
       /\ m_readPos = m_writePos /\ render.at \notin {"copy", "store"}
       /\ render.at = "write" => render.read = m_readPos

NotRaced == InOrder /\ Newest /\ RenderHolds /\ BridgeHolds /\ ~replayed

\* How far main() is, and what that says of the threads and the objects.
Life ==
  /\ main \in {"window", "bridge", "render", "loop", "joinBridge", "stop", "join"}
       => held = AllOpen
  /\ main \in {"start", "init", "window", "bridge", "render"}
       => render.at = "none" /\ ~m_running /\ ~joinable
  /\ main \in {"start", "init", "window", "bridge"} => bridge.at = "none"
  /\ main \in {"stop", "join"} => bridge.at = "ended"
  /\ main \in {"loop", "joinBridge", "stop"} => m_running
  /\ main = "join" => ~m_running
  /\ main \in {"return", "exited"} =>
       /\ ~m_running /\ ~joinable
       /\ render.at \in {"none", "ended"} /\ bridge.at \in {"none", "ended"}

IInv == TypeOK /\ Dropping /\ Life /\ Emptied /\ (~raced => NotRaced /\ Short)

-----------------------------------------------------------------------------
(* Arithmetic of the ring.                                                 *)

\* One slot on, or back to the first.
LEMMA AfterValue ==
  ASSUME NEW i \in Positions
  PROVE  /\ After(i) = IF i = Slots - 1 THEN 0 ELSE i + 1
         /\ After(i) \in Positions
<1>. USE RingAssumption DEF RingAssumption, Positions
<1>1. CASE i = Slots - 1
  <2>1. i + 1 = Slots
    BY <1>1
  <2>2. Slots % Slots = 0
    OBVIOUS
  <2>. QED
    BY <1>1, <2>1, <2>2 DEF After
<1>2. CASE i # Slots - 1
  <2>1. i + 1 \in 0..Slots - 1
    BY <1>2
  <2>2. (i + 1) % Slots = i + 1
    BY <2>1
  <2>. QED
    BY <1>2, <2>1, <2>2 DEF After
<1>. QED
  BY <1>1, <1>2

\* The number of queued blocks fits the ring, and is 0 when the positions meet.
LEMMA ReadRange ==
  ASSUME NEW a \in Positions, NEW b \in Positions
  PROVE  /\ availableRead(a, b) \in 0..Slots - 1
         /\ availableRead(a, b) = 0 <=> a = b
BY RingAssumption DEF RingAssumption, Positions, availableRead

\* What a pop makes of the distances from the read position.
LEMMA ReadOn ==
  ASSUME NEW a \in Positions, NEW b \in Positions, a # b
  PROVE  availableRead(After(a), b) = availableRead(a, b) - 1
BY AfterValue, RingAssumption DEF RingAssumption, Positions, availableRead

\* What a push makes of them.
LEMMA WriteOn ==
  ASSUME NEW a \in Positions, NEW b \in Positions, After(b) # a
  PROVE  availableRead(a, After(b)) = availableRead(a, b) + 1
BY AfterValue, RingAssumption DEF RingAssumption, Positions, availableRead

\* Different slots are at different distances.
LEMMA ReadInjective ==
  ASSUME NEW a \in Positions, NEW b \in Positions, NEW c \in Positions,
         availableRead(a, b) = availableRead(a, c)
  PROVE  b = c
BY RingAssumption DEF RingAssumption, Positions, availableRead

\* A ring with room has a free slot behind the one written next.
LEMMA RoomBehind ==
  ASSUME NEW a \in Positions, NEW b \in Positions, availableWrite(b, a) >= 1
  PROVE  After(b) # a
BY AfterValue, RingAssumption
DEF RingAssumption, Positions, availableRead, availableWrite

-----------------------------------------------------------------------------
(* Types.                                                                  *)

\* The number of objects, all that the types need of them.
LEMMA OpenRange == AllOpen = 6 /\ 0 \in 0..AllOpen
BY DEF AllOpen, Objects

\* The ring starts empty.
LEMMA InitInv == Init => IInv
<1>. SUFFICES ASSUME Init PROVE IInv
  OBVIOUS
<1>. USE RingAssumption DEF RingAssumption, Init, Positions
<1>1. TypeOK /\ Dropping
  <2>1. m_buffer \in [0..Slots - 1 -> 0..MaxBlocks] /\ 0 \in 0..Slots - 1
    OBVIOUS
  <2>2. bridge \in [at : {"none"}, read : 0..Slots - 1, toDrop : 0..Slots - 1]
    BY <2>1
  <2>3. render \in [at : {"none"}, read : 0..Slots - 1, data : 0..MaxBlocks]
    BY <2>1
  <2>4. /\ received \in 0..MaxBlocks /\ idleCount \in 0..2 * ResetEvery - 1
        /\ last \in 0..MaxBlocks
    OBVIOUS
  <2>5. /\ replayed \in BOOLEAN /\ raced \in BOOLEAN /\ met \in BOOLEAN /\ m_running \in BOOLEAN
        /\ held \in 0..AllOpen /\ joinable \in BOOLEAN
    BY OpenRange
  <2>. QED
    BY <2>1, <2>2, <2>3, <2>4, <2>5 DEF TypeOK, Dropping
<1>2. NotRaced
  BY DEF NotRaced, InOrder, Newest, RenderHolds, BridgeHolds, Occupied, availableRead,
         Popping, Consuming
<1>3. Life /\ Short /\ Emptied
  BY DEF Life, Short, Emptied, Queued, availableRead
<1>. QED
  BY <1>1, <1>2, <1>3 DEF IInv

\* No race takes a position or a local out of its range.
LEMMA NextType == TypeOK /\ Dropping /\ [Next]_vars => TypeOK' /\ Dropping'
<1>. SUFFICES ASSUME TypeOK, Dropping, [Next]_vars PROVE TypeOK' /\ Dropping'
  OBVIOUS
<1>. USE DEF ringVars, bridgeVars, renderVars, mainVars, history, Dropping, Resume
<1>0. 0 \in Positions
  BY RingAssumption DEF RingAssumption, Positions
<1>1. CASE DiscardBlock
  <2>1. idleCount' \in 0..2 * ResetEvery - 1
    BY <1>1, RingAssumption DEF DiscardBlock, NextIdleCount, TypeOK, RingAssumption
  <2>2. received' \in 0..MaxBlocks
    BY <1>1, RingAssumption DEF DiscardBlock, TypeOK, RingAssumption
  <2>3. m_readPos' \in Positions
    BY <1>0, <1>1 DEF DiscardBlock, TypeOK
  <2>4. raced' \in BOOLEAN
    BY <1>1 DEF DiscardBlock, TypeOK
  <2>6. met' = TRUE \/ met' = FALSE
    BY <1>1 DEF DiscardBlock, Popping, TypeOK
  <2>5. PICK next \in {"wait", "ended", "reset"} : bridge' = [bridge EXCEPT !.at = next]
    BY <1>1 DEF DiscardBlock
  <2>7. bridge' \in [at : {"wait", "ended", "reset"}, read : Positions, toDrop : 0..Slots - 1]
    BY <2>5 DEF TypeOK
  <2>8. UNCHANGED <<m_buffer, m_writePos, renderVars, mainVars, last, replayed>>
    BY <1>1 DEF DiscardBlock
  <2>9. met' \in BOOLEAN
    BY <2>6
  <2>10. bridge' \in [at : {"none", "wait", "reset", "drop", "pop", "dropped", "push", "copy",
                           "publish", "ended"},
                     read : Positions, toDrop : 0..Slots - 1]
         /\ Dropping'
    BY <2>7
  <2>. QED
    BY <2>1, <2>2, <2>3, <2>4, <2>8, <2>9, <2>10 DEF TypeOK
<1>2. CASE ResetWrite
  BY <1>0, <1>2 DEF ResetWrite, TypeOK
<1>3. CASE AcceptBlock
  <2>1. ToDrop \in 0..Slots - 1
    <3>1. Queued \in 0..Slots - 1
      BY ReadRange DEF Queued, TypeOK
    <3>. QED
      BY <3>1, RingAssumption DEF RingAssumption, ToDrop
  <2>2. bridge' \in [at : {"drop", "push"}, read : Positions, toDrop : 0..Slots - 1]
    BY <1>3, <2>1 DEF AcceptBlock, TypeOK
  <2>. QED
    BY <1>3, <2>1, <2>2, RingAssumption DEF AcceptBlock, TypeOK, RingAssumption
<1>4. CASE DropBegin
  <2>1. /\ bridge' \in [at : {"pop", "dropped"}, read : Positions, toDrop : 0..Slots - 1]
        /\ bridge'.toDrop = bridge.toDrop
    BY <1>4 DEF DropBegin, TypeOK
  <2>2. raced' \in BOOLEAN
    BY <1>4 DEF DropBegin, TypeOK
  <2>3. UNCHANGED <<ringVars, received, idleCount, renderVars, mainVars, last, replayed, met>>
    BY <1>4 DEF DropBegin
  <2>4. TypeOK'
    BY <2>1, <2>2, <2>3 DEF TypeOK
  <2>. QED
    BY <1>4, <2>1, <2>4 DEF DropBegin, TypeOK
<1>5. CASE DropStore
  <2>1. m_readPos' \in Positions
    BY <1>5, AfterValue DEF DropStore, TypeOK
  <2>. QED
    BY <1>5, <2>1 DEF DropStore, TypeOK
<1>6. CASE DropNext
  <2>1. bridge.toDrop - 1 \in 0..Slots - 1
    BY <1>6, RingAssumption DEF DropNext, TypeOK, RingAssumption
  <2>2. PICK next \in {"drop", "push"} :
          /\ bridge' = [bridge EXCEPT !.toDrop = bridge.toDrop - 1, !.at = next]
          /\ next = "drop" => bridge.toDrop > 1
    BY <1>6 DEF DropNext
  <2>3. bridge' \in [at : {"drop", "push"}, read : Positions, toDrop : 0..Slots - 1]
    BY <2>1, <2>2 DEF TypeOK
  <2>4. bridge'.at = "drop" => bridge'.toDrop > 0
    BY <2>1, <2>2 DEF TypeOK
  <2>. QED
    BY <1>6, <2>3, <2>4 DEF DropNext, TypeOK
<1>7. CASE PushBegin
  BY <1>7 DEF PushBegin, TypeOK
<1>8. CASE PushCopy
  BY <1>8 DEF PushCopy, TypeOK
<1>9. CASE PushStore
  <2>1. m_writePos' \in Positions
    BY <1>9, AfterValue DEF PushStore, TypeOK
  <2>. QED
    BY <1>9, <2>1 DEF PushStore, TypeOK
<1>10. ASSUME NEW ok \in BOOLEAN, RenderStarts(ok) PROVE TypeOK' /\ Dropping'
  BY <1>10 DEF RenderStarts, TypeOK
<1>11. CASE RenderWakes
  BY <1>11 DEF RenderWakes, TypeOK
<1>12. CASE PopBegin
  BY <1>12 DEF PopBegin, TypeOK
<1>13. CASE PopCopy
  <2>1. m_buffer[render.read] \in 0..MaxBlocks
    BY DEF TypeOK
  <2>2. render' \in [at : {"store"}, read : Positions, data : 0..MaxBlocks]
    BY <1>13, <2>1 DEF PopCopy, TypeOK
  <2>3. UNCHANGED <<ringVars, bridgeVars, device, mainVars, history>>
    BY <1>13 DEF PopCopy
  <2>. QED
    BY <2>2, <2>3 DEF TypeOK
<1>14. CASE PopStore
  <2>1. m_readPos' \in Positions
    BY <1>14, AfterValue DEF PopStore, TypeOK
  <2>2. replayed' \in BOOLEAN
    BY <1>14 DEF PopStore, TypeOK
  <2>. QED
    BY <1>14, <2>1, <2>2 DEF PopStore, TypeOK
<1>15. CASE RenderEnds
  BY <1>15 DEF RenderEnds, TypeOK
<1>16. CASE DeviceChanges
  BY <1>16 DEF DeviceChanges, TypeOK
<1>17. CASE BridgeEnds \/ NewConnection
  BY <1>17, RingAssumption DEF BridgeEnds, NewConnection, TypeOK, RingAssumption
<1>18. CASE Main
  <2>1. UNCHANGED <<ringVars, received, idleCount, device, history>>
    BY <1>18 DEF Main, EnterMain, OpenObject, Prepare, StartBridge, StartRender, Quit, Shutdown,
                 JoinBridge, Stop, JoinRender, Destroy
  <2>2. /\ bridge' = bridge \/ bridge' = [bridge EXCEPT !.at = "wait"]
        /\ render' = render \/ render' = [render EXCEPT !.at = "start"]
    BY <1>18 DEF Main, EnterMain, OpenObject, Prepare, StartBridge, StartRender, Quit, Shutdown,
                 JoinBridge, Stop, JoinRender, Destroy
  <2>3. /\ main' \in {"start", "init", "window", "bridge", "render", "loop", "joinBridge", "stop",
                      "join", "return", "exited"}
        /\ m_running' \in BOOLEAN /\ joinable' \in BOOLEAN
    BY <1>18 DEF Main, EnterMain, OpenObject, Prepare, StartBridge, StartRender, Quit, Shutdown,
                 JoinBridge, Stop, JoinRender, Destroy, Calls, TypeOK
  <2>4. held' \in 0..AllOpen
    <3>1. held' = held \/ (held < AllOpen /\ held' = held + 1) \/ held' = 0
      BY <1>18 DEF Main, EnterMain, OpenObject, Prepare, StartBridge, StartRender, Quit, Shutdown,
                   JoinBridge, Stop, JoinRender, Destroy
    <3>. QED
      BY <3>1, OpenRange DEF TypeOK
  <2>. QED
    BY <2>1, <2>2, <2>3, <2>4 DEF TypeOK
<1>19. CASE UNCHANGED vars
  BY <1>19 DEF vars, TypeOK
<1>. QED
  BY <1>1, <1>2, <1>3, <1>4, <1>5, <1>6, <1>7, <1>8, <1>9, <1>10, <1>11, <1>12, <1>13, <1>14,
     <1>15, <1>16, <1>17, <1>18, <1>19
  DEF Next, Bridge, Render

-----------------------------------------------------------------------------
(* Order.                                                                  *)

\* A pop leaves the queued blocks but the oldest, in their order.
LEMMA PopKeeps ==
  ASSUME TypeOK, InOrder, bridge.at # "reset", m_readPos # m_writePos,
         m_readPos' = After(m_readPos), UNCHANGED <<m_buffer, m_writePos>>
  PROVE  /\ \A p \in Positions :
              Occupied(p)' => Occupied(p) /\ m_buffer[m_readPos] < m_buffer[p]
         /\ \A p, q \in Positions :
              Occupied(p)' /\ Occupied(q)'
                /\ availableRead(m_readPos', p) < availableRead(m_readPos', q)
                => m_buffer[p] < m_buffer[q]
<1>0. m_readPos \in Positions /\ m_writePos \in Positions
  BY DEF TypeOK
<1>1. /\ availableRead(m_readPos, m_readPos) = 0
      /\ \A p \in Positions : availableRead(m_readPos, p) \in Nat
  BY <1>0, ReadRange
<1>2. \A p \in Positions : p # m_readPos =>
        availableRead(m_readPos', p) = availableRead(m_readPos, p) - 1
  BY <1>0, ReadOn
<1>3. ~(availableRead(m_readPos', m_readPos) < availableRead(m_readPos', m_writePos'))
  <2>1. availableRead(After(m_readPos), m_readPos) = Slots - 1
    BY <1>0, AfterValue, RingAssumption DEF RingAssumption, Positions, availableRead
  <2>2. availableRead(After(m_readPos), m_writePos) \in 0..Slots - 1
    BY <1>0, AfterValue, ReadRange
  <2>. QED
    BY <2>1, <2>2, RingAssumption DEF RingAssumption
<1>4. ASSUME NEW p \in Positions, Occupied(p)'
      PROVE  /\ p # m_readPos /\ Occupied(p)
             /\ availableRead(m_readPos, m_readPos) < availableRead(m_readPos, p)
  <2>1. p # m_readPos
    BY <1>3, <1>4 DEF Occupied
  <2>2. availableRead(m_readPos, p) # 0
    BY <1>0, <2>1, ReadRange
  <2>. QED
    BY <1>0, <1>1, <1>2, <1>4, <2>1, <2>2 DEF Occupied
<1>5. Occupied(m_readPos)
  <2>1. availableRead(m_readPos, m_writePos) # 0
    BY <1>0, ReadRange
  <2>. QED
    BY <1>0, <1>1, <2>1 DEF Occupied
<1>. QED
  BY <1>0, <1>1, <1>2, <1>4, <1>5 DEF InOrder

\* What the writing of the free slot leaves alone.
LEMMA FreeSlot == ASSUME TypeOK PROVE ~Occupied(m_writePos)
BY ReadRange, RingAssumption DEF RingAssumption, TypeOK, Occupied, Positions

\* A step that touches neither the ring nor what was heard or received.
LEMMA SameRing ==
  ASSUME NotRaced, UNCHANGED <<ringVars, received, last, replayed>>,
         bridge.at # "reset" \/ bridge'.at = "reset"
  PROVE  InOrder' /\ ~replayed' /\ last' <= received'
BY DEF NotRaced, InOrder, Newest, Occupied, ringVars

\* What main() does to the ring and the threads: it only starts them.
LEMMA MainSteps ==
  ASSUME TypeOK, Main
  PROVE  /\ UNCHANGED <<ringVars, received, idleCount, device, last, replayed, raced, met>>
         /\ \/ bridge' = bridge
            \/ main = "bridge" /\ bridge' = [bridge EXCEPT !.at = "wait"]
         /\ \/ render' = render
            \/ main = "render" /\ render' = [render EXCEPT !.at = "start"]
BY DEF Main, EnterMain, OpenObject, Prepare, StartBridge, StartRender, Quit, Shutdown, JoinBridge,
       Stop, JoinRender, Destroy, Calls, history, bridgeVars, renderVars, TypeOK

\* Once something has raced it stays known.
LEMMA RacedStays == TypeOK /\ [Next]_vars /\ ~raced' => ~raced
<1>. SUFFICES ASSUME TypeOK, [Next]_vars, ~raced' PROVE ~raced
  OBVIOUS
<1>1. CASE Main
  BY <1>1, MainSteps
<1>. QED
  BY <1>1
  DEF TypeOK, Next, Bridge, Render, DiscardBlock, ResetWrite, AcceptBlock, DropBegin, DropStore,
      DropNext, PushBegin, PushCopy, PushStore, BridgeEnds, NewConnection, RenderStarts, RenderWakes, PopBegin,
      PopCopy, PopStore, RenderEnds, DeviceChanges, vars, history

\* One step per action; a step that races owes nothing.
LEMMA NextOrder == IInv /\ TypeOK' /\ [Next]_vars /\ ~raced' => NotRaced'
<1>. SUFFICES ASSUME IInv, TypeOK', [Next]_vars, ~raced' PROVE NotRaced'
  OBVIOUS
<1>0. ~raced /\ NotRaced /\ TypeOK
  BY RacedStays DEF IInv
<1>. USE <1>0 DEF ringVars, bridgeVars, renderVars, mainVars, history, Resume
<1>1. CASE DiscardBlock
  <2>1. /\ received' = received + 1 /\ received \in Nat /\ last' = last /\ last \in Nat
        /\ bridge.at = "wait" /\ replayed' = replayed
        /\ UNCHANGED <<m_buffer, m_writePos, render>>
    BY <1>1 DEF DiscardBlock, TypeOK
  <2>2. CASE bridge' = [bridge EXCEPT !.at = Resume] /\ m_readPos' = m_readPos
    <3>0. bridge'.at \in {"wait", "ended"}
      BY <2>2 DEF TypeOK
    <3>1. InOrder'
      BY <2>1, <2>2 DEF NotRaced, InOrder, Occupied, TypeOK
    <3>. QED
      BY <2>1, <2>2, <3>0, <3>1
      DEF NotRaced, Newest, RenderHolds, BridgeHolds, Popping, Consuming
  <2>3. CASE m_readPos' = 0 /\ bridge' = [bridge EXCEPT !.at = "reset"]
             /\ raced' = (raced \/ Popping)
    <3>1. bridge'.at = "reset" /\ ~Popping
      BY <2>3 DEF TypeOK
    <3>. QED
      BY <2>1, <2>3, <3>1
      DEF NotRaced, InOrder, Newest, RenderHolds, BridgeHolds, Popping, Consuming
  <2>. QED
    BY <1>1, <2>2, <2>3 DEF DiscardBlock
<1>2. CASE ResetWrite
  <2>1. /\ m_readPos' = 0 /\ m_writePos' = 0 /\ bridge'.at \in {"wait", "ended"} /\ ~Popping
        /\ UNCHANGED <<m_buffer, received, last, replayed, render>>
    BY <1>2 DEF ResetWrite, NotRaced, BridgeHolds, TypeOK
  <2>2. \A p \in Positions : ~(Occupied(p)')
    BY <2>1, RingAssumption DEF RingAssumption, Occupied, availableRead, Positions
  <2>. QED
    BY <2>1, <2>2 DEF NotRaced, InOrder, Newest, RenderHolds, BridgeHolds, Popping, Consuming
<1>3. CASE AcceptBlock
  <2>1. /\ received' = received + 1 /\ received \in Nat /\ last \in Nat
        /\ bridge.at = "wait" /\ bridge'.at \in {"drop", "push"}
        /\ UNCHANGED <<m_buffer, m_readPos, m_writePos, last, replayed, render>>
    BY <1>3 DEF AcceptBlock, TypeOK
  <2>2. InOrder' /\ \A p \in Positions : Occupied(p)' => m_buffer'[p] < received'
    BY <2>1 DEF NotRaced, InOrder, Occupied, TypeOK
  <2>. QED
    BY <2>1, <2>2 DEF NotRaced, Newest, RenderHolds, BridgeHolds, Popping, Consuming
<1>4. CASE DropBegin
  <2>1. /\ bridge.at = "drop" /\ bridge'.at \in {"pop", "dropped"} /\ bridge'.read = m_readPos
        /\ bridge'.at = "pop" => Queued > 0 /\ ~Popping
        /\ UNCHANGED <<ringVars, received, last, replayed, render>>
    BY <1>4 DEF DropBegin, TypeOK
  <2>2. bridge'.at = "pop" => m_readPos # m_writePos
    BY <2>1, ReadRange DEF Queued, TypeOK
  <2>3. InOrder' /\ ~replayed' /\ last' <= received'
    BY <2>1, SameRing
  <2>. QED
    BY <2>1, <2>2, <2>3
    DEF NotRaced, Newest, RenderHolds, BridgeHolds, Popping, Consuming, Occupied
<1>5. CASE DropStore
  <2>1. /\ bridge.at = "pop" /\ bridge'.at = "dropped" /\ m_readPos' = After(m_readPos)
        /\ ~Popping /\ m_readPos # m_writePos
        /\ UNCHANGED <<m_buffer, m_writePos, received, last, replayed, render>>
    BY <1>5 DEF DropStore, NotRaced, BridgeHolds, TypeOK
  <2>2. InOrder' /\ \A p \in Positions : Occupied(p)' => m_buffer'[p] < received'
    BY <2>1, PopKeeps DEF NotRaced, InOrder, Newest
  <2>. QED
    BY <2>1, <2>2 DEF NotRaced, Newest, RenderHolds, BridgeHolds, Popping, Consuming
<1>6. CASE DropNext
  <2>1. /\ bridge.at = "dropped" /\ bridge'.at \in {"drop", "push"}
        /\ UNCHANGED <<ringVars, received, last, replayed, render>>
    BY <1>6 DEF DropNext, TypeOK
  <2>2. InOrder' /\ ~replayed' /\ last' <= received'
    BY <2>1, SameRing
  <2>. QED
    BY <2>1, <2>2 DEF NotRaced, Newest, RenderHolds, BridgeHolds, Popping, Consuming, Occupied
<1>7. CASE PushBegin
  <2>1. /\ bridge.at = "push" /\ bridge'.at \in {"copy", "wait", "ended"}
        /\ bridge'.at = "copy" => availableWrite(m_writePos, m_readPos) >= 1
        /\ UNCHANGED <<ringVars, received, last, replayed, render>>
    BY <1>7 DEF PushBegin, TypeOK
  <2>2. bridge'.at = "copy" => After(m_writePos) # m_readPos
    BY <2>1, RoomBehind DEF TypeOK
  <2>3. InOrder' /\ ~replayed' /\ last' <= received'
    BY <2>1, SameRing
  <2>. QED
    BY <2>1, <2>2, <2>3
    DEF NotRaced, Newest, RenderHolds, BridgeHolds, Popping, Consuming, Occupied
<1>8. CASE PushCopy
  <2>1. /\ bridge.at = "copy" /\ bridge'.at = "publish"
        /\ UNCHANGED <<m_readPos, m_writePos, received, last, replayed, render>>
        /\ m_buffer' = [m_buffer EXCEPT ![m_writePos] = received]
    BY <1>8 DEF PushCopy, TypeOK
  <2>2. /\ m_buffer'[m_writePos] = received
        /\ \A p \in Positions : p # m_writePos => m_buffer'[p] = m_buffer[p]
    BY <2>1 DEF TypeOK
  <2>3. \A p \in Positions : Occupied(p)' => Occupied(p) /\ m_buffer'[p] = m_buffer[p]
    BY <2>1, <2>2, FreeSlot DEF Occupied
  <2>4. InOrder'
    BY <2>1, <2>3 DEF NotRaced, InOrder
  <2>5. Newest'
    BY <2>1, <2>2, <2>3 DEF NotRaced, Newest
  <2>6. RenderHolds'
    BY <2>1, <2>2 DEF NotRaced, RenderHolds, Popping, Consuming, TypeOK
  <2>. QED
    BY <2>1, <2>4, <2>5, <2>6 DEF NotRaced, BridgeHolds
<1>9. CASE PushStore
  <2>1. /\ bridge.at = "publish" /\ bridge'.at \in {"wait", "ended"}
        /\ m_writePos' = After(m_writePos)
        /\ After(m_writePos) # m_readPos /\ m_buffer[m_writePos] = received
        /\ UNCHANGED <<m_buffer, m_readPos, received, last, replayed, render>>
    BY <1>9 DEF PushStore, NotRaced, BridgeHolds, Newest, TypeOK
  <2>2. availableRead(m_readPos, m_writePos') = availableRead(m_readPos, m_writePos) + 1
    BY <2>1, WriteOn DEF TypeOK
  <2>3. \A p \in Positions : Occupied(p)' => Occupied(p) \/ p = m_writePos
    <3>1. \A p \in Positions : availableRead(m_readPos, p) \in Nat
      BY ReadRange DEF TypeOK
    <3>2. ASSUME NEW p \in Positions, Occupied(p)', ~Occupied(p) PROVE p = m_writePos
      <4>1. availableRead(m_readPos, p) = availableRead(m_readPos, m_writePos)
        BY <2>1, <2>2, <3>1, <3>2 DEF Occupied, TypeOK
      <4>. QED
        BY <4>1, ReadInjective DEF TypeOK
    <3>. QED
      BY <3>2
  <2>4. InOrder'
    <3>1. \A p \in Positions : Occupied(p)' => last' < m_buffer'[p] /\ m_buffer'[p] <= received'
      BY <2>1, <2>3 DEF NotRaced, InOrder, Newest, TypeOK
    <3>2. ASSUME NEW p \in Positions, NEW q \in Positions, Occupied(p)', Occupied(q)',
                 availableRead(m_readPos, p) < availableRead(m_readPos, q)
          PROVE  m_buffer[p] < m_buffer[q]
      <4>1. p # m_writePos
        BY <2>1, <2>2, <3>2, ReadRange DEF Occupied, TypeOK
      <4>2. Occupied(p)
        BY <2>3, <3>2, <4>1
      <4>. QED
        BY <2>1, <2>3, <3>2, <4>2 DEF NotRaced, InOrder, Newest
    <3>. QED
      BY <2>1, <3>1, <3>2 DEF InOrder
  <2>. QED
    BY <2>1, <2>4 DEF NotRaced, Newest, RenderHolds, BridgeHolds, Popping, Consuming
<1>10. ASSUME NEW ok \in BOOLEAN, RenderStarts(ok) PROVE NotRaced'
  <2>1. /\ render'.at \in {"wait", "ended"}
        /\ UNCHANGED <<ringVars, bridge, received, last, replayed>>
    BY <1>10 DEF RenderStarts, TypeOK
  <2>. QED
    BY <2>1, SameRing DEF NotRaced, Newest, RenderHolds, BridgeHolds, Popping, Consuming, Occupied
<1>11. CASE RenderWakes
  <2>1. /\ render'.at = "write" /\ render'.read = m_readPos /\ ~Consuming
        /\ UNCHANGED <<ringVars, bridge, received, last, replayed>>
    BY <1>11 DEF RenderWakes, TypeOK
  <2>. QED
    BY <2>1, SameRing DEF NotRaced, Newest, RenderHolds, BridgeHolds, Popping, Consuming, Occupied
<1>12. CASE PopBegin
  <2>1. /\ render.at = "write" /\ render'.at \in {"copy", "wait"} /\ render'.read = render.read
        /\ render'.at = "copy" => availableRead(m_readPos, m_writePos) >= 1
        /\ UNCHANGED <<ringVars, bridge, received, last, replayed>>
    BY <1>12 DEF PopBegin, TypeOK, NotRaced, RenderHolds, Popping
  <2>2. render'.at = "copy" => m_readPos # m_writePos
    BY <2>1, ReadRange DEF TypeOK
  <2>. QED
    BY <2>1, <2>2, SameRing
    DEF NotRaced, Newest, RenderHolds, BridgeHolds, Popping, Consuming, Occupied
<1>13. CASE PopCopy
  <2>1. /\ render.at = "copy" /\ render'.at = "store" /\ render'.read = render.read
        /\ render'.data = m_buffer[m_readPos]
        /\ UNCHANGED <<ringVars, bridge, received, last, replayed>>
    BY <1>13 DEF PopCopy, TypeOK, NotRaced, RenderHolds, Popping
  <2>. QED
    BY <2>1, SameRing DEF NotRaced, Newest, RenderHolds, BridgeHolds, Popping, Consuming, Occupied
<1>14. CASE PopStore
  <2>1. /\ render.at = "store" /\ render'.at = "wait" /\ m_readPos' = After(m_readPos)
        /\ m_readPos # m_writePos /\ render.data = m_buffer[m_readPos]
        /\ bridge.at \notin {"pop", "reset"}
        /\ last' = render.data /\ replayed' = (replayed \/ render.data <= last)
        /\ UNCHANGED <<m_buffer, m_writePos, bridge, received>>
    BY <1>14 DEF PopStore, TypeOK, NotRaced, RenderHolds, Popping, Consuming
  <2>2. Occupied(m_readPos)
    BY <2>1, ReadRange DEF Occupied, TypeOK
  <2>3. last < render.data /\ render.data <= received
    BY <2>1, <2>2 DEF NotRaced, InOrder, TypeOK
  <2>4. bridge.at \in {"drop", "pop", "dropped", "push", "copy", "publish"}
          => render.data < received
    BY <2>1, <2>2 DEF NotRaced, Newest, TypeOK
  <2>5. ~replayed'
    BY <2>1, <2>3 DEF NotRaced, TypeOK
  <2>6. InOrder' /\ \A p \in Positions : Occupied(p)' => Occupied(p)
    BY <2>1, PopKeeps DEF NotRaced, InOrder
  <2>7. Newest'
    BY <2>1, <2>3, <2>4, <2>6 DEF NotRaced, Newest
  <2>8. BridgeHolds'
    <3>1. After(m_writePos) # After(m_readPos)
      <4>1. m_readPos \in Positions /\ m_writePos \in Positions /\ m_readPos # m_writePos
        BY <2>1 DEF TypeOK
      <4>2. /\ After(m_writePos) = IF m_writePos = Slots - 1 THEN 0 ELSE m_writePos + 1
            /\ After(m_readPos) = IF m_readPos = Slots - 1 THEN 0 ELSE m_readPos + 1
        BY <4>1, AfterValue
      <4>. QED
        BY <4>1, <4>2, RingAssumption DEF RingAssumption, Positions
    <3>. QED
      BY <2>1, <3>1 DEF BridgeHolds
  <2>. QED
    BY <2>1, <2>5, <2>6, <2>7, <2>8 DEF NotRaced, RenderHolds, Popping
<1>15. CASE RenderEnds \/ DeviceChanges \/ NewConnection \/ UNCHANGED vars
  <2>1. /\ render' = render \/ render'.at = "ended"
        /\ UNCHANGED <<ringVars, bridge, received, last, replayed>>
    BY <1>15 DEF RenderEnds, DeviceChanges, NewConnection, vars, TypeOK
  <2>. QED
    BY <2>1, SameRing DEF NotRaced, Newest, RenderHolds, BridgeHolds, Popping, Consuming, Occupied
<1>16. CASE BridgeEnds \/ Main
  <2>1. /\ bridge' = bridge \/ bridge'.at \in {"wait", "ended"}
        /\ render' = render \/ render'.at = "start"
        /\ bridge.at = "reset" => bridge' = bridge
        /\ UNCHANGED <<ringVars, received, last, replayed>>
    BY <1>16, MainSteps DEF BridgeEnds, TypeOK, IInv, Life
  <2>. QED
    BY <2>1, SameRing DEF NotRaced, Newest, RenderHolds, BridgeHolds, Popping, Consuming, Occupied
<1>. QED
  BY <1>1, <1>2, <1>3, <1>4, <1>5, <1>6, <1>7, <1>8, <1>9, <1>10, <1>11, <1>12, <1>13, <1>14,
     <1>15, <1>16
  DEF Next, Bridge, Render

-----------------------------------------------------------------------------
(* Length.                                                                 *)

\* The queue grows by a push only, and a trim that is due has been done by then.
LEMMA NextShort == IInv /\ TypeOK' /\ [Next]_vars /\ ~raced' => Short'
<1>. SUFFICES ASSUME IInv, TypeOK', [Next]_vars, ~raced' PROVE Short'
  OBVIOUS
<1>0. ~raced /\ NotRaced /\ Short /\ TypeOK /\ Dropping
  BY RacedStays DEF IInv
<1>a. /\ Queued \in 0..Slots - 1
      /\ m_readPos \in Positions /\ m_writePos \in Positions
      /\ bridge.toDrop \in Nat
  BY <1>0, ReadRange DEF Queued, TypeOK
<1>b. HighMark \in Nat /\ LowMark \in Nat /\ LowMark < HighMark /\ HighMark + 1 < Slots
      /\ Slots \in Nat
  BY RingAssumption DEF RingAssumption
<1>. USE <1>0, <1>a, <1>b DEF ringVars, bridgeVars, renderVars, mainVars, history, Resume
<1>1. CASE DiscardBlock
  <2>1. \/ bridge'.at = "reset"
        \/ bridge'.at \in {"wait", "ended"} /\ Queued' = Queued /\ bridge.at = "wait"
    BY <1>1 DEF DiscardBlock, TypeOK, Queued
  <2>. QED
    BY <2>1 DEF Short
<1>2. CASE ResetWrite
  <2>1. m_readPos' = 0 /\ m_writePos' = 0 /\ bridge'.at \in {"wait", "ended"}
    BY <1>2 DEF ResetWrite, NotRaced, BridgeHolds, TypeOK
  <2>2. Queued' = 0
    BY <2>1 DEF Queued, availableRead
  <2>. QED
    BY <2>1, <2>2 DEF Short
<1>3. CASE AcceptBlock
  <2>1. /\ bridge'.toDrop = ToDrop /\ Queued' = Queued
        /\ bridge'.at = IF ToDrop > 0 THEN "drop" ELSE "push"
        /\ bridge.at = "wait"
    BY <1>3 DEF AcceptBlock, TypeOK, Queued
  <2>. QED
    BY <2>1 DEF Short, ToDrop
<1>4. CASE DropBegin
  <2>1. /\ bridge.at = "drop" /\ bridge'.toDrop = bridge.toDrop /\ Queued' = Queued
        /\ bridge'.at = IF Queued > 0 THEN "pop" ELSE "dropped"
    BY <1>4 DEF DropBegin, TypeOK, Queued
  <2>2. bridge.toDrop > 0
    BY <2>1 DEF Dropping
  <2>. QED
    BY <2>1, <2>2 DEF Short
<1>5. CASE DropStore
  <2>1. /\ bridge.at = "pop" /\ bridge'.at = "dropped" /\ bridge'.toDrop = bridge.toDrop
        /\ m_readPos' = After(m_readPos) /\ m_writePos' = m_writePos /\ m_readPos # m_writePos
    BY <1>5 DEF DropStore, NotRaced, BridgeHolds, TypeOK
  <2>2. Queued' = Queued - 1
    BY <2>1, ReadOn DEF Queued
  <2>. QED
    BY <2>1, <2>2 DEF Short
<1>6. CASE DropNext
  <2>1. /\ bridge.at = "dropped" /\ bridge'.toDrop = bridge.toDrop - 1 /\ Queued' = Queued
        /\ bridge'.at = IF bridge.toDrop > 1 THEN "drop" ELSE "push"
    BY <1>6 DEF DropNext, TypeOK, Queued
  <2>2. bridge.toDrop > 0
    BY <2>1 DEF Dropping
  <2>. QED
    BY <2>1, <2>2 DEF Short
<1>7. CASE PushBegin \/ PushCopy
  <2>1. /\ bridge.at \in {"push", "copy"} /\ Queued' = Queued
        /\ bridge'.at \in {"copy", "publish", "wait", "ended"}
    BY <1>7 DEF PushBegin, PushCopy, TypeOK, Queued
  <2>. QED
    BY <2>1 DEF Short
<1>8. CASE PushStore
  <2>1. /\ bridge.at = "publish" /\ bridge'.at \in {"wait", "ended"}
        /\ m_writePos' = After(m_writePos) /\ m_readPos' = m_readPos
        /\ After(m_writePos) # m_readPos
    BY <1>8 DEF PushStore, NotRaced, BridgeHolds, TypeOK
  <2>2. Queued' = Queued + 1
    BY <2>1, WriteOn DEF Queued
  <2>. QED
    BY <2>1, <2>2 DEF Short
<1>9. CASE PopStore
  <2>1. /\ m_readPos' = After(m_readPos) /\ m_writePos' = m_writePos /\ bridge' = bridge
        /\ m_readPos # m_writePos
    BY <1>9 DEF PopStore, TypeOK, NotRaced, RenderHolds, Popping
  <2>2. Queued' = Queued - 1
    BY <2>1, ReadOn DEF Queued
  <2>. QED
    BY <2>1, <2>2 DEF Short
<1>10. CASE \/ \E ok \in BOOLEAN : RenderStarts(ok)
            \/ RenderWakes \/ PopBegin \/ PopCopy \/ RenderEnds \/ DeviceChanges
            \/ NewConnection \/ UNCHANGED vars
  <2>1. bridge' = bridge /\ Queued' = Queued
    BY <1>10 DEF RenderStarts, RenderWakes, PopBegin, PopCopy, RenderEnds, DeviceChanges,
                 NewConnection, vars, Queued
  <2>. QED
    BY <2>1 DEF Short
<1>11. CASE BridgeEnds \/ Main
  <2>1. /\ Queued' = Queued
        /\ \/ bridge' = bridge
           \/ bridge.at # "reset" /\ bridge'.at \in {"wait", "ended"}
    BY <1>11, MainSteps DEF BridgeEnds, TypeOK, IInv, Life, Queued
  <2>. QED
    BY <2>1 DEF Short
<1>. QED
  BY <1>1, <1>2, <1>3, <1>4, <1>5, <1>6, <1>7, <1>8, <1>9, <1>10, <1>11 DEF Next, Bridge, Render

-----------------------------------------------------------------------------
(* Emptiness.                                                              *)

\* An empty ring gives the render thread nothing to store a position for.
LEMMA NextEmptied == TypeOK /\ Life /\ Emptied /\ [Next]_vars => Emptied'
<1>. SUFFICES ASSUME TypeOK, Life, Emptied, [Next]_vars PROVE Emptied'
  OBVIOUS
<1>0. ResetEvery \in Nat \ {0} /\ idleCount \in Nat
  BY RingAssumption DEF RingAssumption, TypeOK
<1>. USE <1>0 DEF ringVars, bridgeVars, renderVars, mainVars, history, Resume
<1>1. CASE DiscardBlock
  <2>1. bridge.at = "wait" /\ UNCHANGED <<m_writePos, render>> /\ idleCount' = NextIdleCount
    BY <1>1 DEF DiscardBlock
  <2>2. CASE NextIdleCount = ResetEvery
    <3>1. bridge'.at = "reset" /\ m_readPos' = 0 /\ met' = Popping
      BY <1>1, <2>2 DEF DiscardBlock, TypeOK
    <3>. QED
      BY <2>1, <3>1 DEF Emptied, Popping
  <2>3. CASE NextIdleCount # ResetEvery
    <3>1. bridge'.at \in {"wait", "ended"} /\ m_readPos' = m_readPos /\ met' = met
      BY <1>1, <2>3 DEF DiscardBlock, TypeOK
    <3>2. idleCount' >= ResetEvery => idleCount >= ResetEvery
      BY <2>1, <2>3 DEF NextIdleCount
    <3>. QED
      BY <2>1, <3>1, <3>2 DEF Emptied
  <2>. QED
    BY <2>2, <2>3
<1>2. CASE ResetWrite
  <2>1. /\ bridge.at = "reset" /\ bridge'.at \in {"wait", "ended"} /\ m_writePos' = 0
        /\ met' = (met \/ Popping) /\ UNCHANGED <<m_readPos, render, idleCount>>
    BY <1>2 DEF ResetWrite, TypeOK
  <2>. QED
    BY <2>1 DEF Emptied, Popping
<1>3. CASE NewConnection \/ AcceptBlock
  <2>1. /\ idleCount' = 0 /\ bridge'.at \in {"wait", "drop", "push"}
    BY <1>3 DEF NewConnection, AcceptBlock, TypeOK
  <2>. QED
    BY <2>1 DEF Emptied
<1>4. CASE DropBegin \/ DropStore \/ DropNext \/ PushBegin \/ PushCopy \/ PushStore
  <2>1. /\ bridge.at \in {"drop", "pop", "dropped", "push", "copy", "publish"}
        /\ bridge'.at # "reset" /\ idleCount' = idleCount
    BY <1>4 DEF DropBegin, DropStore, DropNext, PushBegin, PushCopy, PushStore, TypeOK
  <2>2. idleCount' = 0
    BY <2>1 DEF Emptied
  <2>. QED
    BY <2>1, <2>2 DEF Emptied
<1>5. ASSUME NEW ok \in BOOLEAN, RenderStarts(ok) PROVE Emptied'
  <2>1. /\ render'.at \in {"wait", "ended"}
        /\ UNCHANGED <<m_readPos, m_writePos, bridge, idleCount, met>>
    BY <1>5 DEF RenderStarts, TypeOK
  <2>. QED
    BY <2>1 DEF Emptied, Popping
<1>6. CASE RenderWakes
  <2>1. /\ render'.at = "write" /\ render'.read = m_readPos /\ met' = (met \/ bridge.at = "reset")
        /\ render.at = "wait" /\ UNCHANGED <<m_readPos, m_writePos, bridge, idleCount>>
    BY <1>6 DEF RenderWakes, TypeOK
  <2>. QED
    BY <2>1 DEF Emptied
<1>7. CASE PopBegin
  <2>1. /\ render.at = "write" /\ UNCHANGED <<m_readPos, m_writePos, bridge, idleCount, met>>
        /\ render'.at = IF availableRead(render.read, m_writePos) >= 1 THEN "copy" ELSE "wait"
    BY <1>7 DEF PopBegin, TypeOK
  <2>2. render.read = m_writePos => render'.at = "wait"
    BY <2>1, ReadRange DEF TypeOK
  <2>. QED
    BY <2>1, <2>2 DEF Emptied, Popping
<1>8. CASE PopCopy \/ PopStore
  <2>1. /\ render.at \in {"copy", "store"} /\ UNCHANGED <<bridge, idleCount, met>>
    BY <1>8 DEF PopCopy, PopStore
  <2>. QED
    BY <2>1 DEF Emptied, Popping
<1>9. CASE RenderEnds \/ DeviceChanges \/ BridgeEnds \/ Main \/ UNCHANGED vars
  <2>1. UNCHANGED <<m_readPos, m_writePos, idleCount, met>>
    BY <1>9, MainSteps DEF RenderEnds, DeviceChanges, BridgeEnds, vars
  <2>2. /\ bridge' = bridge \/ (bridge.at # "reset" /\ bridge'.at \in {"wait", "ended"})
        /\ render' = render \/ render'.at \in {"start", "ended"}
    BY <1>9, MainSteps DEF RenderEnds, DeviceChanges, BridgeEnds, vars, TypeOK, Life
  <2>. QED
    BY <2>1, <2>2 DEF Emptied, Popping
<1>. QED
  BY <1>1, <1>2, <1>3, <1>4, <1>5, <1>6, <1>7, <1>8, <1>9 DEF Next, Bridge, Render

-----------------------------------------------------------------------------
(* Life of the threads.                                                    *)

\* Each thread runs between its start and its join.
LEMMA NextLife == TypeOK /\ Life /\ [Next]_vars => Life'
<1>. SUFFICES ASSUME TypeOK, Life, [Next]_vars PROVE Life'
  OBVIOUS
<1>. USE DEF ringVars, bridgeVars, renderVars, mainVars, history
<1>1. CASE Bridge
  <2>1. UNCHANGED <<render, mainVars>> /\ bridge.at \notin {"none", "ended"}
    BY <1>1 DEF Bridge, DiscardBlock, ResetWrite, AcceptBlock, DropBegin, DropStore, DropNext,
                PushBegin, PushCopy, PushStore, BridgeEnds, NewConnection
  <2>. QED
    BY <2>1 DEF Life, TypeOK
<1>2. CASE Render
  <2>1. UNCHANGED <<bridge, mainVars>> /\ render.at \notin {"none", "ended"}
    BY <1>2 DEF Render, RenderStarts, RenderWakes, PopBegin, PopCopy, PopStore, RenderEnds
  <2>. QED
    BY <2>1 DEF Life, TypeOK
<1>3. CASE DeviceChanges \/ UNCHANGED vars
  BY <1>3 DEF DeviceChanges, vars, Life
<1>4. CASE Main
  <2>. USE DEF Calls, Life
  <2>1. CASE EnterMain
    BY <2>1 DEF EnterMain
  <2>2. CASE OpenObject
    BY <2>2 DEF OpenObject
  <2>3. ASSUME NEW ok \in BOOLEAN, Prepare(ok) PROVE Life'
    BY <2>3 DEF Prepare
  <2>4. CASE StartBridge
    BY <2>4 DEF StartBridge
  <2>5. CASE StartRender
    BY <2>5 DEF StartRender
  <2>6. CASE Quit
    BY <2>6 DEF Quit
  <2>7. CASE JoinBridge
    <3>1. m_running
      BY <2>7 DEF JoinBridge
    <3>. QED
      BY <2>7, <3>1 DEF JoinBridge
  <2>8. CASE Stop
    BY <2>8 DEF Stop
  <2>9. CASE JoinRender
    BY <2>9 DEF JoinRender
  <2>10. CASE Destroy
    BY <2>10 DEF Destroy
  <2>. QED
    BY <1>4, <2>1, <2>2, <2>3, <2>4, <2>5, <2>6, <2>7, <2>8, <2>9, <2>10 DEF Main, Shutdown
<1>. QED
  BY <1>1, <1>2, <1>3, <1>4 DEF Next

\* The ring's invariant, for every size, mark and number of blocks.
THEOREM InvCorrect == Spec => []IInv
<1>1. IInv /\ [Next]_vars => IInv'
  BY NextType, NextOrder, NextShort, NextEmptied, NextLife DEF IInv
<1>. QED
  BY <1>1, InitInv, PTL DEF Spec

\* Whatever races, the positions and locals stay in range.
THEOREM TypeCorrect == Spec => []TypeOK
<1>1. IInv => TypeOK
  BY DEF IInv
<1>. QED
  BY <1>1, InvCorrect, PTL

\* Without a race every block is heard at most once and in order, and none is overwritten
\* while it is read.
THEOREM OneConsumerCorrect == Spec => []OneConsumer
<1>1. IInv => OneConsumer
  BY DEF IInv, NotRaced, RenderHolds, OneConsumer, Popping
<1>. QED
  BY <1>1, InvCorrect, PTL

\* Without a race the queue stays short, and no wanted block is refused.
THEOREM ShortCorrect == Spec => []RingShort
<1>1. IInv => RingShort
  <2>. SUFFICES ASSUME IInv PROVE RingShort
    OBVIOUS
  <2>1. CASE ~raced
    <3>1. Queued \in 0..Slots - 1
      BY ReadRange DEF IInv, TypeOK, Queued
    <3>. QED
      BY <2>1, <3>1, RingAssumption
      DEF IInv, Short, RingShort, RingAssumption, Queued, availableWrite
  <2>. QED
    BY <2>1 DEF RingShort
<1>. QED
  BY <1>1, InvCorrect, PTL

\* With nobody listening the queue is empty from the first reset on that no pop has
\* met, even if the render thread has stopped, and whatever has raced before.
THEOREM OldAudioCorrect == Spec => []OldAudioDropped
<1>1. IInv => OldAudioDropped
  <2>. SUFFICES ASSUME IInv, ~met, idleCount >= ResetEvery, bridge.at # "reset"
                PROVE  Queued = 0
    BY DEF OldAudioDropped
  <2>1. m_readPos = m_writePos
    BY DEF IInv, Emptied
  <2>. QED
    BY <2>1, ReadRange DEF IInv, TypeOK, Queued
<1>. QED
  BY <1>1, InvCorrect, PTL

\* The render thread works with open objects only, and no thread is left behind.
THEOREM LifeCorrect == Spec => []DeviceOutlivesThreads
<1>1. IInv => DeviceOutlivesThreads
  <2>. SUFFICES ASSUME IInv PROVE DeviceOutlivesThreads
    OBVIOUS
  <2>1. /\ main = "exited" => ~joinable /\ bridge.at \in {"none", "ended"}
        /\ render.at \notin {"none", "ended"} => held = AllOpen
    BY DEF IInv, Life, TypeOK
  <2>. QED
    BY <2>1 DEF DeviceOutlivesThreads
<1>. QED
  BY <1>1, InvCorrect, PTL
-----------------------------------------------------------------------------
(* The queue: what the positions and slots say is a sequence of blocks.    *)

Blocks == 0..MaxBlocks

\* The slot of the i-th oldest block.
At(i) == (m_readPos + i - 1) % Slots

\* The slot i places on from any other, around the end of the buffer.
LEMMA Around ==
  ASSUME NEW a \in Positions, NEW i \in 1..Slots
  PROVE  (a + i - 1) % Slots = IF a + i - 1 < Slots THEN a + i - 1 ELSE a + i - 1 - Slots
<1>. USE RingAssumption DEF RingAssumption, Positions
<1>1. PICK k \in Nat : k = a + i - 1 /\ k < 2 * Slots
  OBVIOUS
<1>2. k % Slots = IF k < Slots THEN k ELSE k - Slots
  <2>1. CASE k < Slots
    <3>1. k \in 0..Slots - 1
      BY <1>1, <2>1
    <3>. QED
      BY <2>1, <3>1
  <2>2. CASE k >= Slots
    <3>1. k - Slots \in 0..Slots - 1
      BY <1>1, <2>2
    <3>2. k = 1 * Slots + (k - Slots)
      BY <1>1
    <3>. QED
      BY <2>2, <3>1, <3>2
  <2>. QED
    BY <1>1, <2>1, <2>2
<1>. QED
  BY <1>1, <1>2

\* The i-th oldest block is in an occupied slot, i - 1 places from the read position.
LEMMA AtOccupied ==
  ASSUME TypeOK, NEW i \in 1..Queued
  PROVE  At(i) \in Positions /\ availableRead(m_readPos, At(i)) = i - 1 /\ Occupied(At(i))
<1>1. m_readPos \in Positions /\ m_writePos \in Positions
  BY DEF TypeOK
<1>2. Queued \in 0..Slots - 1 /\ Slots \in Nat
  BY <1>1, ReadRange, RingAssumption DEF Queued, RingAssumption
<1>3. i \in 1..Slots
  BY <1>2
<1>4. At(i) = IF m_readPos + i - 1 < Slots THEN m_readPos + i - 1 ELSE m_readPos + i - 1 - Slots
  BY <1>1, <1>3, Around DEF At
<1>5. At(i) \in Positions /\ availableRead(m_readPos, At(i)) = i - 1
  BY <1>1, <1>2, <1>3, <1>4 DEF Positions, availableRead
<1>. QED
  BY <1>2, <1>5 DEF Occupied, Queued

\* Contents is a sequence of blocks, as long as the positions say.
LEMMA ContentsSeq ==
  ASSUME TypeOK, bridge.at # "reset"
  PROVE  /\ Contents \in Seq(Blocks) /\ Len(Contents) = Queued /\ Queued \in Nat
         /\ \A i \in 1..Queued : Contents[i] = m_buffer[At(i)]
<1>1. Queued \in Nat
  BY ReadRange, RingAssumption DEF Queued, TypeOK, RingAssumption
<1>2. \A i \in 1..Queued : m_buffer[At(i)] \in Blocks
  BY AtOccupied DEF TypeOK, Blocks
<1>3. Contents = [i \in 1..Queued |-> m_buffer[At(i)]]
  BY DEF Contents, At
<1>4. Contents \in [1..Queued -> Blocks] /\ DOMAIN Contents = 1..Queued
  BY <1>2, <1>3
<1>5. Contents \in Seq(Blocks) /\ Len(Contents) = Queued
  BY <1>1, <1>4
<1>. QED
  BY <1>1, <1>3, <1>5

\* A step that moves neither position and writes no occupied slot leaves the queue.
LEMMA SameQueue ==
  ASSUME TypeOK, UNCHANGED <<m_readPos, m_writePos>>, bridge.at # "reset", bridge'.at # "reset",
         \A p \in Positions : Occupied(p) => m_buffer'[p] = m_buffer[p]
  PROVE  Contents' = Contents
<1>1. \A i \in 1..Queued : m_buffer'[At(i)] = m_buffer[At(i)]
  BY AtOccupied
<1>. QED
  BY <1>1 DEF Contents, Queued, At

\* The read position moved on by one takes the oldest block from the queue.
LEMMA PopTakes ==
  ASSUME TypeOK, TypeOK', bridge.at # "reset", bridge'.at # "reset", m_readPos # m_writePos,
         m_readPos' = After(m_readPos), UNCHANGED <<m_buffer, m_writePos>>
  PROVE  /\ Contents # <<>> /\ Contents' = Tail(Contents)
         /\ Head(Contents) = m_buffer[m_readPos]
<1>0. /\ m_readPos \in Positions /\ m_writePos \in Positions /\ m_readPos' \in Positions
      /\ Slots \in Nat
  BY RingAssumption DEF TypeOK, RingAssumption
<1>1. Queued' = Queued - 1 /\ Queued \in 1..Slots - 1
  BY <1>0, ReadRange, ReadOn DEF Queued
<1>2. /\ Contents \in Seq(Blocks) /\ Len(Contents) = Queued
      /\ \A i \in 1..Queued : Contents[i] = m_buffer[At(i)]
      /\ Contents' \in Seq(Blocks) /\ Len(Contents') = Queued'
      /\ \A i \in 1..Queued' : Contents'[i] = m_buffer'[At(i)']
  <2>1. /\ Contents \in Seq(Blocks) /\ Len(Contents) = Queued
        /\ \A i \in 1..Queued : Contents[i] = m_buffer[At(i)]
    BY ContentsSeq
  <2>2. (TypeOK /\ bridge.at # "reset"
          => /\ Contents \in Seq(Blocks) /\ Len(Contents) = Queued
             /\ \A i \in 1..Queued : Contents[i] = m_buffer[At(i)])'
    BY ContentsSeq, PTL
  <2>. QED
    BY <2>1, <2>2 DEF Blocks
<1>3. At(1) = m_readPos
  BY <1>0, <1>1, Around DEF At, Positions
<1>4. Contents # <<>> /\ Head(Contents) = m_buffer[m_readPos]
  BY <1>1, <1>2, <1>3
<1>5. \A i \in 1..Queued - 1 : At(i)' = At(i + 1)
  <2>1. SUFFICES ASSUME NEW i \in 1..Queued - 1 PROVE At(i)' = At(i + 1)
    OBVIOUS
  <2>2. i \in 1..Slots /\ i + 1 \in 1..Slots
    BY <1>0, <1>1
  <2>3. At(i)' = IF m_readPos' + i - 1 < Slots THEN m_readPos' + i - 1
                                               ELSE m_readPos' + i - 1 - Slots
    BY <1>0, <2>2, Around DEF At
  <2>4. PICK j \in 1..Slots : j = i + 1
    BY <2>2
  <2>5. At(j) = IF m_readPos + j - 1 < Slots THEN m_readPos + j - 1
                                             ELSE m_readPos + j - 1 - Slots
    BY <1>0, Around DEF At
  <2>6. m_readPos' = IF m_readPos = Slots - 1 THEN 0 ELSE m_readPos + 1
    BY <1>0, AfterValue
  <2>7. (IF m_readPos' + i - 1 < Slots THEN m_readPos' + i - 1 ELSE m_readPos' + i - 1 - Slots)
          = (IF m_readPos + j - 1 < Slots THEN m_readPos + j - 1 ELSE m_readPos + j - 1 - Slots)
    BY <1>0, <1>1, <2>2, <2>4, <2>6 DEF Positions
  <2>. QED
    BY <2>3, <2>4, <2>5, <2>7
<1>6. /\ Tail(Contents) \in Seq(Blocks) /\ Len(Tail(Contents)) = Queued - 1
      /\ \A i \in 1..Queued - 1 : Tail(Contents)[i] = Contents[i + 1]
  BY <1>1, <1>2, <1>4
<1>7. \A i \in 1..Queued - 1 : Contents'[i] = Tail(Contents)[i]
  BY <1>1, <1>2, <1>5, <1>6
<1>8. Contents' = Tail(Contents)
  BY <1>1, <1>2, <1>6, <1>7, SeqEqual
<1>. QED
  BY <1>4, <1>8

\* The write position moved on by one queues what is in the slot it leaves.
LEMMA PushQueues ==
  ASSUME TypeOK, TypeOK', bridge.at # "reset", bridge'.at # "reset", After(m_writePos) # m_readPos,
         m_writePos' = After(m_writePos), UNCHANGED <<m_buffer, m_readPos>>
  PROVE  Contents' = Append(Contents, m_buffer[m_writePos])
<1>. DEFINE new == m_buffer[m_writePos]
<1>0. /\ m_readPos \in Positions /\ m_writePos \in Positions /\ new \in Blocks
      /\ Slots \in Nat
  BY RingAssumption DEF TypeOK, RingAssumption, Blocks
<1>1. Queued' = Queued + 1 /\ Queued \in 0..Slots - 1
  BY <1>0, ReadRange, WriteOn DEF Queued
<1>2. /\ Contents \in Seq(Blocks) /\ Len(Contents) = Queued
      /\ \A i \in 1..Queued : Contents[i] = m_buffer[At(i)]
      /\ Contents' \in Seq(Blocks) /\ Len(Contents') = Queued + 1
      /\ \A i \in 1..Queued + 1 : Contents'[i] = m_buffer[At(i)]
  <2>1. /\ Contents \in Seq(Blocks) /\ Len(Contents) = Queued
        /\ \A i \in 1..Queued : Contents[i] = m_buffer[At(i)]
    BY ContentsSeq
  <2>2. (TypeOK /\ bridge.at # "reset"
          => /\ Contents \in Seq(Blocks) /\ Len(Contents) = Queued
             /\ \A i \in 1..Queued : Contents[i] = m_buffer[At(i)])'
    BY ContentsSeq, PTL
  <2>. QED
    BY <1>1, <2>1, <2>2 DEF Blocks, At
<1>3. At(Queued + 1) = m_writePos
  <2>1. PICK k \in 1..Slots : k = Queued + 1
    BY <1>0, <1>1
  <2>2. At(k) = IF m_readPos + k - 1 < Slots THEN m_readPos + k - 1
                                             ELSE m_readPos + k - 1 - Slots
    BY <1>0, Around DEF At
  <2>. QED
    BY <1>0, <2>1, <2>2 DEF Queued, availableRead, Positions
<1>. HIDE DEF new
<1>4. /\ Append(Contents, new) \in Seq(Blocks) /\ Len(Append(Contents, new)) = Queued + 1
      /\ \A i \in 1..Queued : Append(Contents, new)[i] = Contents[i]
      /\ Append(Contents, new)[Queued + 1] = new
  BY <1>0, <1>2, AppendProperties
<1>5. \A i \in 1..Queued + 1 : Contents'[i] = Append(Contents, new)[i]
  BY <1>1, <1>2, <1>3, <1>4 DEF new
<1>6. Contents' = Append(Contents, new)
  BY <1>2, <1>4, <1>5, SeqEqual
<1>. QED
  BY <1>6 DEF new

\* What the thread whose step it is may do to the queue.
QueueStep ==
  \/ Untouched
  \/ UNCHANGED bridge /\ Plays
  \/ UNCHANGED render /\ (Queues \/ Drops \/ Empties)

\* One step per action: a store of a position is a step of the queue, all else is hidden.
LEMMA NextQueue == IInv /\ IInv' /\ [Next]_vars /\ ~raced' => QueueStep
<1>. SUFFICES ASSUME IInv, IInv', [Next]_vars, ~raced' PROVE QueueStep
  OBVIOUS
<1>0. ~raced /\ NotRaced /\ TypeOK /\ TypeOK'
  BY RacedStays DEF IInv
<1>. USE <1>0 DEF ringVars, bridgeVars, renderVars, mainVars, history, Resume, QueueStep
<1>1. CASE DiscardBlock
  <2>1. bridge.at = "wait" /\ last' = last /\ UNCHANGED <<m_buffer, m_writePos, render>>
    BY <1>1 DEF DiscardBlock
  <2>2. CASE NextIdleCount = ResetEvery
    <3>1. bridge'.at = "reset"
      BY <1>1, <2>2 DEF DiscardBlock, TypeOK
    <3>. QED
      BY <2>1, <3>1 DEF Empties, Contents
  <2>3. CASE NextIdleCount # ResetEvery
    <3>1. m_readPos' = m_readPos /\ bridge'.at \in {"wait", "ended"}
      BY <1>1, <2>3 DEF DiscardBlock, TypeOK
    <3>. QED
      BY <2>1, <3>1, SameQueue DEF Untouched
  <2>. QED
    BY <2>2, <2>3
<1>2. CASE ResetWrite
  <2>1. /\ bridge.at = "reset" /\ bridge'.at \in {"wait", "ended"} /\ last' = last
        /\ m_readPos' = 0 /\ m_writePos' = 0
    BY <1>2 DEF ResetWrite, NotRaced, BridgeHolds, TypeOK
  <2>2. Queued' = 0
    BY <2>1 DEF Queued, availableRead
  <2>3. Contents' = <<>>
    BY <2>1, <2>2 DEF Contents
  <2>. QED
    BY <2>1, <2>3 DEF Untouched, Contents
<1>3. CASE DropStore
  <2>1. /\ bridge.at = "pop" /\ bridge'.at = "dropped" /\ m_readPos' = After(m_readPos)
        /\ m_readPos # m_writePos /\ last' = last
        /\ UNCHANGED <<m_buffer, m_writePos, render>>
    BY <1>3 DEF DropStore, NotRaced, BridgeHolds, TypeOK
  <2>. QED
    BY <2>1, PopTakes DEF Drops
<1>4. CASE PushCopy
  <2>1. /\ bridge.at = "copy" /\ bridge'.at = "publish" /\ last' = last
        /\ UNCHANGED <<m_readPos, m_writePos>>
        /\ m_buffer' = [m_buffer EXCEPT ![m_writePos] = received]
    BY <1>4 DEF PushCopy, TypeOK
  <2>2. \A p \in Positions : Occupied(p) => m_buffer'[p] = m_buffer[p]
    BY <2>1, FreeSlot DEF TypeOK
  <2>. QED
    BY <2>1, <2>2, SameQueue DEF Untouched
<1>5. CASE PushStore
  <2>1. /\ bridge.at = "publish" /\ bridge'.at \in {"wait", "ended"} /\ last' = last
        /\ m_writePos' = After(m_writePos) /\ m_buffer[m_writePos] = received
        /\ After(m_writePos) # m_readPos
        /\ UNCHANGED <<m_buffer, m_readPos, received, render>>
    BY <1>5 DEF PushStore, NotRaced, Newest, BridgeHolds, TypeOK
  <2>. QED
    BY <2>1, PushQueues DEF Queues
<1>6. CASE PopStore
  <2>1. /\ m_readPos' = After(m_readPos) /\ m_readPos # m_writePos /\ last' = m_buffer[m_readPos]
        /\ bridge.at # "reset" /\ bridge' = bridge
        /\ UNCHANGED <<m_buffer, m_writePos>>
    BY <1>6 DEF PopStore, NotRaced, RenderHolds, Popping, Consuming, TypeOK
  <2>. QED
    BY <2>1, PopTakes DEF Plays
<1>7. CASE AcceptBlock \/ DropBegin \/ DropNext \/ PushBegin \/ BridgeEnds
  <2>1. /\ bridge.at # "reset" /\ bridge'.at # "reset" /\ last' = last
        /\ UNCHANGED ringVars
    BY <1>7 DEF AcceptBlock, DropBegin, DropNext, PushBegin, BridgeEnds, TypeOK
  <2>. QED
    BY <2>1, SameQueue DEF Untouched
<1>8. CASE \/ \E ok \in BOOLEAN : RenderStarts(ok)
           \/ RenderWakes \/ PopBegin \/ PopCopy \/ RenderEnds \/ DeviceChanges
           \/ NewConnection \/ UNCHANGED vars
  <2>1. UNCHANGED <<ringVars, bridge, last>>
    BY <1>8 DEF RenderStarts, RenderWakes, PopBegin, PopCopy, RenderEnds, DeviceChanges,
                NewConnection, vars
  <2>. QED
    BY <2>1 DEF Untouched, Contents, Queued
<1>9. CASE Main
  <2>1. /\ UNCHANGED <<ringVars, last>>
        /\ \/ bridge' = bridge
           \/ bridge.at # "reset" /\ bridge'.at = "wait"
    BY <1>9, MainSteps DEF IInv, Life, TypeOK
  <2>. QED
    BY <2>1 DEF Untouched, Contents, Queued
<1>. QED
  BY <1>1, <1>2, <1>3, <1>4, <1>5, <1>6, <1>7, <1>8, <1>9 DEF Next, Bridge, Render

\* For every size of the ring, every step that nothing has raced with is one of a queue.
THEOREM FifoCorrect == Spec => RingIsFifo
<1>1. IInv /\ IInv' /\ [Next]_vars
        => [raced' \/ QueueStep]_vars
  BY NextQueue
<1>. QED
  BY <1>1, InvCorrect, PTL DEF Spec, RingIsFifo, QueueStep
=============================================================================
