----------------------- MODULE TaggedBlockQueueProofs -----------------------
(***************************************************************************)
(* Proofs about TaggedBlockQueue, for every capacity, every set of epochs  *)
(* and every set of payloads: the indices and copies of the two threads    *)
(* never meet, and the ring implements BlockFifo.                          *)
(*                                                                         *)
(* Neither thread sees where the other one is, so exclusion is not         *)
(* inductive by itself.  The invariant adds what each thread may count on: *)
(* the producer on its free slot, the consumer on its block, and a         *)
(* discard on an index that stays inside the occupied part; and that a     *)
(* half made copy agrees with its original as far as it has come.          *)
(***************************************************************************)
EXTENDS TaggedBlockQueue, SequenceTheorems, TLAPS

PopHasBlock == popPc \in {"epoch", "samples", "publish"} => m_read # m_write

\* What has been copied so far is what was to be copied.
PushCopied ==
  /\ pushPc \in {"samples", "publish"} => m_blocks[m_write].epoch = pushing.epoch
  /\ pushPc = "publish" => m_blocks[m_write].samples = pushing.samples

PopCopied ==
  /\ popPc \in {"samples", "publish"} => popped.epoch = m_blocks[m_read].epoch
  /\ popPc = "publish" => popped.samples = m_blocks[m_read].samples

IInv ==
  /\ TypeOK
  /\ PushKeepsRoom
  /\ PopHasBlock
  /\ DiscardStaysInside
  /\ PushCopied
  /\ PopCopied

-----------------------------------------------------------------------------
(* Arithmetic of the ring.                                                 *)

\* An index less than twice the capacity is reduced by at most one turn.
LEMMA Wrap ==
  ASSUME NEW n \in Nat, n < 2 * Capacity
  PROVE  n % Capacity = IF n < Capacity THEN n ELSE n - Capacity
<1>. USE CapacityAssumption DEF CapacityAssumption
<1>1. CASE n < Capacity
  <2>1. n \in 0..Capacity - 1
    BY <1>1
  <2>. QED
    BY <1>1, <2>1
<1>2. CASE n >= Capacity
  <2>1. n - Capacity \in 0..Capacity - 1
    BY <1>2
  <2>2. n = 1 * Capacity + (n - Capacity)
    BY <1>2
  <2>. QED
    BY <1>2, <2>1, <2>2
<1>. QED
  BY <1>1, <1>2

\* The slot i places on, for any start.
LEMMA Around ==
  ASSUME NEW a \in Slot, NEW i \in 1..Capacity
  PROVE  (a + i - 1) % Capacity = IF a + i - 1 < Capacity THEN a + i - 1
                                                          ELSE a + i - 1 - Capacity
<1>. USE CapacityAssumption DEF CapacityAssumption, Slot
<1>1. PICK k \in Nat : k = a + i - 1 /\ k < 2 * Capacity
  OBVIOUS
<1>2. k % Capacity = IF k < Capacity THEN k ELSE k - Capacity
  BY <1>1, Wrap
<1>3. (a + i - 1) % Capacity = k % Capacity
  BY <1>1
<1>4. CASE k < Capacity
  BY <1>1, <1>2, <1>3, <1>4
<1>5. CASE ~(k < Capacity)
  BY <1>1, <1>2, <1>3, <1>5
<1>. QED
  BY <1>4, <1>5

\* The next slot is one on, or the first one after the last.
LEMMA NextSlotValue ==
  ASSUME NEW i \in Slot
  PROVE  /\ NextSlot(i) = IF i = Capacity - 1 THEN 0 ELSE i + 1
         /\ NextSlot(i) \in Slot
<1>. USE CapacityAssumption DEF CapacityAssumption, Slot
<1>1. i + 1 \in Nat /\ i + 1 < 2 * Capacity
  OBVIOUS
<1>2. (i + 1) % Capacity = IF i + 1 < Capacity THEN i + 1 ELSE (i + 1) - Capacity
  BY <1>1, Wrap
<1>. QED
  BY <1>2 DEF NextSlot

\* Two slots have two successors.
LEMMA NextSlotDiffers ==
  ASSUME NEW a \in Slot, NEW b \in Slot, a # b
  PROVE  NextSlot(a) # NextSlot(b)
BY NextSlotValue, CapacityAssumption DEF CapacityAssumption, Slot

\* The distance walked from a grows by one with every slot, until it is back at a.
LEMMA OneFurther ==
  ASSUME NEW a \in Slot, NEW b \in Slot, NextSlot(b) # a
  PROVE  Distance(a, NextSlot(b)) = Distance(a, b) + 1
BY NextSlotValue, CapacityAssumption DEF CapacityAssumption, Slot, Distance

\* A step of the consumer gives up the oldest slot.
LEMMA OneShorter ==
  ASSUME NEW a \in Slot, NEW b \in Slot, a # b
  PROVE  Distance(NextSlot(a), b) = Distance(a, b) - 1
BY NextSlotValue, CapacityAssumption DEF CapacityAssumption, Slot, Distance

\* A slot no further from a than b is not the free one after b.
LEMMA FreeStaysFree ==
  ASSUME NEW a \in Slot, NEW b \in Slot, NEW c \in Slot,
         Distance(a, c) <= Distance(a, b), NextSlot(b) # a
  PROVE  NextSlot(b) # c
BY NextSlotValue, CapacityAssumption DEF CapacityAssumption, Slot, Distance

\* The occupied part is empty when the indices meet, and full one slot before they do.
LEMMA DistanceRange ==
  ASSUME NEW a \in Slot, NEW b \in Slot
  PROVE  /\ Distance(a, b) \in 0..Capacity - 1
         /\ Distance(a, b) = 0 <=> a = b
         /\ Distance(a, b) = Capacity - 1 <=> NextSlot(b) = a
BY NextSlotValue, CapacityAssumption DEF CapacityAssumption, Slot, Distance

-----------------------------------------------------------------------------
(* The invariant.                                                          *)

\* The ring starts empty, both threads outside it.
LEMMA InitInv == Init => IInv
BY CapacityAssumption, BlockAssumption
DEF CapacityAssumption, BlockAssumption, Init, IInv, TypeOK, PushKeepsRoom, PopHasBlock,
    DiscardStaysInside, PushCopied, PopCopied, Block, ZeroBlock, Slot, Distance

\* Writing one field of a slot leaves an array of blocks.
LEMMA SlotTyped ==
  ASSUME NEW blocks \in [Slot -> Block], NEW i \in Slot, NEW e \in Epoch, NEW x \in Samples
  PROVE  /\ [blocks EXCEPT ![i].epoch = e] \in [Slot -> Block]
         /\ [blocks EXCEPT ![i].samples = x] \in [Slot -> Block]
BY DEF Block

\* One step per action of either thread.
LEMMA NextInv == IInv /\ [Next]_vars => IInv'
<1>. SUFFICES ASSUME IInv, [Next]_vars PROVE IInv'
  OBVIOUS
<1>. USE DEF IInv, PushKeepsRoom, PopHasBlock, DiscardStaysInside, PushCopied, PopCopied,
             producerVars, consumerVars
<1>1. ASSUME NEW b \in Block, PushBegin(b) PROVE IInv'
  <2>1. CASE PushIsFull
    <3>1. offered' \in [block : Block, accepted : BOOLEAN]
      <4>1. offered' = [block |-> b, accepted |-> FALSE]
        BY <1>1, <2>1 DEF PushBegin
      <4>. QED
        BY <1>1, <4>1
    <3>2. UNCHANGED <<m_blocks, m_read, m_write, pushPc, pushing, popPc, popped, seenWrite, taken>>
      BY <1>1, <2>1 DEF PushBegin
    <3>. QED
      BY <3>1, <3>2 DEF TypeOK
  <2>2. CASE ~PushIsFull
    <3>1. pushPc' = "epoch" /\ pushing' = b /\ offered' = offered
      BY <1>1, <2>2 DEF PushBegin
    <3>2. UNCHANGED <<m_blocks, m_read, m_write, popPc, popped, seenWrite, taken>>
      BY <1>1, <2>2 DEF PushBegin
    <3>3. TypeOK'
      BY <3>1, <3>2 DEF TypeOK
    <3>. QED
      BY <2>2, <3>1, <3>2, <3>3 DEF PushIsFull, NextSlot, Distance
  <2>. QED
    BY <2>1, <2>2
<1>2. CASE PushEpoch
  <2>1. m_blocks' \in [Slot -> Block]
    BY <1>2, SlotTyped DEF PushEpoch, TypeOK, Block
  <2>2. TypeOK'
    BY <1>2, <2>1 DEF PushEpoch, TypeOK
  <2>3. PopCopied'
    BY <1>2, <2>1 DEF PushEpoch, TypeOK
  <2>. QED
    BY <1>2, <2>2, <2>3 DEF PushEpoch, TypeOK
<1>3. CASE PushSamples
  <2>1. m_blocks' \in [Slot -> Block]
    BY <1>3, SlotTyped DEF PushSamples, TypeOK, Block
  <2>2. TypeOK'
    BY <1>3, <2>1 DEF PushSamples, TypeOK
  <2>3. PopCopied'
    BY <1>3, <2>1 DEF PushSamples, TypeOK
  <2>. QED
    BY <1>3, <2>2, <2>3 DEF PushSamples, TypeOK
<1>4. CASE PushPublish
  <2>1. m_write' = NextSlot(m_write) /\ m_write' \in Slot /\ m_write' # m_read
    BY <1>4, NextSlotValue DEF PushPublish, TypeOK
  <2>2. TypeOK'
    BY <1>4, <2>1 DEF PushPublish, TypeOK
  <2>3. popPc = "discard" => Distance(m_read, seenWrite) <= Distance(m_read, m_write')
    <3>1. Distance(m_read, m_write') = Distance(m_read, m_write) + 1
      BY <2>1, OneFurther DEF TypeOK
    <3>2. /\ Distance(m_read, m_write) \in Nat
          /\ Distance(m_read, seenWrite) \in Nat
      BY DistanceRange DEF TypeOK
    <3>. QED
      BY <3>1, <3>2
  <2>. QED
    BY <1>4, <2>1, <2>2, <2>3 DEF PushPublish
<1>5. CASE PopBegin
  BY <1>5 DEF PopBegin, TypeOK
<1>6. CASE PopEpoch
  BY <1>6 DEF PopEpoch, TypeOK, Block
<1>7. CASE PopSamples
  BY <1>7 DEF PopSamples, TypeOK, Block
<1>8. CASE PopPublish
  <2>1. m_read' = NextSlot(m_read) /\ m_read' \in Slot
    BY <1>8, NextSlotValue DEF PopPublish, TypeOK
  <2>2. ZeroBlock \in Block
    BY BlockAssumption DEF BlockAssumption, ZeroBlock, Block
  <2>3. TypeOK'
    BY <1>8, <2>1, <2>2 DEF PopPublish, TypeOK
  <2>4. pushPc # "idle" => NextSlot(m_write) # m_read'
    <3>1. m_read # m_write /\ m_read \in Slot /\ m_write \in Slot
      BY <1>8 DEF PopPublish, TypeOK
    <3>. QED
      BY <2>1, <3>1, NextSlotDiffers
  <2>. QED
    BY <1>8, <2>3, <2>4 DEF PopPublish
<1>9. CASE DiscardLoad
  <2>1. Distance(m_read, m_write) \in Nat
    BY DistanceRange DEF TypeOK
  <2>. QED
    BY <1>9, <2>1 DEF DiscardLoad, TypeOK
<1>10. CASE DiscardStore
  <2>1. pushPc # "idle" => NextSlot(m_write) # seenWrite
    BY <1>10, FreeStaysFree DEF DiscardStore, TypeOK
  <2>. QED
    BY <1>10, <2>1 DEF DiscardStore, TypeOK
<1>11. CASE UNCHANGED vars
  BY <1>11 DEF vars, TypeOK
<1>. QED
  BY <1>1, <1>2, <1>3, <1>4, <1>5, <1>6, <1>7, <1>8, <1>9, <1>10, <1>11
  DEF Next, Producer, Consumer

\* Types, and every strengthening the exclusion rests on.
THEOREM InvCorrect == Spec => []IInv
<1>. QED
  BY InitInv, NextInv, PTL DEF Spec

\* push() and pop() never have a hand in the same slot, for every capacity.
THEOREM ExclusionCorrect == Spec => []SlotExclusion
<1>1. IInv => SlotExclusion
  BY DEF IInv, PopHasBlock, SlotExclusion
<1>. QED
  BY InvCorrect, <1>1, PTL
-----------------------------------------------------------------------------
(* The ring implements BlockFifo.                                          *)

\* The slot that holds the i-th oldest block.
At(i) == (m_read + i - 1) % Capacity

\* The i-th oldest block is i - 1 slots on from m_read, around the end of the array.
LEMMA AtValue ==
  ASSUME TypeOK, NEW i \in 1..Distance(m_read, m_write)
  PROVE  /\ At(i) = IF m_read + i - 1 < Capacity THEN m_read + i - 1
                                                ELSE m_read + i - 1 - Capacity
         /\ At(i) \in Slot
         /\ At(i) # m_write
<1>. USE CapacityAssumption DEF CapacityAssumption, Slot
<1>1. m_read \in Slot /\ m_write \in Slot
  BY DEF TypeOK
<1>2. Distance(m_read, m_write) \in 0..Capacity - 1
  BY <1>1, DistanceRange
<1>3. i \in 1..Capacity
  BY <1>2
<1>4. At(i) = IF m_read + i - 1 < Capacity THEN m_read + i - 1
                                          ELSE m_read + i - 1 - Capacity
  BY <1>1, <1>3, Around DEF At
<1>. QED
  BY <1>1, <1>2, <1>4 DEF Distance

\* Contents is a sequence of blocks, as long as the occupied part of the ring.
LEMMA ContentsSeq ==
  ASSUME TypeOK
  PROVE  /\ Contents \in Seq(Block)
         /\ Len(Contents) = Distance(m_read, m_write)
         /\ Len(Contents) \in 0..Capacity - 1
         /\ \A i \in 1..Len(Contents) : Contents[i] = m_blocks[At(i)]
<1>. DEFINE n == Distance(m_read, m_write)
<1>1. n \in 0..Capacity - 1 /\ n \in Nat
  BY DistanceRange, CapacityAssumption DEF TypeOK, CapacityAssumption
<1>2. \A i \in 1..n : m_blocks[At(i)] \in Block
  BY AtValue DEF TypeOK
<1>3. Contents = [i \in 1..n |-> m_blocks[At(i)]]
  BY DEF Contents, At
<1>. HIDE DEF n
<1>4. Contents \in [1..n -> Block] /\ DOMAIN Contents = 1..n
  BY <1>2, <1>3
<1>5. Contents \in Seq(Block) /\ Len(Contents) = n
  BY <1>1, <1>4
<1>. QED
  BY <1>1, <1>3, <1>5 DEF n

\* Two arrays that agree on the same occupied slots hold the same sequence.
LEMMA SameContents ==
  ASSUME TypeOK, TypeOK', m_read' = m_read, m_write' = m_write,
         \A i \in 1..Distance(m_read, m_write) : m_blocks'[At(i)] = m_blocks[At(i)]
  PROVE  Contents' = Contents
BY DEF Contents, At, Distance

\* PushPublish appends the pushed block.
LEMMA PublishAppends ==
  ASSUME IInv, IInv', PushPublish
  PROVE  /\ Len(Contents) < Capacity - 1
         /\ Contents' = Append(Contents, pushing)
<1>. DEFINE n == Distance(m_read, m_write)
<1>1. TypeOK /\ TypeOK' /\ pushing \in Block
  BY DEF IInv, TypeOK, PushPublish
<1>2. /\ m_read' = m_read /\ m_blocks' = m_blocks
      /\ m_write' = NextSlot(m_write)
      /\ NextSlot(m_write) # m_read
  BY DEF PushPublish, IInv, PushKeepsRoom
<1>3. m_blocks[m_write] = pushing
  <2>1. /\ m_blocks[m_write].epoch = pushing.epoch
        /\ m_blocks[m_write].samples = pushing.samples
    BY DEF PushPublish, IInv, PushCopied
  <2>2. m_blocks[m_write] \in Block
    BY <1>1 DEF TypeOK
  <2>. QED
    BY <1>1, <2>1, <2>2 DEF Block
<1>4. n \in 0..Capacity - 1 /\ n # Capacity - 1
  BY <1>1, <1>2, DistanceRange DEF TypeOK
<1>5. Distance(m_read, m_write') = n + 1
  BY <1>1, <1>2, OneFurther DEF TypeOK
<1>6. /\ Contents \in Seq(Block) /\ Len(Contents) = n
      /\ \A i \in 1..n : Contents[i] = m_blocks[At(i)]
  BY <1>1, ContentsSeq
<1>7. Contents' = [i \in 1..n + 1 |-> m_blocks[At(i)]]
  BY <1>2, <1>5 DEF Contents, At
<1>8. At(n + 1) = m_write
  <2>1. m_read \in Slot /\ m_write \in Slot
    BY <1>1 DEF TypeOK
  <2>2. PICK k \in 1..Capacity : k = n + 1
    BY <1>4, CapacityAssumption DEF CapacityAssumption
  <2>3. At(k) = IF m_read + k - 1 < Capacity THEN m_read + k - 1
                                            ELSE m_read + k - 1 - Capacity
    BY <2>1, Around DEF At
  <2>. QED
    BY <2>1, <2>2, <2>3, CapacityAssumption DEF CapacityAssumption, Slot, Distance
<1>. HIDE DEF n
<1>9. Contents' \in Seq(Block) /\ Len(Contents') = n + 1
  <2>1. \A i \in 1..n + 1 : m_blocks[At(i)] \in Block
    BY <1>1, <1>3, <1>4, <1>6, <1>8, ElementOfSeq
  <2>2. Contents' \in [1..n + 1 -> Block] /\ DOMAIN Contents' = 1..n + 1
    BY <1>7, <2>1
  <2>. QED
    BY <1>4, <2>2
<1>10. \A i \in 1..n + 1 : Contents'[i] = Append(Contents, pushing)[i]
  <2>1. \A i \in 1..n : Append(Contents, pushing)[i] = Contents[i]
    BY <1>1, <1>6, AppendProperties
  <2>2. Append(Contents, pushing)[n + 1] = pushing
    BY <1>1, <1>6, AppendProperties
  <2>. QED
    BY <1>3, <1>4, <1>6, <1>7, <1>8, <2>1, <2>2
<1>11. Append(Contents, pushing) \in Seq(Block) /\ Len(Append(Contents, pushing)) = n + 1
  BY <1>1, <1>6, AppendProperties
<1>12. Contents' = Append(Contents, pushing)
  BY <1>9, <1>10, <1>11, SeqEqual
<1>. QED
  <2>1. Len(Contents) < Capacity - 1
    BY <1>4, <1>6, CapacityAssumption DEF CapacityAssumption
  <2>. QED
    BY <1>12, <2>1

\* Starting d slots on, the i-th slot is the one that was (i + d)-th.
LEMMA Shifted ==
  ASSUME NEW a \in Slot, NEW b \in Slot, NEW c \in Slot,
         Distance(a, c) <= Distance(a, b)
  PROVE  /\ Distance(c, b) = Distance(a, b) - Distance(a, c)
         /\ \A i \in 1..Distance(c, b) :
               (c + i - 1) % Capacity = (a + (i + Distance(a, c)) - 1) % Capacity
<1>. USE CapacityAssumption DEF CapacityAssumption, Slot
<1>1. Distance(c, b) = Distance(a, b) - Distance(a, c)
  BY DEF Distance
<1>2. ASSUME NEW i \in 1..Distance(c, b)
      PROVE  (c + i - 1) % Capacity = (a + (i + Distance(a, c)) - 1) % Capacity
  <2>1. /\ Distance(a, c) \in 0..Capacity - 1
        /\ Distance(a, b) \in 0..Capacity - 1
        /\ Distance(c, b) \in 0..Capacity - 1
    BY DistanceRange
  <2>2. i \in 1..Capacity
    BY <2>1
  <2>3. PICK j \in 1..Capacity : j = i + Distance(a, c)
    BY <1>1, <2>1
  <2>4. (c + i - 1) % Capacity = IF c + i - 1 < Capacity THEN c + i - 1
                                                         ELSE c + i - 1 - Capacity
    BY <2>2, Around
  <2>5. (a + j - 1) % Capacity = IF a + j - 1 < Capacity THEN a + j - 1
                                                         ELSE a + j - 1 - Capacity
    BY Around
  <2>6. (IF c + i - 1 < Capacity THEN c + i - 1 ELSE c + i - 1 - Capacity)
          = (IF a + j - 1 < Capacity THEN a + j - 1 ELSE a + j - 1 - Capacity)
    BY <1>1, <2>1, <2>2, <2>3 DEF Distance
  <2>. QED
    BY <2>3, <2>4, <2>5, <2>6
<1>. QED
  BY <1>1, <1>2

\* Moving m_read on to slot c drops the blocks before it, and only those.
LEMMA ReadDrops ==
  ASSUME TypeOK, NEW c \in Slot, Distance(m_read, c) <= Distance(m_read, m_write),
         m_read' = c, UNCHANGED <<m_blocks, m_write>>
  PROVE  Contents' = SubSeq(Contents, Distance(m_read, c) + 1, Len(Contents))
<1>. DEFINE n == Distance(m_read, m_write)
            d == Distance(m_read, c)
<1>1. m_read \in Slot /\ m_write \in Slot
  BY DEF TypeOK
<1>2. n \in Nat /\ d \in Nat /\ d <= n
  BY <1>1, DistanceRange
<1>3. Distance(c, m_write) = n - d
  BY <1>1, Shifted
<1>4. /\ Contents \in Seq(Block) /\ Len(Contents) = n
      /\ \A i \in 1..n : Contents[i] = m_blocks[(m_read + i - 1) % Capacity]
  BY ContentsSeq DEF At
<1>5. Contents' = [i \in 1..n - d |-> m_blocks[(c + i - 1) % Capacity]]
  BY <1>3 DEF Contents
<1>6. \A i \in 1..n - d : (c + i - 1) % Capacity = (m_read + (i + d) - 1) % Capacity
  BY <1>1, <1>3, Shifted
<1>. HIDE DEF n, d
<1>7. \A i \in 1..n - d : Contents'[i] = Contents[i + d]
  BY <1>2, <1>4, <1>5, <1>6
<1>8. Contents' \in Seq(Block) /\ Len(Contents') = n - d
  <2>1. \A i \in 1..n - d : m_blocks[(c + i - 1) % Capacity] \in Block
    BY <1>2, <1>4, <1>5, <1>7, ElementOfSeq
  <2>2. Contents' \in [1..n - d -> Block] /\ DOMAIN Contents' = 1..n - d
    BY <1>5, <2>1
  <2>. QED
    BY <1>2, <2>2
<1>9. /\ SubSeq(Contents, d + 1, n) \in Seq(Block)
      /\ Len(SubSeq(Contents, d + 1, n)) = n - d
      /\ \A i \in 1..n - d : SubSeq(Contents, d + 1, n)[i] = Contents[i + d]
  <2>1. \A i \in d + 1..n : Contents[i] \in Block
    BY <1>2, <1>4, ElementOfSeq
  <2>2. /\ SubSeq(Contents, d + 1, n) \in Seq(Block)
        /\ Len(SubSeq(Contents, d + 1, n)) = IF d + 1 <= n THEN n - (d + 1) + 1 ELSE 0
        /\ \A i \in 1..n - (d + 1) + 1 : SubSeq(Contents, d + 1, n)[i]
                                             = Contents[d + 1 + i - 1]
    BY <1>2, <2>1, SubSeqProperties
  <2>. QED
    BY <1>2, <2>2
<1>10. Contents' = SubSeq(Contents, d + 1, n)
  BY <1>7, <1>8, <1>9, SeqEqual
<1>. QED
  BY <1>4, <1>10 DEF d

-----------------------------------------------------------------------------
(* The refinement, step by step.                                           *)

\* An empty ring is an empty buffer.
LEMMA InitRefines == Init => Fifo!Init
<1>. SUFFICES ASSUME Init PROVE Fifo!Init
  OBVIOUS
<1>1. TypeOK /\ Distance(m_read, m_write) = 0
  BY InitInv, CapacityAssumption DEF IInv, Init, Distance, CapacityAssumption
<1>2. Contents \in Seq(Block) /\ Len(Contents) = 0
  BY <1>1, ContentsSeq
<1>3. Contents = <<>>
  BY <1>2, EmptySeq
<1>. QED
  BY <1>3 DEF Init, Fifo!Init

\* The two copy steps of push() write the free slot only: the buffer does not see them.
LEMMA CopyIsHidden ==
  ASSUME IInv, IInv', PushEpoch \/ PushSamples
  PROVE  Contents' = Contents
<1>1. TypeOK /\ TypeOK'
  BY DEF IInv
<1>2. m_read' = m_read /\ m_write' = m_write
  BY DEF PushEpoch, PushSamples
<1>3. \A i \in Slot : i # m_write => m_blocks'[i] = m_blocks[i]
  BY <1>1 DEF PushEpoch, PushSamples, TypeOK
<1>4. \A i \in 1..Distance(m_read, m_write) : m_blocks'[At(i)] = m_blocks[At(i)]
  BY <1>1, <1>3, AtValue
<1>. QED
  BY <1>1, <1>2, <1>4, SameContents

\* pop() returns the oldest block, whole and unchanged, and removes it.
LEMMA PublishTakes ==
  ASSUME IInv, IInv', PopPublish
  PROVE  Fifo!Take
<1>1. TypeOK /\ m_read # m_write /\ popped \in Block
  BY DEF IInv, TypeOK, PopHasBlock, PopPublish
<1>2. /\ NextSlot(m_read) \in Slot /\ m_read' = NextSlot(m_read)
      /\ m_read \in Slot /\ m_write \in Slot
      /\ UNCHANGED <<m_blocks, m_write, offered>> /\ taken' = popped
  BY <1>1, NextSlotValue DEF PopPublish, TypeOK, producerVars
<1>3. Distance(m_read, m_write) \in Nat /\ Distance(m_read, m_write) # 0
  BY <1>2, <1>1, DistanceRange
<1>4. Distance(m_read, NextSlot(m_read)) = 1
  BY <1>2, NextSlotValue, CapacityAssumption DEF CapacityAssumption, Slot, Distance
<1>5. Contents' = SubSeq(Contents, 2, Len(Contents))
  <2>1. Distance(m_read, NextSlot(m_read)) <= Distance(m_read, m_write)
    BY <1>3, <1>4
  <2>2. Contents' = SubSeq(Contents, Distance(m_read, NextSlot(m_read)) + 1, Len(Contents))
    BY <1>1, <1>2, <2>1, ReadDrops
  <2>. QED
    BY <1>4, <2>2
<1>6. /\ Contents \in Seq(Block) /\ Len(Contents) = Distance(m_read, m_write)
      /\ \A i \in 1..Len(Contents) : Contents[i] = m_blocks[At(i)]
  BY <1>1, ContentsSeq
<1>7. Contents # <<>>
  BY <1>3, <1>6, EmptySeq
<1>8. Contents' = Tail(Contents)
  BY <1>5, <1>6, <1>7, TailIsSubSeq
<1>9. Head(Contents) = m_blocks[m_read]
  <2>1. At(1) = m_read
    <3>1. 1 \in 1..Distance(m_read, m_write)
      BY <1>3
    <3>2. At(1) = IF m_read + 1 - 1 < Capacity THEN m_read + 1 - 1
                                              ELSE m_read + 1 - 1 - Capacity
      BY <1>1, <3>1, AtValue
    <3>. QED
      BY <1>2, <3>2, CapacityAssumption DEF CapacityAssumption, Slot
  <2>. QED
    BY <1>3, <1>6, <1>7, <2>1
<1>10. popped = m_blocks[m_read]
  <2>1. /\ popped.epoch = m_blocks[m_read].epoch
        /\ popped.samples = m_blocks[m_read].samples
    BY DEF IInv, PopCopied, PopPublish
  <2>2. m_blocks[m_read] \in Block
    BY <1>1, <1>2 DEF TypeOK
  <2>. QED
    BY <1>1, <2>1, <2>2 DEF Block
<1>. QED
  BY <1>2, <1>7, <1>8, <1>9, <1>10 DEF Fifo!Take

\* Every step of the two threads is one step of the buffer, or none.
LEMMA NextRefines == IInv /\ IInv' /\ [Next]_vars => [Fifo!Next]_(Fifo!fifoVars)
<1>. SUFFICES ASSUME IInv, IInv', [Next]_vars
              PROVE  [Fifo!Next]_(Fifo!fifoVars)
  OBVIOUS
<1>. USE DEF producerVars, consumerVars
<1>0. TypeOK /\ TypeOK'
  BY DEF IInv
<1>1. ASSUME NEW b \in Block, PushBegin(b) PROVE [Fifo!Next]_(Fifo!fifoVars)
  <2>1. Contents' = Contents /\ taken' = taken
    BY <1>0, <1>1, SameContents DEF PushBegin
  <2>2. CASE PushIsFull
    <3>1. offered' = [block |-> b, accepted |-> FALSE]
      BY <1>1, <2>2 DEF PushBegin
    <3>2. Len(Contents) = Capacity - 1
      BY <1>0, <2>2, ContentsSeq, DistanceRange DEF PushIsFull, TypeOK
    <3>3. Fifo!Refuse(b)
      BY <2>1, <3>1, <3>2 DEF Fifo!Refuse
    <3>. QED
      BY <1>1, <3>3 DEF Fifo!Next
  <2>3. CASE ~PushIsFull
    <3>1. offered' = offered
      BY <1>1, <2>3 DEF PushBegin
    <3>. QED
      BY <2>1, <3>1 DEF Fifo!fifoVars
  <2>. QED
    BY <2>2, <2>3
<1>2. CASE PushEpoch \/ PushSamples
  BY <1>2, CopyIsHidden DEF PushEpoch, PushSamples, Fifo!fifoVars
<1>3. CASE PushPublish
  <2>1. pushing \in Block /\ Len(Contents) < Capacity - 1
    BY <1>0, <1>3, PublishAppends DEF TypeOK, PushPublish
  <2>2. Fifo!Accept(pushing)
    BY <1>3, <2>1, PublishAppends DEF PushPublish, Fifo!Accept
  <2>. QED
    BY <2>1, <2>2 DEF Fifo!Next
<1>4. CASE PopBegin \/ PopEpoch \/ PopSamples \/ DiscardLoad \/ UNCHANGED vars
  <2>1. UNCHANGED <<m_blocks, m_read, m_write, offered, taken>>
    BY <1>4 DEF PopBegin, PopEpoch, PopSamples, DiscardLoad, vars
  <2>2. Contents' = Contents
    BY <1>0, <2>1, SameContents
  <2>. QED
    BY <2>1, <2>2 DEF Fifo!fifoVars
<1>5. CASE PopPublish
  BY <1>5, PublishTakes DEF Fifo!Next
<1>6. CASE DiscardStore
  <2>1. /\ m_read' = seenWrite /\ seenWrite \in Slot
        /\ Distance(m_read, seenWrite) <= Distance(m_read, m_write)
        /\ UNCHANGED <<m_blocks, m_write, offered, taken>>
    BY <1>0, <1>6 DEF DiscardStore, IInv, DiscardStaysInside, TypeOK
  <2>2. Contents' = SubSeq(Contents, Distance(m_read, seenWrite) + 1, Len(Contents))
    BY <1>0, <2>1, ReadDrops
  <2>3. Distance(m_read, seenWrite) \in 0..Len(Contents)
    BY <1>0, <2>1, ContentsSeq, DistanceRange DEF TypeOK
  <2>4. Fifo!DropOldest(Distance(m_read, seenWrite))
    BY <2>1, <2>2 DEF Fifo!DropOldest
  <2>. QED
    BY <2>3, <2>4 DEF Fifo!Next
<1>. QED
  BY <1>1, <1>2, <1>3, <1>4, <1>5, <1>6 DEF Next, Producer, Consumer

\* The ring is a bounded FIFO for every capacity: a push is refused exactly when it is full, a
\* pop returns the oldest block whole, a discard drops from the old end only.
THEOREM FifoCorrect == Spec => ImplementsFifo
<1>. QED
  BY InvCorrect, InitRefines, NextRefines, PTL DEF Spec, ImplementsFifo, Fifo!Spec
=============================================================================
