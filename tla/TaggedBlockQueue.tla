-------------------------- MODULE TaggedBlockQueue --------------------------
(***************************************************************************)
(* dsp/tagged_block_queue.h: the lock-free single-producer single-consumer *)
(* ring that carries epoch-tagged audio blocks between the WASAPI render   *)
(* thread and the DPDFNet worker.  There is one instance per direction;    *)
(* render produces for one and consumes from the other.                    *)
(*                                                                         *)
(* Each load, each store and each half of a slot's copy is a step, so the  *)
(* two threads interleave inside push, pop and discardAll.  The loads are  *)
(* acquire and the stores release, which is why an interleaving of whole   *)
(* steps is a sound model of the two threads.                              *)
(***************************************************************************)
EXTENDS Integers, Sequences

CONSTANTS
  Capacity, \* slots of the ring (QUEUE_CAPACITY = 32 in the program)
  Epoch,    \* stream epochs a block may be tagged with
  Samples,  \* the 480-sample payloads, told apart only by identity
  Silence,  \* the payload of a slot nothing was written to
  NoBlock

ASSUME CapacityAssumption == Capacity \in Nat \ {0, 1}

Block == [epoch : Epoch, samples : Samples]

ASSUME BlockAssumption ==
  /\ 0 \in Epoch
  /\ Silence \in Samples
  /\ NoBlock \notin Block

\* A value-initialised Block.
ZeroBlock == [epoch |-> 0, samples |-> Silence]

Slot == 0..Capacity - 1

VARIABLES
  m_blocks, \* the slots
  m_read,   \* next slot to pop; stored by the consumer only
  m_write,  \* next slot to push; stored by the producer only
  pushPc,   \* where the producer is inside push()
  pushing,  \* the block the producer is pushing
  popPc,    \* where the consumer is inside pop() or discardAll()
  popped,   \* the consumer's local block while pop() copies into it
  seenWrite,\* the m_write value discardAll() loaded
  offered,  \* outcome of the last push
  taken     \* block returned by the last pop

producerVars == <<pushPc, pushing, offered>>
consumerVars == <<popPc, popped, seenWrite, taken>>
vars == <<m_blocks, m_read, m_write, producerVars, consumerVars>>

\* The two index computations of push and pop: one slot on, around the ring.
NextSlot(i) == (i + 1) % Capacity

\* The slots from a up to b, walking forwards around the ring.
Distance(a, b) == IF a <= b THEN b - a ELSE b - a + Capacity

Init ==
  /\ m_blocks = [i \in Slot |-> ZeroBlock]
  /\ m_read = 0
  /\ m_write = 0
  /\ pushPc = "idle"
  /\ pushing = NoBlock
  /\ offered = NoBlock
  /\ popPc = "idle"
  /\ popped = ZeroBlock
  /\ seenWrite = 0
  /\ taken = NoBlock

-----------------------------------------------------------------------------
(* The producer: push(epoch, samples).                                     *)

PushIsFull_Never == FALSE
PushIsFull == NextSlot(m_write) = m_read

PushBegin(b) ==
  /\ pushPc = "idle"
  /\ IF PushIsFull
       THEN /\ offered' = [block |-> b, accepted |-> FALSE]
            /\ UNCHANGED <<pushPc, pushing>>
       ELSE /\ pushPc' = "epoch"
            /\ pushing' = b
            /\ UNCHANGED offered
  /\ UNCHANGED <<m_blocks, m_read, m_write, consumerVars>>

PushEpoch_Only ==
  /\ pushPc = "epoch"
  /\ m_blocks' = [m_blocks EXCEPT ![m_write].epoch = pushing.epoch]
  /\ pushPc' = "publish"
  /\ UNCHANGED <<m_read, m_write, pushing, offered, consumerVars>>

PushEpoch ==
  /\ pushPc = "epoch"
  /\ m_blocks' = [m_blocks EXCEPT ![m_write].epoch = pushing.epoch]
  /\ pushPc' = "samples"
  /\ UNCHANGED <<m_read, m_write, pushing, offered, consumerVars>>

PushSamples ==
  /\ pushPc = "samples"
  /\ m_blocks' = [m_blocks EXCEPT ![m_write].samples = pushing.samples]
  /\ pushPc' = "publish"
  /\ UNCHANGED <<m_read, m_write, pushing, offered, consumerVars>>

PushPublish ==
  /\ pushPc = "publish"
  /\ m_write' = NextSlot(m_write)
  /\ offered' = [block |-> pushing, accepted |-> TRUE]
  /\ pushPc' = "idle"
  /\ pushing' = NoBlock
  /\ UNCHANGED <<m_blocks, m_read, consumerVars>>

Producer ==
  \/ \E b \in Block : PushBegin(b)
  \/ PushEpoch
  \/ PushSamples
  \/ PushPublish

-----------------------------------------------------------------------------
(* The consumer: pop(block) and discardAll().                              *)

\* An empty ring makes pop() return false and change nothing.
PopBegin ==
  /\ popPc = "idle"
  /\ m_read # m_write
  /\ popPc' = "epoch"
  /\ UNCHANGED <<m_blocks, m_read, m_write, popped, seenWrite, taken, producerVars>>

PopEpoch ==
  /\ popPc = "epoch"
  /\ popped' = [popped EXCEPT !.epoch = m_blocks[m_read].epoch]
  /\ popPc' = "samples"
  /\ UNCHANGED <<m_blocks, m_read, m_write, seenWrite, taken, producerVars>>

PopSamples ==
  /\ popPc = "samples"
  /\ popped' = [popped EXCEPT !.samples = m_blocks[m_read].samples]
  /\ popPc' = "publish"
  /\ UNCHANGED <<m_blocks, m_read, m_write, seenWrite, taken, producerVars>>

PopPublish ==
  /\ popPc = "publish"
  /\ m_read' = NextSlot(m_read)
  /\ taken' = popped
  /\ popped' = ZeroBlock
  /\ popPc' = "idle"
  /\ UNCHANGED <<m_blocks, m_write, seenWrite, producerVars>>

DiscardLoad ==
  /\ popPc = "idle"
  /\ seenWrite' = m_write
  /\ popPc' = "discard"
  /\ UNCHANGED <<m_blocks, m_read, m_write, popped, taken, producerVars>>

DiscardStore ==
  /\ popPc = "discard"
  /\ m_read' = seenWrite
  /\ popPc' = "idle"
  /\ UNCHANGED <<m_blocks, m_write, popped, seenWrite, taken, producerVars>>

Consumer ==
  \/ PopBegin
  \/ PopEpoch
  \/ PopSamples
  \/ PopPublish
  \/ DiscardLoad
  \/ DiscardStore

Next == Producer \/ Consumer

Spec == Init /\ [][Next]_vars

-----------------------------------------------------------------------------
(* Properties.                                                             *)

TypeOK ==
  /\ m_blocks \in [Slot -> Block]
  /\ m_read \in Slot
  /\ m_write \in Slot
  /\ seenWrite \in Slot
  /\ pushPc \in {"idle", "epoch", "samples", "publish"}
  /\ popPc \in {"idle", "epoch", "samples", "publish", "discard"}
  /\ pushing \in Block \cup {NoBlock}
  /\ pushPc # "idle" => pushing \in Block
  /\ popped \in Block
  /\ taken \in Block \cup {NoBlock}
  /\ offered \in [block : Block, accepted : BOOLEAN] \cup {NoBlock}

\* push() copies into slot m_write while pop() copies out of slot m_read.
\* The two copies never meet in a slot, though neither thread can see that
\* the other one is inside its copy.
SlotExclusion ==
  pushPc # "idle" /\ popPc \in {"epoch", "samples", "publish"} => m_read # m_write

\* The room a push in flight counts on stays: whatever the consumer does in
\* the meantime, publishing the block never makes a full ring look empty.
PushKeepsRoom ==
  pushPc # "idle" => NextSlot(m_write) # m_read

\* discardAll() stores an m_write value it loaded earlier.  That value is
\* still inside the occupied part of the ring, so the store never moves
\* m_read past a block pushed in between.
DiscardStaysInside ==
  popPc = "discard" => Distance(m_read, seenWrite) <= Distance(m_read, m_write)

\* The blocks pushed and not yet popped, oldest first.
Contents ==
  [i \in 1..Distance(m_read, m_write) |-> m_blocks[(m_read + i - 1) % Capacity]]

\* The ring implements the bounded FIFO: it holds Capacity - 1 blocks.
Fifo == INSTANCE BlockFifo WITH fifo <- Contents, Limit <- Capacity - 1

ImplementsFifo == Fifo!Spec
=============================================================================
