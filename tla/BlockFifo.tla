------------------------------ MODULE BlockFifo ------------------------------
(***************************************************************************)
(* What TaggedBlockQueue promises its two users: a bounded first-in        *)
(* first-out buffer of whole blocks.  A push is refused exactly when the   *)
(* buffer is full, a pop returns the oldest block, unchanged, and a        *)
(* discard drops blocks from the old end only.  Every call takes effect    *)
(* at once: there is no slot, no index and no half-copied block here.      *)
(***************************************************************************)
EXTENDS Naturals, Sequences

CONSTANTS
  Block,   \* the blocks a producer may push
  Limit,   \* how many blocks the buffer holds
  NoBlock  \* "nothing yet"

VARIABLES
  fifo,    \* the blocks in the buffer, oldest first
  offered, \* the outcome of the producer's last push
  taken    \* the block the consumer's last pop returned

fifoVars == <<fifo, offered, taken>>

Init ==
  /\ fifo = <<>>
  /\ offered = NoBlock
  /\ taken = NoBlock

Accept(b) ==
  /\ Len(fifo) < Limit
  /\ fifo' = Append(fifo, b)
  /\ offered' = [block |-> b, accepted |-> TRUE]
  /\ UNCHANGED taken

Refuse(b) ==
  /\ Len(fifo) = Limit
  /\ offered' = [block |-> b, accepted |-> FALSE]
  /\ UNCHANGED <<fifo, taken>>

Take ==
  /\ fifo # <<>>
  /\ taken' = Head(fifo)
  /\ fifo' = Tail(fifo)
  /\ UNCHANGED offered

DropOldest(n) ==
  /\ fifo' = SubSeq(fifo, n + 1, Len(fifo))
  /\ UNCHANGED <<offered, taken>>

Next ==
  \/ \E b \in Block : Accept(b) \/ Refuse(b)
  \/ Take
  \/ \E n \in 0..Len(fifo) : DropOldest(n)

Spec == Init /\ [][Next]_fifoVars
=============================================================================
