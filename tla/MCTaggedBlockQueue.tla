------------------------- MODULE MCTaggedBlockQueue -------------------------
(* TLC instance of TaggedBlockQueue.                                       *)
EXTENDS TaggedBlockQueue

=============================================================================
