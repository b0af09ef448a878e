-------------------------- MODULE MCDenoisePipeline --------------------------
(* TLC instances of DenoisePipeline.                                       *)
EXTENDS DenoisePipeline

=============================================================================
