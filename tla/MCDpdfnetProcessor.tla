------------------------- MODULE MCDpdfnetProcessor -------------------------
(* TLC instances of DpdfnetProcessor.                                      *)
EXTENDS DpdfnetProcessor

=============================================================================
