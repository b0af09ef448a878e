------------------------- MODULE MCMicUsageMonitor -------------------------
(* TLC instances of MicUsageMonitor.                                       *)
EXTENDS MicUsageMonitor

=============================================================================
