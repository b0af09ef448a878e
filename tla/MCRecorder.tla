----------------------------- MODULE MCRecorder -----------------------------
(* TLC instances of Recorder.                                              *)
EXTENDS Recorder

=============================================================================
