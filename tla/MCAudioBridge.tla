--------------------------- MODULE MCAudioBridge ---------------------------
(* AudioBridge with small limits, one device or two.                       *)
EXTENDS AudioBridge
CONSTANTS d1, d2
=============================================================================
