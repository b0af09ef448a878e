------------------------------ MODULE OneCaller ------------------------------
(***************************************************************************)
(* The session of a DpdfnetProcessor whose owner makes one call at a time. *)
(***************************************************************************)
EXTENDS DpdfnetSession

VARIABLE call  \* the place of the call in progress

Init ==
  /\ status = "none"
  /\ loaded = FALSE
  /\ call = "none"

\* The owner prepares only a processor that is not ready.
Begins ==
  /\ call = "none"
  /\ call' \in {"replacing", "stopping"}
  /\ call' = "replacing" => ~isReady
  /\ UNCHANGED <<status, loaded>>

Next ==
  \/ (Fails \/ Publishes(call)) /\ UNCHANGED call
  \/ Begins
  \/ Step(call, call')

Spec == Init /\ [][Next]_<<status, loaded, call>>
=============================================================================
