--------------------------- MODULE DpdfnetSession ---------------------------
(***************************************************************************)
(* What the owner of a DpdfnetProcessor can see of it: the answers of its  *)
(* queries, whether the native session is in memory, and how a call of     *)
(* prepare(), or of a function that ends in stopWorker(), moves the two.   *)
(* A step leads from one place of a call to the next:                      *)
(*                                                                         *)
(*   none        outside a call                                            *)
(*   replacing   prepare() stops what there was before                     *)
(*   loading     prepare() loads the library and creates the session       *)
(*   warming     prepare() waits for the worker's warm-up                  *)
(*   stopping    the session is stopped: by a release, by the destructor,  *)
(*               or because prepare() has to undo it                       *)
(*                                                                         *)
(* DpdfnetProcessor implements these steps for one caller (OneCaller);     *)
(* DenoisePipeline takes them for each of its threads.                     *)
(***************************************************************************)

VARIABLES
  status,  \* isReady(), hasFailed() and workerAbandoned() in one value
  loaded   \* the native session exists

Status == {"none", "ready", "failed", "abandoned"}
Place == {"none", "replacing", "loading", "warming", "stopping"}

isReady == status = "ready"
hasFailed == status \in {"failed", "abandoned"}

-----------------------------------------------------------------------------
(* The worker, whatever the caller does.                                   *)

\* failWorker(), for the first time.
Fails ==
  /\ loaded /\ status \in {"none", "ready"}
  /\ status' = "failed"
  /\ UNCHANGED loaded

\* The end of a good warm-up.  A prepare() that has waited too long may by
\* then be stopping the worker again.
Publishes(place) ==
  /\ place \in {"warming", "stopping"}
  /\ loaded /\ status = "none"
  /\ status' = "ready"
  /\ UNCHANGED loaded

-----------------------------------------------------------------------------
(* The caller, from one place of its call to another.                      *)

\* stopWorker() takes the readiness back ...
Withdraws(from, to) ==
  /\ from \in {"replacing", "stopping"} /\ to = from
  /\ isReady
  /\ status' = "none"
  /\ UNCHANGED loaded

\* ... and frees the session, or gives the worker up with all it may use.
Frees(from, to) ==
  /\ from \in {"replacing", "stopping"} /\ to = from
  /\ loaded /\ status # "abandoned"
  /\ loaded' = FALSE
  /\ UNCHANGED status

Abandons(from, to) ==
  /\ from \in {"replacing", "stopping"} /\ to = "none"
  /\ loaded /\ status # "abandoned"
  /\ status' = "abandoned"
  /\ UNCHANGED loaded

\* prepare() forgets the last failure.
Clears(from, to) ==
  /\ from = "replacing" /\ to = "loading"
  /\ ~loaded /\ status # "abandoned"
  /\ status' = "none"
  /\ UNCHANGED loaded

\* The session is created, and warmed up if it is as the contract has it.
Loads(from, to) ==
  /\ from = "loading" /\ to \in {"warming", "stopping"}
  /\ loaded' = TRUE
  /\ UNCHANGED status

\* The warm-up failed, or took too long.
Undoes(from, to) ==
  /\ from = "warming" /\ to = "stopping"
  /\ UNCHANGED <<status, loaded>>

\* prepare() has nothing to serve with: it refuses to replace an abandoned
\* session, or could not create one.
Refuses(from, to) ==
  /\ \/ from = "replacing" /\ status = "abandoned"
     \/ from = "loading"
  /\ to = "none"
  /\ UNCHANGED <<status, loaded>>

Succeeds(from, to) ==
  /\ from = "warming" /\ to = "none"
  /\ isReady
  /\ UNCHANGED <<status, loaded>>

\* stopWorker() ends, and takes back once more what has been published since.
Stopped(from, to) ==
  /\ from = "stopping" /\ to = "none"
  /\ ~loaded \/ status = "abandoned"
  /\ status' = IF isReady THEN "none" ELSE status
  /\ UNCHANGED loaded

Step(from, to) ==
  \/ Withdraws(from, to) \/ Frees(from, to) \/ Abandons(from, to) \/ Clears(from, to)
  \/ Loads(from, to) \/ Undoes(from, to) \/ Refuses(from, to) \/ Succeeds(from, to)
  \/ Stopped(from, to)
=============================================================================
