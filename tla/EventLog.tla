------------------------------ MODULE EventLog ------------------------------
(***************************************************************************)
(* What a reader of a run's events may rely on (the rows of run_events     *)
(* beside the status of the run): events are only ever appended; all but   *)
(* the last come while the run is active; run_finished comes last, after   *)
(* the status is final, or never - events are best effort, and a process   *)
(* that dies writes none.  Pipeline.tla implements this.                   *)
(***************************************************************************)
EXTENDS Naturals, Sequences

VARIABLES
  status,   \* runs.final_status: "active" stands for queued and running
  log,      \* the rows of run_events: TRUE is run_finished, FALSE any other
  writer,   \* the run's worker: "open", "closing" (status final) or "closed"
  alive     \* the server process is running

logVars == <<status, log, writer, alive>>

LogInit ==
  /\ status = "active" /\ log = <<>> /\ writer = "open" /\ alive = TRUE

Announce ==
  /\ writer = "open"
  /\ log' = Append(log, FALSE)
  /\ UNCHANGED <<status, writer, alive>>

(* The final status is committed before run_finished is emitted.           *)
Conclude ==
  /\ writer = "open"
  /\ status' = "final"
  /\ writer' = "closing"
  /\ UNCHANGED <<log, alive>>

AnnounceFinish ==
  /\ writer = "closing"
  /\ log' = Append(log, TRUE)
  /\ writer' = "closed"
  /\ UNCHANGED <<status, alive>>

(* The insert of run_finished fails, or the last update raised before it.  *)
Fall ==
  /\ writer # "closed"
  /\ writer' = "closed"
  /\ UNCHANGED <<status, log, alive>>

Die ==
  /\ alive
  /\ alive' = FALSE
  /\ writer' = "closed"
  /\ UNCHANGED <<status, log>>

(* recover_interrupted_runs closes an active row and announces nothing.    *)
Recover ==
  /\ ~alive
  /\ alive' = TRUE
  /\ status' = "final"
  /\ UNCHANGED <<log, writer>>

LogNext == Announce \/ Conclude \/ AnnounceFinish \/ Fall \/ Die \/ Recover

LogSpec == LogInit /\ [][LogNext]_logVars

=============================================================================
