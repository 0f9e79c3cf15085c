---------------------------- MODULE RunLifecycle ----------------------------
(***************************************************************************)
(* What one row of the `runs` table promises to everybody who reads it     *)
(* (the run list, the event stream, the certificate, the badge): a run is  *)
(* queued, runs, records the verdict of one attempt after another, and     *)
(* concludes once, with a status that its recorded attempts support.       *)
(* Nothing is said of tests, reviews, events or crashes: Pipeline.tla      *)
(* shows that app/pipeline.py, with all of those, is one such run.         *)
(***************************************************************************)
EXTENDS Naturals

CONSTANT MaxAttempts    \* the largest max_attempts a caller may ask for

VARIABLES
  status,     \* runs.final_status
  budget,     \* the run's max_attempts
  recorded,   \* how many rows of the attempts table belong to the run
  passed      \* whether one of them has success = 1

vars == <<status, budget, recorded, passed>>

Active == {"queued", "running"}
Terminal == {"success", "failed", "max_retries_exceeded", "early_stopped"}

TypeOK ==
  /\ status \in Active \cup Terminal
  /\ budget \in 1..MaxAttempts
  /\ recorded \in Nat
  /\ passed \in BOOLEAN

Init ==
  /\ status = "queued"
  /\ budget \in 1..MaxAttempts
  /\ recorded = 0
  /\ passed = FALSE

Begin ==
  /\ status = "queued"
  /\ status' = "running"
  /\ UNCHANGED <<budget, recorded, passed>>

(* Nothing is attempted after an attempt that passed, or over the budget.  *)
Record(ok) ==
  /\ status = "running"
  /\ ~passed
  /\ recorded < budget
  /\ recorded' = recorded + 1
  /\ passed' = ok
  /\ UNCHANGED <<status, budget>>

(* "failed" needs no support: it also stands for an internal error or a    *)
(* restart of the server.                                                  *)
Supported(s) ==
  /\ s = "success"              => passed
  /\ s = "max_retries_exceeded" => ~passed /\ recorded = budget
  /\ s = "early_stopped"        => ~passed /\ recorded > 0

Conclude(s) ==
  /\ status \in Active
  /\ s # "failed" => status = "running"
  /\ Supported(s)
  /\ status' = s
  /\ UNCHANGED <<budget, recorded, passed>>

Next ==
  \/ Begin
  \/ \E ok \in BOOLEAN : Record(ok)
  \/ \E s \in Terminal : Conclude(s)

Spec == Init /\ [][Next]_vars

=============================================================================
