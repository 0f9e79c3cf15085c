--------------------------- MODULE ExecuteEndpoint --------------------------
(***************************************************************************)
(* POST /execute/{run_id} (app/main.py 282-340) beside the worker of the   *)
(* same run.  A call runs one stored program again, without the spec       *)
(* tests, and writes an attempt and a status.  It is a plain function that *)
(* FastAPI runs on a thread of its own, so calls interleave with the       *)
(* worker and with each other between any two database transactions.       *)
(*                                                                         *)
(* Rows inserted here have tests = 0: run_code is given the program alone. *)
(***************************************************************************)
EXTENDS Pipeline, FiniteSets

CONSTANT Callers    \* clients of /execute, each making at most one call (a bound)

ASSUME ExecuteAssumption == IsFiniteSet(Callers)

VARIABLES
  call,         \* per caller: where its call is, and what it has computed
  overlapped    \* history: some call began beside the worker or another call

executeVars == <<vars, call, overlapped>>

Rest(c) == call[c].at \in {"idle", "returned", "refused", "dead"}

Numbers == {attempts[i].number : i \in DOMAIN attempts}

ExecuteInit ==
  /\ Init
  /\ call = [c \in Callers |-> [at |-> "idle", number |-> 0, code |-> NoCode,
                                ok |-> FALSE]]
  /\ overlapped = FALSE

ExecuteUnchanged == UNCHANGED <<events, stored, loop, review, env, pc, result>>

(* Nobody else writes to the run: no worker, no other call.                *)
Alone == pc \in Halted /\ \A d \in Callers : Rest(d)

NumberFromTotal == run.total + 1    \* slip: trusts the counter of the run

(* The number is computed here, from the rows read before the sandbox run  *)
(* (line 292), and used when the row is inserted after it.                 *)
NextNumber == 1 + CHOOSE n \in Numbers : \A m \in Numbers : m <= n

(* The program run is the one of the attempt asked for, or of the last.    *)
Load(c) ==
  /\ call[c].at = "idle" /\ up
  /\ overlapped' = (overlapped \/ ~Alone)
  /\ IF attempts = <<>>
     THEN call' = [call EXCEPT ![c].at = "refused"]
     ELSE \E i \in DOMAIN attempts :
            call' = [call EXCEPT ![c] = [at |-> "run", number |-> NextNumber,
                                         code |-> attempts[i].code, ok |-> FALSE]]
  /\ UNCHANGED <<rows, verified, faults>> /\ ExecuteUnchanged

(* run_code: success is a clean exit.                                      *)
RunCode(c) ==
  /\ call[c].at = "run"
  /\ \E ok \in BOOLEAN :
       /\ call' = [call EXCEPT ![c].at = "insert", ![c].ok = ok]
       /\ Accept(call[c].code, 0, ok)
  /\ UNCHANGED <<rows, faults>> /\ ExecuteUnchanged

InsertExecution(c) ==
  /\ call[c].at = "insert"
  /\ attempts' = Append(attempts, [number |-> call[c].number, passed |-> call[c].ok,
                                   code |-> call[c].code, tests |-> 0])
  /\ call' = [call EXCEPT ![c].at = "status"]
  /\ UNCHANGED <<run, verified, faults>> /\ ExecuteUnchanged

UpdateStatus(c) ==
  /\ call[c].at = "status"
  /\ run' = [run EXCEPT !.status = IF call[c].ok THEN "success" ELSE "failed",
                        !.total = call[c].number]
  /\ call' = [call EXCEPT ![c].at = "returned"]
  /\ UNCHANGED <<attempts, verified, faults>> /\ ExecuteUnchanged

ExecuteGoesOn(c) ==         \* slip: a failing insert is only logged
  /\ call[c].at \in {"insert", "status"}
  /\ Fault("db")
  /\ call' = [call EXCEPT ![c].at = IF call[c].at = "insert" THEN "status"
                                    ELSE "returned"]
  /\ UNCHANGED <<rows, verified>> /\ ExecuteUnchanged

(* Either transaction may raise: the caller gets a 500, and what was       *)
(* committed before stays.                                                 *)
ExecuteFails(c) ==
  /\ call[c].at \in {"insert", "status"}
  /\ Fault("db")
  /\ call' = [call EXCEPT ![c].at = "returned"]
  /\ UNCHANGED <<rows, verified>> /\ ExecuteUnchanged

Execute(c) ==
  RunCode(c) \/ InsertExecution(c) \/ UpdateStatus(c) \/ ExecuteFails(c)

(* Calls die with the process.                                             *)
ServerDies ==
  /\ ProcessDies
  /\ call' = [c \in Callers |-> IF Rest(c) THEN call[c]
                                ELSE [call[c] EXCEPT !.at = "dead"]]
  /\ UNCHANGED overlapped

ExecuteNext ==
  \/ ServerDies
  \/ (Worker \/ Restart) /\ UNCHANGED <<call, overlapped>>
  \/ \E c \in Callers : Load(c)
  \/ \E c \in Callers : Execute(c) /\ UNCHANGED overlapped

ExecuteSpec == ExecuteInit /\ [][ExecuteNext]_executeVars

-----------------------------------------------------------------------------
(* Properties.                                                             *)

(* Whatever interleaves, crashes or fails, a run is never called a success *)
(* without a passing row: both writers insert the row before the status,   *)
(* so build_certificate always finds the attempt it speaks of.             *)
SuccessHasPassingRow == run.status = "success" => Passed

(* Calls made one after the other, with no worker active, extend the       *)
(* numbering of the worker: the i-th row has number i, and the row of the  *)
(* run counts them up to the call whose status update failed.              *)
NumberedOneByOne == ~overlapped =>
  /\ \A i \in DOMAIN attempts : attempts[i].number = i
  /\ run.total <= Len(attempts) + 1

(* main.py 447: "Only verified runs get a certificate", where verified     *)
(* means (README 129) that every spec test passed: the certified code has  *)
(* passed the tests of the run.  Calls made on a run that is over suffice. *)
OnlyVerifiedCertified ==
  ~overlapped /\ run.tests # 0 => CertificateHonest

=============================================================================
