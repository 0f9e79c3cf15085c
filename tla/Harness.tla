------------------------------- MODULE Harness ------------------------------
(***************************************************************************)
(* verify (app/harness.py): a driver script, run in a sandbox, executes    *)
(* the solution and its spec tests and prints one report line under a      *)
(* marker the solution does not know; verify believes nothing else.        *)
(*                                                                         *)
(* The solution may end the process at any moment with any exit code, even *)
(* after the report (an exit handler, a thread of its own), and print so   *)
(* much that the end of the output, where the report is, is cut off (_clip *)
(* in app/sandbox.py).  It does not write into the driver's own variables. *)
(***************************************************************************)
EXTENDS Sandbox

CONSTANT MaxTests     \* bound: test functions in a suite

ASSUME HarnessAssumption == MaxTests \in Nat

VARIABLE driver       \* per call: the driver of its verification

harnessVars == <<sandboxVars, driver>>

(* given: `tests` is not empty; total: its test functions; loaded: the     *)
(* solution ran to its end, or to an exit(0); report: it was printed;      *)
(* loud: more than MAX_OUTPUT_CHARS were printed before it; code: the exit *)
(* status, 1 for all but 0.                                                *)
Driver ==
  [stage : {"solution", "tests", "test", "over"}, given : BOOLEAN,
   total : 0..MaxTests, ran : 0..MaxTests, passed : 0..MaxTests,
   loaded : BOOLEAN, report : BOOLEAN, loud : BOOLEAN, code : {0, 1}]

NewDriver(given, total) ==
  [stage |-> "solution", given |-> given, total |-> total, ran |-> 0,
   passed |-> 0, loaded |-> FALSE, report |-> FALSE, loud |-> FALSE, code |-> 1]

HarnessTypeOK == SandboxTypeOK /\ driver \in [Calls -> Driver]

HarnessInit == SandboxInit /\ driver = [c \in Calls |-> NewDriver(FALSE, 0)]

(* verify calls run_code, with tests or without.                           *)
Verify(c) ==
  /\ Call(c)
  /\ \E g \in BOOLEAN, n \in 0..MaxTests :
       /\ g \/ n = 0
       /\ driver' = [driver EXCEPT ![c] = NewDriver(g, n)]

-----------------------------------------------------------------------------
(* The driver, lines 17-108.                                               *)

Runs(c) == at[c] = "host" \/ (at[c] = "running" /\ c \in boxes)

Finished(d, ok) ==
  [d EXCEPT !.stage = "over", !.report = TRUE, !.code = IF ok THEN 0 ELSE 1]

(* os._exit, a signal, the memory limit: nothing more is printed.          *)
Vanished(d) == {[d EXCEPT !.stage = "over", !.code = n] : n \in {0, 1}}

(* What a step of the driver may lead to.                                  *)
AfterSolution(d) ==
  {Finished(d, FALSE),      \* SyntaxError, an exception, SystemExit with a code
   IF d.given THEN [d EXCEPT !.loaded = TRUE, !.stage = "tests"]
              ELSE Finished([d EXCEPT !.loaded = TRUE], TRUE)}

AfterTests(d) == {Finished(d, FALSE), [d EXCEPT !.stage = "test"]}

AfterTest(d) ==
  {[d EXCEPT !.ran = @ + 1], [d EXCEPT !.ran = @ + 1, !.passed = @ + 1]}

AllPassed(d) == d.total > 0 /\ d.passed = d.total

Step(d) ==
  CASE d.stage = "solution" -> AfterSolution(d)
    [] d.stage = "tests"    -> AfterTests(d)
    [] d.stage = "test"     -> IF d.ran < d.total THEN AfterTest(d)
                               ELSE {Finished(d, AllPassed(d))}
    [] d.stage = "over"     -> {}

(* What is printed before the report may push it out of the output.        *)
Drive(c) ==
  /\ Runs(c)
  /\ \E d \in Step(driver[c]) \cup Vanished(driver[c]), more \in BOOLEAN :
       driver' = [driver EXCEPT ![c] =
         [d EXCEPT !.loud = @ \/ (more /\ ~driver[c].report)]]
  /\ UNCHANGED sandboxVars

(* run_code's reading of the exit status, lines 146-148 and 198.           *)
Quit(c) ==
  /\ driver[c].stage = "over"
  /\ Exit(c, IF driver[c].code = 0 THEN "ok" ELSE "error")
  /\ UNCHANGED driver

(* A driver whose output run_code does not return has reported nothing.    *)
Unheard(d) == NewDriver(d.given, d.total)

Proceed(c) ==
  /\ Thread(c)
  /\ driver' = IF at'[c] \in {"kill", "returned"}
               THEN [driver EXCEPT ![c] = Unheard(@)] ELSE driver

Progress(c) == Proceed(c) \/ Quit(c)

HarnessNext ==
  \/ \E c \in Calls : Verify(c)
  \/ \E c \in Calls : Progress(c)
  \/ \E c \in Calls : Drive(c)
  \/ Environment /\ UNCHANGED driver

HarnessSpec == HarnessInit /\ [][HarnessNext]_harnessVars

(* Threads go on and the clock does; a program need not, and the daemon    *)
(* need not come back.                                                     *)
FairHarnessSpec == HarnessSpec /\ \A c \in Calls : WF_harnessVars(Progress(c))

-----------------------------------------------------------------------------
(* verify, lines 158-191.                                                  *)

(* The output holds the report: it was printed, not cut off, and returned. *)
Reported(c) ==
  /\ outcome[c] \in {"ok", "error"}
  /\ driver[c].report /\ ~driver[c].loud

TestsOkAny(c) ==        \* slip: no tests at all are as good as passed ones
  driver[c].given /\ Reported(c) => driver[c].passed = driver[c].total

TestsOk(c) ==
  driver[c].given => Reported(c) /\ AllPassed(driver[c])

CleanExitAlone(c) == outcome[c] = "ok"      \* slip: a report is not asked for

CleanExit(c) == outcome[c] = "ok" /\ Reported(c)

Success(c) == CleanExit(c) /\ TestsOk(c)

-----------------------------------------------------------------------------
(* Properties.                                                             *)

(* A verification with tests that succeeded ran the solution, and after it *)
(* at least one test and every one, all of them passing - whatever the     *)
(* solution did to end early, under whatever exit status, and whatever     *)
(* became of its container.                                                *)
VerdictSound ==
  \A c \in Calls : Success(c) /\ driver[c].given =>
    /\ driver[c].loaded
    /\ driver[c].total > 0
    /\ driver[c].ran = driver[c].total /\ driver[c].passed = driver[c].total

=============================================================================
