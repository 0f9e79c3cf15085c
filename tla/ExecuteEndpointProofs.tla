------------------------ MODULE ExecuteEndpointProofs -----------------------
(***************************************************************************)
(* What holds of a run while any number of clients execute it again, for   *)
(* every number of attempts and every number and kind of faults.           *)
(*                                                                         *)
(* Beside a call, the invariant of PipelineProofs is lost: the rows are no *)
(* longer numbered in step, and the numbers have no bound.  So nothing is  *)
(* assumed here of what a row holds but the fields the argument reads.     *)
(***************************************************************************)
EXTENDS ExecuteEndpoint, PipelineProofs

-----------------------------------------------------------------------------
(* Shapes.                                                                 *)

Shape(f, fields) == f = [x \in DOMAIN f |-> f[x]] /\ fields \subseteq DOMAIN f

Shapes ==
  /\ Shape(run, {"status", "total"})
  /\ attempts \in Seq({attempts[i] : i \in DOMAIN attempts})
  /\ Shape(call, Callers)
  /\ \A c \in Callers : Shape(call[c], {"at", "number", "ok"})

(* Two writers insert before they claim: whoever is about to write the     *)
(* status "success" has a passing row in the table, and rows stay.         *)
Backed ==
  /\ SuccessHasPassingRow
  /\ pc \in Passing => Passed
  /\ result = "success" => Passed
  /\ \A c \in Callers : call[c].at = "status" /\ call[c].ok => Passed

(* No call has overlapped another writer: then either the worker is still  *)
(* alone with its run, or it is over and the calls take turns.             *)
Untouched == Inv /\ \A c \in Callers : call[c].at = "idle"

TakingTurns ==
  /\ \A i \in DOMAIN attempts : attempts[i].number = i
  /\ run.total \in Nat /\ run.total <= Len(attempts) + 1
  /\ \A c \in Callers :
       /\ ~Rest(c) => \A d \in Callers \ {c} : Rest(d)
       /\ call[c].at \in {"run", "insert"} => call[c].number = Len(attempts) + 1
       /\ call[c].at = "status" => call[c].number = Len(attempts)

Sequential ==
  ~overlapped => IF pc \in Halted THEN TakingTurns ELSE Untouched

-----------------------------------------------------------------------------
(* What an insertion and an update do.                                     *)

(* An inserted row comes last; the rows before it stay as they are.        *)
LEMMA RowAppended ==
  ASSUME attempts \in Seq({attempts[i] : i \in DOMAIN attempts}),
         NEW row, attempts' = Append(attempts, row)
  PROVE  /\ attempts' \in Seq({attempts'[i] : i \in DOMAIN attempts'})
         /\ Len(attempts) \in Nat /\ Len(attempts') = Len(attempts) + 1
         /\ DOMAIN attempts = 1..Len(attempts)
         /\ DOMAIN attempts' = 1..(Len(attempts) + 1)
         /\ \A i \in 1..Len(attempts) : attempts'[i] = attempts[i]
         /\ attempts'[Len(attempts) + 1] = row
         /\ Passed' <=> Passed \/ row.passed
<1> DEFINE T == {attempts[i] : i \in DOMAIN attempts} \cup {row}
<1>1. attempts \in Seq(T) /\ row \in T
  OBVIOUS
<1> HIDE DEF T
<1>2. /\ attempts' \in Seq(T)
      /\ Len(attempts) \in Nat /\ Len(attempts') = Len(attempts) + 1
      /\ DOMAIN attempts = 1..Len(attempts)
      /\ DOMAIN attempts' = 1..(Len(attempts) + 1)
      /\ \A i \in 1..Len(attempts) : attempts'[i] = attempts[i]
      /\ attempts'[Len(attempts) + 1] = row
  BY <1>1, AppendProperties
<1>3. attempts' \in Seq({attempts'[i] : i \in DOMAIN attempts'})
  BY <1>2
<1>4. \A i \in DOMAIN attempts' : i \in DOMAIN attempts \/ i = Len(attempts) + 1
  BY <1>2
<1>5. Passed' <=> Passed \/ row.passed
  BY <1>2, <1>4 DEF Passed
<1> QED
  BY <1>2, <1>3, <1>5

(* Rows are only ever inserted, so a passing row stays.                    *)
LEMMA PassedStays ==
  ASSUME Shapes, UNCHANGED attempts \/ \E ok \in BOOLEAN : InsertAttempt(ok)
  PROVE  /\ attempts' \in Seq({attempts'[i] : i \in DOMAIN attempts'})
         /\ Passed => Passed'
         /\ InsertAttempt(TRUE) => Passed'
<1>1. CASE UNCHANGED attempts /\ ~InsertAttempt(TRUE)
  BY <1>1 DEF Shapes, Passed
<1>2. ASSUME NEW ok \in BOOLEAN, InsertAttempt(ok)
      PROVE  /\ attempts' \in Seq({attempts'[i] : i \in DOMAIN attempts'})
             /\ Passed => Passed'
             /\ ok => Passed'
  <2> DEFINE row == [number |-> attempt, passed |-> ok, code |-> code, tests |-> tests]
  <2>1. attempts' = Append(attempts, row) /\ row.passed = ok
    BY <1>2 DEF InsertAttempt
  <2> HIDE DEF row
  <2> QED
    BY <2>1, RowAppended DEF Shapes
<1> QED
  BY <1>1, <1>2

-----------------------------------------------------------------------------
(* The worker, beside any number of calls.                                 *)

(* Its steps before the attempt loop write no row and no verdict.          *)
LEMMA PrologueBacked ==
  ASSUME Shapes, Backed, Prologue, UNCHANGED call
  PROVE  Shapes' /\ Backed'
<1> USE DEF Goto, Emit, EmitOnly, Quiet, Shapes, Backed, SuccessHasPassingRow,
            Passed, Passing
<1>1. CASE StartRun
  BY <1>1 DEF StartRun, Shape
<1>2. CASE SaveTests
  BY <1>2 DEF SaveTests, Shape
<1>3. CASE ~StartRun /\ ~SaveTests
  BY <1>3, Prologue DEF Prologue, EmitRunStarted, Recall, SaveMemories,
     EmitTestsWriting, EmitTestsReady
<1> QED
  BY <1>1, <1>2, <1>3

LEMMA AttemptBacked ==
  ASSUME Shapes, Backed, Attempt, UNCHANGED call
  PROVE  Shapes' /\ Backed'
<1> USE DEF Goto, Emit, EmitOnly, Quiet, Shapes, Backed, SuccessHasPassingRow,
            Passed, Passing
<1>1. CASE BeginAttempt
  BY <1>1 DEF BeginAttempt, Shape
<1>2. CASE ~BeginAttempt
  BY <1>2, Attempt DEF Attempt, EmitAttemptStarted, GenerateCode,
     EmitSandboxStarted, Verify
<1> QED
  BY <1>1, <1>2

(* The row of the attempt that passed is there before the review begins.   *)
LEMMA SuccessBacked ==
  ASSUME Shapes, Backed, Success, UNCHANGED call
  PROVE  Shapes' /\ Backed'
<1> USE DEF Goto, EmitOnly, Quiet, Passing
<1>1. CASE InsertPassed
  <2>1. InsertAttempt(TRUE) /\ UNCHANGED <<run, result>>
    BY <1>1 DEF InsertPassed
  <2>2. attempts' \in Seq({attempts'[i] : i \in DOMAIN attempts'}) /\ Passed'
    BY <2>1, PassedStays
  <2> QED
    BY <2>1, <2>2 DEF Shapes, Backed, SuccessHasPassingRow
<1>2. CASE SaveFinal
  <2>1. Shape(run', {"status", "total"}) /\ run'.status = run.status
    BY <1>2 DEF SaveFinal, Shapes, Shape
  <2>2. UNCHANGED <<attempts, result>> /\ pc \in Passing
    BY <1>2 DEF SaveFinal
  <2> QED
    BY <2>1, <2>2 DEF Shapes, Backed, SuccessHasPassingRow, Passed
<1>3. CASE RememberLesson
  BY <1>3 DEF RememberLesson, Shapes, Backed, SuccessHasPassingRow, Passed
<1>4. CASE SkipReviewer \/ EndReviewer
  BY <1>4 DEF SkipReviewer, EndReviewer, AfterReviewer, Shapes, Backed,
     SuccessHasPassingRow, Passed
<1>5. CASE EmitVerified \/ StartReviewer \/ StaticAnalysis \/ Recheck
             \/ SaveReview \/ EmitQuality
  BY <1>5 DEF EmitVerified, StartReviewer, StaticAnalysis, Recheck, SaveReview,
     EmitQuality, Shapes, Backed, SuccessHasPassingRow, Passed
<1> QED
  BY <1>1, <1>2, <1>3, <1>4, <1>5 DEF Success

LEMMA FailureBacked ==
  ASSUME Shapes, Backed, Failure, UNCHANGED call
  PROVE  Shapes' /\ Backed'
<1> USE DEF Goto, EmitOnly, Quiet, Passing
<1>1. CASE InsertFailed
  <2>1. /\ InsertAttempt(FALSE) /\ UNCHANGED <<run, result>>
        /\ pc' \in {"diagnosisEvent", "nextAttempt"}
    BY <1>1 DEF InsertFailed
  <2>2. attempts' \in Seq({attempts'[i] : i \in DOMAIN attempts'})
          /\ (Passed => Passed')
    BY <2>1, PassedStays
  <2> QED
    BY <2>1, <2>2 DEF Shapes, Backed, SuccessHasPassingRow
<1>2. CASE RewriteTests
  BY <1>2 DEF RewriteTests, Shape, Shapes, Backed, SuccessHasPassingRow, Passed
<1>3. CASE RememberFailure
  BY <1>3 DEF RememberFailure, GivesUp, Shapes, Backed, SuccessHasPassingRow, Passed
<1>4. CASE EmitDiagnosis
  BY <1>4 DEF EmitDiagnosis, AfterDiagnosis, Shapes, Backed, SuccessHasPassingRow,
     Passed
<1>5. CASE EmitDiagnosing \/ EmitEarlyStop \/ EmitTestsRewritten
  BY <1>5 DEF EmitDiagnosing, EmitEarlyStop, EmitTestsRewritten, Shapes, Backed,
     SuccessHasPassingRow, Passed
<1> QED
  BY <1>1, <1>2, <1>3, <1>4, <1>5 DEF Failure

(* The verdict written last is the one that had a row behind it.           *)
LEMMA EndingBacked ==
  ASSUME Shapes, Backed, Ending, UNCHANGED call
  PROVE  Shapes' /\ Backed'
<1> USE DEF Goto, EmitOnly, Passing, Shapes, Backed, SuccessHasPassingRow, Passed
<1>1. CASE FinishRun
  <2>1. Shape(run', {"status", "total"}) /\ run'.status = result
    BY <1>1 DEF FinishRun, Shape
  <2>2. UNCHANGED <<attempts, result>> /\ pc' = "finishedEvent"
    BY <1>1 DEF FinishRun
  <2> QED
    BY <2>1, <2>2
<1>2. CASE Raise \/ AbandonRun
  BY <1>2 DEF Raise, AbandonRun, rows
<1>3. CASE EmitError \/ EmitRunFinished
  BY <1>3 DEF EmitError, EmitRunFinished
<1> QED
  BY <1>1, <1>2, <1>3 DEF Ending

-----------------------------------------------------------------------------
(* The calls.                                                              *)

(* A step of one call leaves the others alone.                             *)
Moves(c) ==
  /\ Shape(call', Callers)
  /\ \A d \in Callers : Shape(call'[d], {"at", "number", "ok"})
  /\ \A d \in Callers \ {c} : call'[d] = call[d]

LEMMA CallMoves ==
  ASSUME Shapes, NEW c \in Callers, NEW step,
         Shape(step, {"at", "number", "ok"}), call' = [call EXCEPT ![c] = step]
  PROVE  Moves(c) /\ call'[c] = step
<1>1. Shape(call', Callers) /\ call'[c] = step
  BY DEF Shapes, Shape
<1>2. \A d \in Callers \ {c} : call'[d] = call[d]
  BY DEF Shapes, Shape
<1>3. \A d \in Callers : Shape(call'[d], {"at", "number", "ok"})
  <2> TAKE d \in Callers
  <2> QED
    BY <1>1, <1>2 DEF Shapes
<1> QED
  BY <1>1, <1>2, <1>3 DEF Moves

(* Where each step leaves the call that makes it.                          *)
LEMMA LoadMoves ==
  ASSUME Shapes, NEW c \in Callers, Load(c)
  PROVE  /\ Moves(c)
         /\ \/ call'[c].at = "refused"
            \/ /\ call'[c].at = "run" /\ call'[c].number = NextNumber
               /\ attempts # <<>>
<1>1. CASE attempts = <<>>
  <2> DEFINE step == [call[c] EXCEPT !.at = "refused"]
  <2>1. call' = [call EXCEPT ![c] = step]
    BY <1>1 DEF Load
  <2>2. Shape(step, {"at", "number", "ok"}) /\ step.at = "refused"
    BY DEF Shapes, Shape
  <2> HIDE DEF step
  <2> QED
    BY <2>1, <2>2, CallMoves
<1>2. CASE attempts # <<>>
  <2> DEFINE step(i) == [at |-> "run", number |-> NextNumber,
                         code |-> attempts[i].code, ok |-> FALSE]
  <2>1. PICK i \in DOMAIN attempts : call' = [call EXCEPT ![c] = step(i)]
    BY <1>2 DEF Load
  <2>2. /\ Shape(step(i), {"at", "number", "ok"})
        /\ step(i).at = "run" /\ step(i).number = NextNumber
    BY DEF Shape
  <2> HIDE DEF step
  <2> QED
    BY <1>2, <2>1, <2>2, CallMoves
<1> QED
  BY <1>1, <1>2

LEMMA RunMoves ==
  ASSUME Shapes, NEW c \in Callers, RunCode(c)
  PROVE  Moves(c) /\ call'[c].at = "insert" /\ call'[c].number = call[c].number
<1> DEFINE start == [call[c] EXCEPT !.at = "insert"]
           step(ok) == [start EXCEPT !.ok = ok]
<1>1. PICK ok \in BOOLEAN :
        call' = [[call EXCEPT ![c] = start] EXCEPT ![c].ok = ok]
  BY DEF RunCode
<1>2. Shape(start, {"at", "number", "ok"})
        /\ start.at = "insert" /\ start.number = call[c].number
  BY DEF Shapes, Shape
<1>3. /\ Shape(step(ok), {"at", "number", "ok"})
      /\ step(ok).at = "insert" /\ step(ok).number = call[c].number
  BY <1>2 DEF Shape
<1>4. call' = [call EXCEPT ![c] = step(ok)]
  <2> HIDE DEF start
  <2>1. call' = [[call EXCEPT ![c] = start] EXCEPT
                   ![c] = [[call EXCEPT ![c] = start][c] EXCEPT !.ok = ok]]
    BY <1>1
  <2>2. [call EXCEPT ![c] = start][c] = start
    BY DEF Shapes, Shape
  <2> QED
    BY <2>1, <2>2
<1> HIDE DEF step
<1> QED
  BY <1>3, <1>4, CallMoves

LEMMA InsertMoves ==
  ASSUME Shapes, NEW c \in Callers, InsertExecution(c)
  PROVE  /\ Moves(c) /\ call'[c].at = "status"
         /\ call'[c].number = call[c].number /\ call'[c].ok = call[c].ok
<1> DEFINE step == [call[c] EXCEPT !.at = "status"]
<1>1. call' = [call EXCEPT ![c] = step]
  BY DEF InsertExecution
<1>2. /\ Shape(step, {"at", "number", "ok"})
      /\ step.at = "status" /\ step.number = call[c].number /\ step.ok = call[c].ok
  BY DEF Shapes, Shape
<1> HIDE DEF step
<1> QED
  BY <1>1, <1>2, CallMoves

LEMMA ReturnMoves ==
  ASSUME Shapes, NEW c \in Callers, UpdateStatus(c) \/ ExecuteFails(c)
  PROVE  Moves(c) /\ call'[c].at = "returned"
<1> DEFINE step == [call[c] EXCEPT !.at = "returned"]
<1>1. call' = [call EXCEPT ![c] = step]
  BY DEF UpdateStatus, ExecuteFails
<1>2. Shape(step, {"at", "number", "ok"}) /\ step.at = "returned"
  BY DEF Shapes, Shape
<1> HIDE DEF step
<1> QED
  BY <1>1, <1>2, CallMoves

LEMMA CallBacked ==
  ASSUME Shapes, Backed, NEW c \in Callers, Load(c) \/ Execute(c)
  PROVE  Shapes' /\ Backed'
<1> USE DEF ExecuteUnchanged, rows
<1>1. UNCHANGED <<pc, result>>
  BY DEF Load, Execute, RunCode, InsertExecution, UpdateStatus, ExecuteFails
<1>2. CASE Load(c) \/ RunCode(c) \/ ExecuteFails(c)
  <2>1. UNCHANGED <<run, attempts>>
    BY <1>2 DEF Load, RunCode, ExecuteFails
  <2>2. Moves(c) /\ call'[c].at # "status"
    BY <1>2, LoadMoves, RunMoves, ReturnMoves
  <2> QED
    BY <1>1, <2>1, <2>2 DEF Moves, Shapes, Backed, SuccessHasPassingRow, Passed
<1>3. CASE InsertExecution(c)
  <2> DEFINE row == [number |-> call[c].number, passed |-> call[c].ok,
                     code |-> call[c].code, tests |-> 0]
  <2>1. attempts' = Append(attempts, row) /\ row.passed = call[c].ok /\ UNCHANGED run
    BY <1>3 DEF InsertExecution
  <2> HIDE DEF row
  <2>2. attempts' \in Seq({attempts'[i] : i \in DOMAIN attempts'})
          /\ (Passed' <=> Passed \/ call[c].ok)
    BY <2>1, RowAppended DEF Shapes
  <2> QED
    BY <1>1, <1>3, <2>1, <2>2, InsertMoves DEF Moves, Shapes, Backed,
       SuccessHasPassingRow
<1>4. CASE UpdateStatus(c)
  <2>1. /\ run' = [run EXCEPT !.status = IF call[c].ok THEN "success" ELSE "failed",
                              !.total = call[c].number]
        /\ call[c].at = "status" /\ UNCHANGED attempts
    BY <1>4 DEF UpdateStatus
  <2>2. /\ Shape(run', {"status", "total"})
        /\ run'.status = IF call[c].ok THEN "success" ELSE "failed"
    BY <2>1 DEF Shapes, Shape
  <2>3. Moves(c) /\ call'[c].at # "status"
    BY <1>4, ReturnMoves
  <2> QED
    BY <1>1, <2>1, <2>2, <2>3 DEF Moves, Shapes, Backed, SuccessHasPassingRow,
       Passed
<1> QED
  BY <1>2, <1>3, <1>4 DEF Execute

(* Calls that die leave the others where they are.                         *)
LEMMA CrashBacked ==
  ASSUME Shapes, Backed, ServerDies \/ (Restart /\ UNCHANGED call)
  PROVE  Shapes' /\ Backed'
<1>1. CASE ServerDies
  <2>1. UNCHANGED <<run, attempts, result>> /\ (pc' \in Passing => pc \in Passing)
    BY <1>1 DEF ServerDies, ProcessDies, rows, Passing
  <2>2. call' = [c \in Callers |-> IF Rest(c) THEN call[c]
                                   ELSE [call[c] EXCEPT !.at = "dead"]]
    BY <1>1 DEF ServerDies
  <2>3. ASSUME NEW c \in Callers
        PROVE  /\ Shape(call'[c], {"at", "number", "ok"})
               /\ call'[c].at # "status"
    <3>1. Shape(call[c], {"at", "number", "ok"})
      BY DEF Shapes
    <3>2. CASE Rest(c)
      BY <2>2, <3>1, <3>2 DEF Rest
    <3>3. CASE ~Rest(c)
      <4>1. call'[c] = [call[c] EXCEPT !.at = "dead"]
        BY <2>2, <3>3
      <4> QED
        BY <3>1, <4>1 DEF Shape
    <3> QED
      BY <3>2, <3>3
  <2>4. Shape(call', Callers)
    BY <2>2 DEF Shape
  <2> QED
    BY <2>1, <2>3, <2>4 DEF Shapes, Backed, SuccessHasPassingRow, Passed
<1>2. CASE Restart /\ UNCHANGED call
  BY <1>2 DEF Restart, Recovered, Shape, Shapes, Backed, SuccessHasPassingRow, Passed
<1> QED
  BY <1>1, <1>2

LEMMA BackedInit ==
  ASSUME ExecuteInit
  PROVE  Shapes /\ Backed
<1>1. Passed \in BOOLEAN /\ run.status = "queued" /\ result = "none" /\ pc = "start"
  BY DEF ExecuteInit, Init, Passed
<1>2. Shapes
  <2>1. Shape(run, {"status", "total"})
    BY DEF ExecuteInit, Init, Shape
  <2>2. attempts \in Seq({attempts[i] : i \in DOMAIN attempts})
    BY DEF ExecuteInit, Init
  <2>3. /\ Shape(call, Callers)
        /\ \A c \in Callers : Shape(call[c], {"at", "number", "ok"})
    BY DEF ExecuteInit, Shape
  <2> QED
    BY <2>1, <2>2, <2>3 DEF Shapes
<1>3. \A c \in Callers : call[c].at = "idle"
  BY DEF ExecuteInit
<1> QED
  BY <1>1, <1>2, <1>3 DEF Backed, SuccessHasPassingRow, Passing

LEMMA SupportKept ==
  ASSUME Shapes, Backed, [ExecuteNext]_executeVars
  PROVE  Shapes' /\ Backed'
<1>1. CASE UNCHANGED executeVars
  BY <1>1 DEF executeVars, vars, rows, Shapes, Backed, SuccessHasPassingRow, Passed
<1>2. CASE Worker /\ UNCHANGED call
  BY <1>2, PrologueBacked, AttemptBacked, SuccessBacked, FailureBacked, EndingBacked
     DEF Worker
<1> QED
  BY <1>1, <1>2, CallBacked, CrashBacked DEF ExecuteNext

LEMMA AlwaysBacked == ExecuteSpec => [](Shapes /\ Backed)
<1>1. Shapes /\ Backed /\ [ExecuteNext]_executeVars => (Shapes /\ Backed)'
  BY SupportKept
<1> QED
  BY <1>1, BackedInit, PTL DEF ExecuteSpec

(* However calls and the worker interleave, crash or fail, the row of the  *)
(* run says "success" only with a passing attempt in the table             *)
(* (main.py 316-330, pipeline.py 256-265).                                 *)
THEOREM SuccessIsBacked == ExecuteSpec => []SuccessHasPassingRow
<1>1. Backed => SuccessHasPassingRow
  BY DEF Backed
<1> QED
  BY <1>1, AlwaysBacked, PTL

-----------------------------------------------------------------------------
(* Calls that take turns.                                                  *)

(* The worker makes no step once it is over.                               *)
LEMMA WorkerAwake ==
  ASSUME Worker
  PROVE  pc \notin Halted
BY DEF Worker, Prologue, Attempt, Success, Failure, Ending, Goto, Halted,
   StartRun, EmitRunStarted, Recall, SaveMemories, EmitTestsWriting, SaveTests,
   EmitTestsReady, BeginAttempt, EmitAttemptStarted, GenerateCode,
   EmitSandboxStarted, Verify, InsertPassed, EmitVerified, SkipReviewer,
   StartReviewer, EndReviewer, StaticAnalysis, Recheck, SaveReview, EmitQuality,
   SaveFinal, RememberLesson, EmitDiagnosing, InsertFailed, EmitDiagnosis,
   EmitEarlyStop, RewriteTests, EmitTestsRewritten, RememberFailure, GivesUp,
   Raise, DbSteps, CallSteps, EmitError, FinishRun, AbandonRun, EmitRunFinished

(* With rows 1 to n in the table, the next number is n + 1.                *)
LEMMA NextNumberIs ==
  ASSUME Shapes, attempts # <<>>, \A i \in DOMAIN attempts : attempts[i].number = i
  PROVE  NextNumber = Len(attempts) + 1
<1> DEFINE last == Len(attempts)
           Top(n) == n \in Numbers /\ \A m \in Numbers : m <= n
           top == CHOOSE n : Top(n)
<1>1. last \in Nat /\ last > 0 /\ DOMAIN attempts = 1..last
  BY DEF Shapes
<1>2. Numbers = 1..last
  BY <1>1 DEF Numbers
<1>3. NextNumber = 1 + top
  BY DEF NextNumber
<1> HIDE DEF last, top
<1>4. Top(last)
  BY <1>1, <1>2
<1>5. Top(top)
  BY <1>4 DEF top
<1>6. top \in 1..last /\ last <= top
  BY <1>2, <1>4, <1>5
<1>7. top = last
  BY <1>1, <1>6
<1> QED
  BY <1>1, <1>3, <1>7 DEF last

(* Whatever stops the worker, the table it leaves has its rows in step.    *)
LEMMA WorkerSequential ==
  ASSUME Shapes, Sequential, Worker \/ Restart, UNCHANGED <<call, overlapped>>
  PROVE  Sequential'
<1> SUFFICES ASSUME ~overlapped'
             PROVE  IF pc' \in Halted THEN TakingTurns' ELSE Untouched'
  BY DEF Sequential
<1>1. CASE pc \notin Halted
  <2>1. Inv /\ \A c \in Callers : call[c].at = "idle"
    BY <1>1 DEF Sequential, Untouched
  <2>2. Inv' /\ \A c \in Callers : call'[c].at = "idle"
    BY <2>1, InvKept DEF Next
  <2>3. /\ run'.total \in Nat /\ run'.total <= Len(attempts') + 1
        /\ \A i \in DOMAIN attempts' : attempts'[i].number = i
    BY <2>2, PipelineAssumption DEF Inv, RowsInv, TypeOK, RowsTyped, LoopTyped, RunRow
  <2> QED
    BY <2>2, <2>3 DEF Untouched, TakingTurns, Rest
<1>2. CASE pc \in Halted
  <2>1. Restart
    BY <1>2, WorkerAwake
  <2>2. UNCHANGED <<pc, attempts>> /\ run' = Recovered(run)
    BY <2>1 DEF Restart
  <2>3. run'.total = run.total
    BY <2>2 DEF Recovered, Shapes, Shape
  <2> QED
    BY <1>2, <2>2, <2>3 DEF Sequential, TakingTurns, Rest
<1> QED
  BY <1>1, <1>2

(* A call that starts beside nobody takes the next number, and is alone    *)
(* with the table until it returns.                                        *)
LEMMA CallSequential ==
  ASSUME Shapes, Sequential, NEW c \in Callers,
         Load(c) \/ (Execute(c) /\ UNCHANGED overlapped)
  PROVE  Sequential'
<1> SUFFICES ASSUME ~overlapped'
             PROVE  IF pc' \in Halted THEN TakingTurns' ELSE Untouched'
  BY DEF Sequential
<1>1. /\ UNCHANGED pc /\ ~overlapped
      /\ Load(c) => Alone
  <2>1. UNCHANGED pc
    BY DEF Load, Execute, RunCode, InsertExecution, UpdateStatus, ExecuteFails,
       ExecuteUnchanged
  <2>2. Load(c) => (overlapped' <=> overlapped \/ ~Alone)
    BY DEF Load
  <2>3. ~Load(c) => (overlapped' <=> overlapped)
    OBVIOUS
  <2> QED
    BY <2>1, <2>2, <2>3, Zenon
<1>2. pc \in Halted /\ TakingTurns
  <2>1. Execute(c) => call[c].at # "idle"
    BY DEF Execute, RunCode, InsertExecution, UpdateStatus, ExecuteFails
  <2> QED
    BY <1>1, <2>1 DEF Sequential, Untouched, Alone
<1>3. Len(attempts) \in Nat
  BY DEF Shapes
<1>4. CASE Load(c)
  <2>1. UNCHANGED <<run, attempts>> /\ \A d \in Callers : Rest(d)
    BY <1>1, <1>4 DEF Load, rows, Alone
  <2>2. call'[c].at = "run" => call'[c].number = Len(attempts) + 1
    BY <1>2, <1>4, LoadMoves, NextNumberIs DEF TakingTurns
  <2> QED
    BY <1>1, <1>2, <1>4, <2>1, <2>2, LoadMoves DEF Moves, TakingTurns, Rest
<1>5. CASE RunCode(c)
  <2>1. UNCHANGED <<run, attempts>> /\ call[c].at = "run"
    BY <1>5 DEF RunCode, rows
  <2> QED
    BY <1>1, <1>2, <1>5, <2>1, RunMoves DEF Moves, TakingTurns, Rest
<1>6. CASE InsertExecution(c)
  <2> DEFINE row == [number |-> call[c].number, passed |-> call[c].ok,
                     code |-> call[c].code, tests |-> 0]
  <2>1. /\ attempts' = Append(attempts, row) /\ row.number = call[c].number
        /\ UNCHANGED run /\ call[c].at = "insert"
    BY <1>6 DEF InsertExecution
  <2> HIDE DEF row
  <2>2. /\ Len(attempts') = Len(attempts) + 1
        /\ DOMAIN attempts' = 1..(Len(attempts) + 1)
        /\ DOMAIN attempts = 1..Len(attempts)
        /\ \A i \in 1..Len(attempts) : attempts'[i] = attempts[i]
        /\ attempts'[Len(attempts) + 1].number = Len(attempts) + 1
    BY <1>2, <2>1, RowAppended DEF Shapes, TakingTurns
  <2>3. /\ \A i \in DOMAIN attempts' : attempts'[i].number = i
        /\ run'.total \in Nat /\ run'.total <= Len(attempts') + 1
    BY <1>2, <1>3, <2>1, <2>2 DEF TakingTurns
  <2>4. Moves(c) /\ call'[c].at = "status" /\ call'[c].number = Len(attempts')
    BY <1>2, <1>6, <2>1, <2>2, InsertMoves DEF TakingTurns
  <2>5. \A d \in Callers \ {c} : Rest(d)
    BY <1>2, <2>1 DEF TakingTurns, Rest
  <2> QED
    BY <1>1, <1>2, <2>3, <2>4, <2>5 DEF Moves, TakingTurns, Rest
<1>7. CASE UpdateStatus(c)
  <2>1. /\ run' = [run EXCEPT !.status = IF call[c].ok THEN "success" ELSE "failed",
                              !.total = call[c].number]
        /\ call[c].at = "status" /\ UNCHANGED attempts
    BY <1>7 DEF UpdateStatus
  <2>2. run'.total = Len(attempts)
    BY <1>2, <2>1 DEF Shapes, Shape, TakingTurns
  <2> QED
    BY <1>1, <1>2, <1>3, <1>7, <2>1, <2>2, ReturnMoves DEF Moves, TakingTurns, Rest
<1>8. CASE ExecuteFails(c)
  BY <1>1, <1>2, <1>8, ReturnMoves DEF ExecuteFails, rows, Moves, TakingTurns, Rest
<1> QED
  BY <1>4, <1>5, <1>6, <1>7, <1>8 DEF Execute

LEMMA DeathSequential ==
  ASSUME Shapes, Sequential, ServerDies
  PROVE  Sequential'
<1> SUFFICES ASSUME ~overlapped'
             PROVE  IF pc' \in Halted THEN TakingTurns' ELSE Untouched'
  BY DEF Sequential
<1>1. /\ ~overlapped /\ ProcessDies /\ UNCHANGED <<run, attempts>>
      /\ pc' \in Halted /\ (pc \in Halted => pc' = pc)
      /\ call' = [c \in Callers |-> IF Rest(c) THEN call[c]
                                    ELSE [call[c] EXCEPT !.at = "dead"]]
  BY DEF ServerDies, ProcessDies, rows, Halted
<1>2. ASSUME NEW c \in Callers
      PROVE  call'[c].at \in {"idle", "returned", "refused", "dead"}
  <2>1. CASE Rest(c)
    BY <1>1, <2>1 DEF Rest
  <2>2. CASE ~Rest(c)
    <3>1. call'[c] = [call[c] EXCEPT !.at = "dead"]
      BY <1>1, <2>2
    <3> QED
      BY <3>1 DEF Shapes, Shape
  <2> QED
    BY <2>1, <2>2
<1>3. /\ run.total \in Nat /\ run.total <= Len(attempts) + 1
      /\ \A i \in DOMAIN attempts : attempts[i].number = i
  <2>1. CASE pc \in Halted
    BY <1>1, <2>1 DEF Sequential, TakingTurns
  <2>2. CASE pc \notin Halted
    BY <1>1, <2>2, PipelineAssumption DEF Sequential, Untouched, Inv, RowsInv, TypeOK,
       RowsTyped, LoopTyped, RunRow
  <2> QED
    BY <2>1, <2>2
<1> QED
  BY <1>1, <1>2, <1>3 DEF TakingTurns, Rest

LEMMA SequentialKept ==
  ASSUME Shapes, Sequential, [ExecuteNext]_executeVars
  PROVE  Sequential'
<1>1. CASE UNCHANGED executeVars
  <2>1. UNCHANGED vars /\ UNCHANGED <<call, overlapped>>
    BY <1>1 DEF executeVars
  <2>2. Inv => Inv'
    BY <2>1, InvKept
  <2>3. UNCHANGED <<run, attempts, pc>>
    BY <2>1 DEF vars, rows
  <2> QED
    BY <2>1, <2>2, <2>3 DEF Sequential, Untouched, TakingTurns, Rest
<1>2. CASE ServerDies
  BY <1>2, DeathSequential
<1>3. CASE (Worker \/ Restart) /\ UNCHANGED <<call, overlapped>>
  BY <1>3, WorkerSequential
<1>4. CASE \E c \in Callers : Load(c) \/ (Execute(c) /\ UNCHANGED overlapped)
  BY <1>4, CallSequential
<1> QED
  BY <1>1, <1>2, <1>3, <1>4 DEF ExecuteNext

(* Calls made one after the other on a run that is over extend the         *)
(* numbering of its worker, wherever it was interrupted (main.py 292-330). *)
THEOREM NumberingContinues == ExecuteSpec => []NumberedOneByOne
<1>1. ExecuteInit => Sequential
  <2>1. ASSUME ExecuteInit PROVE Inv /\ pc \notin Halted
    BY <2>1, InvInit DEF ExecuteInit, Init, Halted
  <2>2. ASSUME ExecuteInit PROVE \A c \in Callers : call[c].at = "idle"
    BY <2>2 DEF ExecuteInit
  <2> QED
    BY <2>1, <2>2 DEF Sequential, Untouched
<1>2. (Shapes /\ Backed) /\ Sequential /\ [ExecuteNext]_executeVars => Sequential'
  BY SequentialKept
<1>3. Sequential => NumberedOneByOne
  <2>1. Inv => /\ \A i \in DOMAIN attempts : attempts[i].number = i
               /\ run.total <= Len(attempts) + 1
    BY DEF Inv, RowsInv
  <2> QED
    BY <2>1 DEF Sequential, TakingTurns, Untouched, NumberedOneByOne
<1> QED
  BY <1>1, <1>2, <1>3, AlwaysBacked, PTL DEF ExecuteSpec

=============================================================================
