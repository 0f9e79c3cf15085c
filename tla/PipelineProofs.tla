--------------------------- MODULE PipelineProofs ---------------------------
(***************************************************************************)
(* What holds of every run of Pipeline, for every number of attempts,      *)
(* every set of skipped agents and every number and kind of faults.        *)
(***************************************************************************)
EXTENDS Pipeline, SequenceTheorems, TLAPS

-----------------------------------------------------------------------------
(* The inductive invariant.  AttemptsInStep and the refinement are not     *)
(* inductive by themselves: what the next transaction may do to the tables *)
(* depends on where the worker is.                                         *)

(* Between attempts: every attempt begun has its row, and none passed.     *)
Waiting  == {"start", "runStarted", "recall", "saveMemories", "testsWriting",
             "saveTests", "testsReady", "nextAttempt", "rewriteTests",
             "testsRewritten"}
(* After the row of a failed attempt, which may turn out the last.         *)
Stopping == {"diagnosisEvent", "earlyStop", "rememberFailure"}
(* An attempt has begun and has no row yet.                                *)
InFlight == {"attemptStarted", "generate", "sandboxStarted", "verify",
             "insertPassed", "diagnosing", "insertFailed"}
(* The attempt passed and has its row.                                     *)
Passing  == {"verifiedEvent", "agent", "agentBusy", "staticAnalysis", "recheck",
             "saveReview", "quality", "saveFinal", "rememberLesson"}

(* `result` is a terminal status by the time it is written, and the row is *)
(* still active until then.                                                *)
ControlInv ==
  /\ pc \in Waiting \cup Stopping \cup InFlight \cup Passing =>
       /\ result = "none"
       /\ run.status = IF pc = "start" THEN "queued" ELSE "running"
  /\ pc = "crashed" => result = "failed"
  /\ pc \in {"crashed", "finish"} =>
       /\ result \in Terminal
       /\ run.status \in Active
       /\ result # "failed" => run.status = "running"
  /\ pc \notin Halted => up

RowsInv ==
  /\ \A i \in DOMAIN attempts :
       attempts[i].number = i /\ (attempts[i].passed => i = Len(attempts))
  /\ run.total = attempt /\ attempt <= spec.max
  /\ Len(attempts) <= attempt /\ attempt <= Len(attempts) + 1
  /\ pc \in Waiting  => Len(attempts) = attempt /\ ~Passed
  /\ pc \in Stopping => Len(attempts) = attempt /\ ~Passed /\ attempt > 0
  /\ pc \in InFlight => Len(attempts) + 1 = attempt /\ ~Passed
  /\ pc \in Passing  => Len(attempts) = attempt /\ Passed
  /\ pc = "finish"   => Lifecycle!Supported(result)

(* The loop only goes to the rewrite while one is left (line 300).         *)
RewriteLeft == pc = "rewriteTests" => rewrites < MaxTestRewrites

Inv == TypeOK /\ RewriteLeft /\ ControlInv /\ RowsInv

-----------------------------------------------------------------------------
(* Typing.                                                                 *)

(* Each worker step writes at most one table, and only rows of its type.   *)
LEMMA EmitTyped ==
  ASSUME TypeOK, NEW type \in EventTypes, Emit(type)
  PROVE  events' \in Seq(EventRow) /\ faults' \in Nat
<1>1. [type |-> type, attempt |-> attempt, status |-> result] \in EventRow
  BY DEF TypeOK, LoopTyped, EventRow
<1>2. events \in Seq(EventRow) /\ faults \in Nat
  BY DEF TypeOK, RowsTyped
<1> QED
  BY <1>1, <1>2, AppendProperties DEF Emit, Fault

LEMMA InsertTyped ==
  ASSUME TypeOK, NEW ok \in BOOLEAN, InsertAttempt(ok)
  PROVE  attempts' \in Seq(AttemptRow)
<1>1. [number |-> attempt, passed |-> ok, code |-> code, tests |-> tests]
        \in AttemptRow
  BY DEF TypeOK, LoopTyped, AttemptRow
<1> QED
  BY <1>1, AppendProperties DEF TypeOK, RowsTyped, InsertAttempt

LEMMA StoreTyped ==
  ASSUME TypeOK, NEW entry \in Memory, Store(entry)
  PROVE  stored' \in Seq(Memory) /\ faults' \in Nat
<1>1. stored \in Seq(Memory) /\ faults \in Nat
  BY DEF TypeOK, RowsTyped
<1> QED
  BY <1>1, AppendProperties DEF Store, Fault

(* The labels a step may go to; every case of a Goto is one of them.       *)
LEMMA LabelsListed ==
  Labels = {"start", "saveMemories", "saveTests", "nextAttempt", "insertFailed",
            "insertPassed", "saveReview", "saveFinal", "generate", "verify",
            "recheck", "runStarted", "testsWriting", "testsReady",
            "attemptStarted", "sandboxStarted", "verifiedEvent", "agent",
            "agentBusy", "staticAnalysis", "quality", "diagnosing",
            "diagnosisEvent", "earlyStop", "testsRewritten", "recall",
            "rewriteTests", "rememberLesson", "rememberFailure", "crashed",
            "finish", "finishedEvent", "done", "abandoned", "dead"}
BY DEF Labels, BodySteps, DbSteps, CallSteps, EmitSteps, EndSteps, Halted

(* The steps that only announce something and move on.                     *)
LEMMA EmitOnlyTyped ==
  ASSUME TypeOK, NEW type \in EventTypes, EmitOnly(type),
         pc' \in Labels, UNCHANGED loop,
         agent' \in Reviewers, documented' \in BOOLEAN
  PROVE  TypeOK'
<1>1. events' \in Seq(EventRow) /\ faults' \in Nat
  BY EmitTyped DEF EmitOnly
<1> QED
  BY <1>1 DEF EmitOnly, TypeOK, RowsTyped, LoopTyped, loop, env

(* The steps that write no event and meet no fault.                        *)
LEMMA QuietTyped ==
  ASSUME TypeOK, Quiet, pc' \in Labels, run' \in RunRow,
         attempts' \in Seq(AttemptRow), UNCHANGED <<stored, review, result, verified>>,
         LoopTyped'
  PROVE  TypeOK'
BY DEF Quiet, TypeOK, RowsTyped, review, env

LEMMA LoopKept ==
  ASSUME LoopTyped, UNCHANGED loop
  PROVE  LoopTyped'
BY DEF LoopTyped, loop

LEMMA PrologueTyped ==
  ASSUME TypeOK, Prologue
  PROVE  TypeOK'
<1> USE LabelsListed, LoopKept DEF Goto
<1>1. CASE StartRun
  <2>1. run' \in RunRow
    BY <1>1 DEF StartRun, TypeOK, RowsTyped, RunRow, Active
  <2> QED
    BY <1>1, <2>1, QuietTyped DEF StartRun, TypeOK, RowsTyped
<1>2. CASE EmitRunStarted
  BY <1>2, EmitOnlyTyped DEF EmitRunStarted, EventTypes, review, TypeOK
<1>3. CASE Recall
  <2>1. events' \in Seq(EventRow) /\ faults' \in Nat
    BY <1>3, EmitTyped DEF Recall, EventTypes, Fault, TypeOK, RowsTyped
  <2>2. LoopTyped' /\ RowsTyped'
    BY <1>3, <2>1 DEF Recall, TypeOK, RowsTyped
  <2>3. pc' \in Labels
    BY <1>3 DEF Recall
  <2>4. UNCHANGED <<agent, documented, up, spec, unsaved, result, verified>>
    BY <1>3 DEF Recall, review, env
  <2> QED
    BY <2>1, <2>2, <2>3, <2>4 DEF TypeOK
<1>4. CASE SaveMemories
  BY <1>4, QuietTyped DEF SaveMemories, TypeOK, RowsTyped
<1>5. CASE EmitTestsWriting
  BY <1>5, EmitOnlyTyped DEF EmitTestsWriting, EventTypes, review, TypeOK
<1>6. CASE SaveTests
  <2>0. PICK suite \in {0, 1} :
          tests' = suite /\ run' = [run EXCEPT !.tests = suite]
    BY <1>6 DEF SaveTests
  <2>a. suite \in Tests
    BY PipelineAssumption DEF Tests
  <2>1. run' \in RunRow /\ tests' \in Tests
    BY <2>0, <2>a DEF TypeOK, RowsTyped, RunRow
  <2>2. LoopTyped'
    BY <1>6, <2>1 DEF SaveTests, TypeOK, LoopTyped
  <2> QED
    BY <1>6, <2>1, <2>2, QuietTyped DEF SaveTests, TypeOK, RowsTyped
<1>7. CASE EmitTestsReady
  BY <1>7, EmitOnlyTyped DEF EmitTestsReady, EventTypes, review, TypeOK
<1> QED
  BY <1>1, <1>2, <1>3, <1>4, <1>5, <1>6, <1>7 DEF Prologue

LEMMA AttemptTyped ==
  ASSUME TypeOK, Attempt
  PROVE  TypeOK'
<1> USE LabelsListed, LoopKept DEF Goto
<1>1. CASE BeginAttempt
  <2>1. attempt + 1 \in 0..MaxAttempts
    BY <1>1, PipelineAssumption DEF BeginAttempt, TypeOK, RunSpec, LoopTyped
  <2>2. run' \in RunRow
    BY <1>1, <2>1 DEF BeginAttempt, TypeOK, RowsTyped, RunRow
  <2>3. LoopTyped'
    BY <1>1, <2>1 DEF BeginAttempt, TypeOK, LoopTyped
  <2> QED
    BY <1>1, <2>2, <2>3, QuietTyped DEF BeginAttempt, TypeOK, RowsTyped
<1>2. CASE EmitAttemptStarted
  BY <1>2, EmitOnlyTyped DEF EmitAttemptStarted, EventTypes, review, TypeOK
<1>3. CASE GenerateCode
  <2>1. events' \in Seq(EventRow) /\ faults' \in Nat
    BY <1>3, EmitTyped DEF GenerateCode, EmitOnly, EventTypes
  <2>2. code' \in Codes
    BY <1>3, PipelineAssumption DEF GenerateCode, TypeOK, LoopTyped, Codes, Text
  <2>3. LoopTyped'
    BY <1>3, <2>2 DEF GenerateCode, TypeOK, LoopTyped
  <2>4. RowsTyped' /\ pc' \in Labels
    BY <1>3, <2>1 DEF GenerateCode, EmitOnly, TypeOK, RowsTyped
  <2> QED
    BY <1>3, <2>1, <2>3, <2>4 DEF GenerateCode, EmitOnly, TypeOK, env, review
<1>4. CASE EmitSandboxStarted
  BY <1>4, EmitOnlyTyped DEF EmitSandboxStarted, EventTypes, review, TypeOK
<1>5. CASE Verify
  <2>1. events' \in Seq(EventRow) /\ faults' \in Nat
    BY <1>5, EmitTyped DEF Verify, EventTypes
  <2>2. /\ feedback' \in {feedback, attempt}
        /\ firstError' \in {firstError, attempt}
        /\ diag' = NoDiag
        /\ UNCHANGED <<attempt, code, tests, diagnosis, lesson, rewrites>>
        /\ pc' \in Labels
    BY <1>5 DEF Verify, FirstOf
  <2>3. LoopTyped'
    BY <2>2 DEF TypeOK, LoopTyped
  <2>4. verified' \subseteq Codes \X Tests
    BY <1>5 DEF Verify, Accept, TypeOK, LoopTyped
  <2>5. RowsTyped'
    BY <1>5, <2>1 DEF Verify, TypeOK, RowsTyped
  <2> QED
    BY <1>5, <2>1, <2>2, <2>3, <2>4, <2>5 DEF Verify, TypeOK, env, review
<1> QED
  BY <1>1, <1>2, <1>3, <1>4, <1>5 DEF Attempt

LEMMA SuccessTyped ==
  ASSUME TypeOK, Success
  PROVE  TypeOK'
<1> USE LabelsListed, LoopKept DEF Goto
<1>1. CASE InsertPassed
  BY <1>1, InsertTyped, QuietTyped DEF InsertPassed, TypeOK, RowsTyped
<1>2. CASE EmitVerified
  BY <1>2, EmitOnlyTyped DEF EmitVerified, EventTypes, TypeOK, Reviewers
<1>3. CASE SkipReviewer
  BY <1>3, EmitOnlyTyped
     DEF SkipReviewer, EventTypes, TypeOK, Reviewers, NextReviewer, AfterReviewer
<1>4. CASE StartReviewer
  BY <1>4, EmitOnlyTyped DEF StartReviewer, EventTypes, review, TypeOK
<1>5. CASE EndReviewer
  BY <1>5, EmitOnlyTyped
     DEF EndReviewer, EventTypes, TypeOK, Reviewers, NextReviewer, AfterReviewer
<1>6. CASE StaticAnalysis
  BY <1>6, EmitOnlyTyped DEF StaticAnalysis, EventTypes, review, TypeOK
<1>7. CASE Recheck
  <2>1. events' \in Seq(EventRow) /\ faults' \in Nat
    BY <1>7, EmitTyped DEF Recheck, EventTypes
  <2>2. Documented(code) \in Codes
    BY DEF TypeOK, LoopTyped, Codes, Documented
  <2>3. verified' \subseteq Codes \X Tests /\ documented' \in BOOLEAN
    BY <1>7, <2>2 DEF Recheck, Accept, KeepDocs, TypeOK, LoopTyped
  <2>4. RowsTyped' /\ LoopTyped' /\ pc' \in Labels
    BY <1>7, <2>1 DEF Recheck, TypeOK, RowsTyped
  <2> QED
    BY <1>7, <2>1, <2>3, <2>4 DEF Recheck, TypeOK, env
<1>8. CASE SaveReview
  BY <1>8, QuietTyped DEF SaveReview, TypeOK, RowsTyped
<1>9. CASE EmitQuality
  BY <1>9, EmitOnlyTyped DEF EmitQuality, EventTypes, review, TypeOK
<1>10. CASE SaveFinal
  <2>1. Documented(code) \in Codes /\ code \in Codes
    BY DEF TypeOK, LoopTyped, Codes, Documented
  <2>2. run' \in RunRow
    BY <1>10, <2>1 DEF SaveFinal, TypeOK, RowsTyped, RunRow
  <2> QED
    BY <1>10, <2>2, QuietTyped DEF SaveFinal, TypeOK, RowsTyped
<1>11. CASE RememberLesson
  <2>1. [kind |-> "lesson", error |-> firstError, lesson |-> lesson] \in Memory
    BY DEF TypeOK, LoopTyped, Memory
  <2>2. stored' \in Seq(Memory) /\ faults' \in Nat
    BY <1>11, <2>1, StoreTyped DEF RememberLesson, TypeOK, RowsTyped
  <2>3. RowsTyped' /\ LoopTyped' /\ pc' \in Labels
    BY <1>11, <2>2 DEF RememberLesson, TypeOK, RowsTyped
  <2> QED
    BY <1>11, <2>2, <2>3 DEF RememberLesson, TypeOK, env, review, Terminal
<1> QED
  BY <1>1, <1>2, <1>3, <1>4, <1>5, <1>6, <1>7, <1>8, <1>9, <1>10, <1>11
     DEF Success

LEMMA FailureTyped ==
  ASSUME TypeOK, RewriteLeft, Failure
  PROVE  TypeOK'
<1> USE LabelsListed, LoopKept DEF Goto
<1>1. CASE EmitDiagnosing
  BY <1>1, EmitOnlyTyped DEF EmitDiagnosing, EventTypes, review, TypeOK
<1>2. CASE InsertFailed
  <2>1. PICK d \in {NoDiag} \cup Diagnoses :
          /\ diag' = d
          /\ diagnosis' = Keep(diagnosis, d)
          /\ pc' \in Labels
    BY <1>2 DEF InsertFailed
  <2>a. diagnosis' \in 0..MaxAttempts
    BY <2>1, PipelineAssumption DEF Keep, TypeOK, LoopTyped
  <2>2. LoopTyped'
    BY <1>2, <2>1, <2>a DEF InsertFailed, TypeOK, LoopTyped
  <2> QED
    BY <1>2, <2>1, <2>2, InsertTyped, QuietTyped
       DEF InsertFailed, TypeOK, RowsTyped
<1>3. CASE EmitDiagnosis
  <2>1. events' \in Seq(EventRow) /\ faults' \in Nat
    BY <1>3, EmitTyped DEF EmitDiagnosis, EmitOnly, EventTypes
  <2>2. LoopTyped'
    BY <1>3 DEF EmitDiagnosis, TypeOK, LoopTyped
  <2>3. RowsTyped' /\ pc' \in Labels
    BY <1>3, <2>1
       DEF EmitDiagnosis, EmitOnly, AfterDiagnosis, TypeOK, RowsTyped
  <2> QED
    BY <1>3, <2>1, <2>2, <2>3 DEF EmitDiagnosis, EmitOnly, TypeOK, env, review
<1>4. CASE EmitEarlyStop
  BY <1>4, EmitOnlyTyped DEF EmitEarlyStop, EventTypes, review, TypeOK
<1>5. CASE RewriteTests
  <2>1. rewrites \in Nat /\ rewrites < MaxTestRewrites /\ MaxTestRewrites \in Nat
    BY <1>5, PipelineAssumption DEF RewriteTests, RewriteLeft, TypeOK, LoopTyped
  <2>2. \A suite \in {0, rewrites + 2} : suite \in Tests
    BY <2>1 DEF Tests
  <2>3. tests' \in Tests /\ (run' = run \/ run' = [run EXCEPT !.tests = tests'])
    <3>1. CASE UNCHANGED <<tests, run>>
      BY <3>1 DEF TypeOK, LoopTyped
    <3>2. ASSUME NEW suite \in {0, rewrites + 2}, tests' = suite,
                 run' = [run EXCEPT !.tests = suite] \/ UNCHANGED run
          PROVE  tests' \in Tests /\ (run' = run \/ run' = [run EXCEPT !.tests = tests'])
      BY <2>2, <3>2
    <3> QED
      BY <1>5, <3>1, <3>2 DEF RewriteTests
  <2>4. run' \in RunRow
    BY <2>3 DEF TypeOK, RowsTyped, RunRow
  <2>5. LoopTyped'
    BY <1>5, <2>1, <2>3 DEF RewriteTests, TypeOK, LoopTyped
  <2>6. faults' \in Nat /\ pc' \in Labels
    BY <1>5 DEF RewriteTests, Fault, TypeOK
  <2> QED
    BY <1>5, <2>4, <2>5, <2>6 DEF RewriteTests, TypeOK, RowsTyped, env, review
<1>6. CASE EmitTestsRewritten
  BY <1>6, EmitOnlyTyped DEF EmitTestsRewritten, EventTypes, review, TypeOK
<1>7. CASE RememberFailure
  <2>1. [kind |-> "failure", error |-> feedback, lesson |-> 0] \in Memory
    BY PipelineAssumption DEF TypeOK, LoopTyped, Memory
  <2>2. stored' \in Seq(Memory) /\ faults' \in Nat
    BY <1>7, <2>1, StoreTyped DEF RememberFailure, TypeOK, RowsTyped
  <2>3. RowsTyped' /\ LoopTyped' /\ pc' \in Labels
    BY <1>7, <2>2 DEF RememberFailure, TypeOK, RowsTyped
  <2>4. result' \in Terminal
    BY <1>7 DEF RememberFailure, Terminal
  <2> QED
    BY <1>7, <2>2, <2>3, <2>4 DEF RememberFailure, TypeOK, env, review
<1> QED
  BY <1>1, <1>2, <1>3, <1>4, <1>5, <1>6, <1>7 DEF Failure

LEMMA EndingTyped ==
  ASSUME TypeOK, ControlInv, Ending
  PROVE  TypeOK'
<1> USE LabelsListed, LoopKept DEF Goto
<1>1. CASE Raise
  BY <1>1 DEF Raise, Fault, TypeOK, RowsTyped, rows, env, review, Terminal
<1>2. CASE EmitError
  BY <1>2, EmitOnlyTyped DEF EmitError, EventTypes, review, TypeOK
<1>3. CASE FinishRun
  <2>1. run' \in RunRow
    BY <1>3 DEF FinishRun, ControlInv, TypeOK, RowsTyped, RunRow
  <2> QED
    BY <1>3, <2>1, QuietTyped DEF FinishRun, TypeOK, RowsTyped
<1>4. CASE AbandonRun
  BY <1>4 DEF AbandonRun, Fault, TypeOK, RowsTyped, rows, env, review
<1>5. CASE EmitRunFinished
  BY <1>5, EmitOnlyTyped DEF EmitRunFinished, EventTypes, review, TypeOK
<1> QED
  BY <1>1, <1>2, <1>3, <1>4, <1>5 DEF Ending

LEMMA CrashTyped ==
  ASSUME TypeOK, ProcessDies \/ Restart
  PROVE  TypeOK'
<1> USE LabelsListed, LoopKept
<1>1. CASE ProcessDies
  <2>a. pc' \in {pc, "dead"} /\ up' = FALSE
    BY <1>1 DEF ProcessDies
  <2>b. faults' \in Nat
    BY <1>1 DEF ProcessDies, Fault, TypeOK
  <2>1. pc' \in Labels /\ up' \in BOOLEAN
    BY <2>a DEF TypeOK
  <2>2. RowsTyped' /\ LoopTyped'
    BY <1>1 DEF ProcessDies, TypeOK, RowsTyped, rows
  <2> QED
    BY <1>1, <2>b, <2>1, <2>2 DEF ProcessDies, TypeOK, review
<1>2. CASE Restart
  <2>1. run' \in RunRow
    BY <1>2 DEF Restart, Recovered, TypeOK, RowsTyped, RunRow, Terminal
  <2> QED
    BY <1>2, <2>1 DEF Restart, TypeOK, RowsTyped, review
<1> QED
  BY <1>1, <1>2

LEMMA StepTyped ==
  ASSUME TypeOK, RewriteLeft, ControlInv, [Next]_vars
  PROVE  TypeOK'
<1>1. CASE UNCHANGED vars
  BY <1>1 DEF vars, rows, loop, review, env, TypeOK, RowsTyped, LoopTyped
<1> QED
  BY <1>1, PrologueTyped, AttemptTyped, SuccessTyped, FailureTyped, EndingTyped,
     CrashTyped DEF Next, Worker

-----------------------------------------------------------------------------
(* Control.                                                                *)

LEMMA RewriteLeftKept ==
  ASSUME TypeOK, RewriteLeft, [Next]_vars
  PROVE  RewriteLeft'
<1> USE DEF Goto, RewriteLeft
<1>1. CASE UNCHANGED vars
  BY <1>1 DEF vars, loop
<1>2. CASE Prologue
  BY <1>2 DEF Prologue, StartRun, EmitRunStarted, Recall, SaveMemories,
     EmitTestsWriting, SaveTests, EmitTestsReady
<1>3. CASE Attempt
  BY <1>3 DEF Attempt, BeginAttempt, EmitAttemptStarted, GenerateCode,
     EmitSandboxStarted, Verify
<1>4. CASE Success
  BY <1>4 DEF Success, InsertPassed, EmitVerified, SkipReviewer, StartReviewer,
     EndReviewer, StaticAnalysis, Recheck, SaveReview, EmitQuality, SaveFinal,
     RememberLesson, AfterReviewer
<1>5. CASE Failure
  BY <1>5 DEF Failure, EmitDiagnosing, InsertFailed, EmitDiagnosis, AfterDiagnosis,
     MayRewrite, EmitEarlyStop, RewriteTests, EmitTestsRewritten, RememberFailure
<1>6. CASE Ending
  BY <1>6 DEF Ending, Raise, EmitError, FinishRun, AbandonRun, EmitRunFinished
<1>7. CASE ProcessDies \/ Restart
  BY <1>7 DEF ProcessDies, Restart, Halted, loop
<1> QED
  BY <1>1, <1>2, <1>3, <1>4, <1>5, <1>6, <1>7 DEF Next, Worker

(* `result` and the status change only where the run starts and ends.      *)
LEMMA ControlKept ==
  ASSUME TypeOK, ControlInv, [Next]_vars
  PROVE  ControlInv'
<1> USE DEF Goto, ControlInv, Waiting, Stopping, InFlight, Passing, Halted, Active,
            Emit, EmitOnly, Quiet, env
<1>0. run \in RunRow
  BY DEF TypeOK, RowsTyped
<1>1. CASE UNCHANGED vars
  BY <1>1 DEF vars, rows
<1>2. CASE Prologue
  <2>1. CASE StartRun
    BY <1>0, <2>1 DEF StartRun, RunRow
  <2>2. CASE SaveTests
    BY <1>0, <2>2 DEF SaveTests, RunRow
  <2> QED
    BY <1>2, <2>1, <2>2 DEF Prologue, EmitRunStarted, Recall, SaveMemories,
       EmitTestsWriting, EmitTestsReady
<1>3. CASE Attempt
  <2>1. CASE BeginAttempt
    BY <1>0, <2>1 DEF BeginAttempt, RunRow
  <2> QED
    BY <1>3, <2>1 DEF Attempt, EmitAttemptStarted, GenerateCode,
       EmitSandboxStarted, Verify
<1>4. CASE Success
  <2>1. CASE SaveFinal
    BY <1>0, <2>1 DEF SaveFinal, RunRow
  <2>2. CASE RememberLesson
    BY <2>2 DEF RememberLesson, Terminal
  <2>3. CASE InsertPassed \/ EmitVerified \/ StartReviewer
               \/ StaticAnalysis \/ Recheck \/ SaveReview \/ EmitQuality
    BY <2>3 DEF InsertPassed, EmitVerified, StartReviewer, StaticAnalysis, Recheck,
       SaveReview, EmitQuality
  <2>4. CASE SkipReviewer \/ EndReviewer
    BY <2>4 DEF SkipReviewer, EndReviewer, AfterReviewer
  <2> QED
    BY <1>4, <2>1, <2>2, <2>3, <2>4 DEF Success
<1>5. CASE Failure
  <2>1. CASE RewriteTests
    BY <1>0, <2>1 DEF RewriteTests, RunRow
  <2>2. CASE RememberFailure
    BY <2>2 DEF RememberFailure, GivesUp, Terminal
  <2>3. CASE EmitDiagnosis
    BY <2>3 DEF EmitDiagnosis, AfterDiagnosis
  <2> QED
    BY <1>5, <2>1, <2>2, <2>3 DEF Failure, EmitDiagnosing, InsertFailed,
       EmitEarlyStop, EmitTestsRewritten
<1>6. CASE Ending
  <2>1. CASE Raise
    BY <1>0, <2>1 DEF Raise, Terminal, rows, DbSteps, CallSteps
  <2>2. CASE FinishRun
    BY <1>0, <2>2 DEF FinishRun, RunRow
  <2> QED
    BY <1>6, <2>1, <2>2 DEF Ending, EmitError, AbandonRun, EmitRunFinished, rows
<1>7. CASE ProcessDies \/ Restart
  BY <1>7 DEF ProcessDies, Restart
<1> QED
  BY <1>1, <1>2, <1>3, <1>4, <1>5, <1>6, <1>7 DEF Next, Worker

-----------------------------------------------------------------------------
(* The rows of the attempts table.                                         *)

(* What one insertion does to them.                                        *)
LEMMA InsertEffect ==
  ASSUME TypeOK, NEW ok \in BOOLEAN, InsertAttempt(ok),
         Len(attempts) + 1 = attempt, ~Passed
  PROVE  /\ Len(attempts') = attempt
         /\ Passed' <=> ok
         /\ (\A i \in DOMAIN attempts : attempts[i].number = i) =>
              \A i \in DOMAIN attempts' :
                /\ attempts'[i].number = i
                /\ attempts'[i].passed => i = attempt
<1> DEFINE row == [number |-> attempt, passed |-> ok, code |-> code, tests |-> tests]
<1>1. attempts \in Seq(AttemptRow) /\ row \in AttemptRow
  BY DEF TypeOK, RowsTyped, LoopTyped, AttemptRow
<1>2. attempts' = Append(attempts, row)
  BY DEF InsertAttempt
<1> HIDE DEF row
<1>3. /\ Len(attempts') = Len(attempts) + 1
      /\ DOMAIN attempts = 1..Len(attempts)
      /\ DOMAIN attempts' = 1..(Len(attempts) + 1)
      /\ \A i \in 1..Len(attempts) : attempts'[i] = attempts[i]
      /\ attempts'[Len(attempts) + 1] = row
      /\ Len(attempts) \in Nat
  BY <1>1, <1>2, AppendProperties
<1>4. row.number = attempt /\ row.passed = ok
  BY DEF row
<1>5. \A i \in DOMAIN attempts' :
        attempts'[i] = (IF i = attempt THEN row ELSE attempts[i])
          /\ (i # attempt => i \in DOMAIN attempts)
  BY <1>3
<1>6. Passed' <=> ok
  BY <1>3, <1>4, <1>5 DEF Passed
<1> QED
  BY <1>3, <1>4, <1>5, <1>6 DEF Passed

LEMMA RowsKept ==
  ASSUME TypeOK, ControlInv, RowsInv, [Next]_vars
  PROVE  RowsInv'
<1> USE DEF Goto, RowsInv, Waiting, Stopping, InFlight, Passing, EmitOnly, Quiet, env
<1>0. /\ run \in RunRow /\ attempt \in Nat /\ Len(attempts) \in Nat
      /\ spec.max \in Nat
  BY PipelineAssumption DEF TypeOK, RowsTyped, LoopTyped, RunSpec
<1>p. UNCHANGED attempts => (Passed' <=> Passed)
  BY DEF Passed
<1>1. CASE UNCHANGED vars
  <2>1. UNCHANGED <<run, attempts, attempt, spec, pc, result>>
    BY <1>1 DEF vars, rows, loop
  <2>2. Lifecycle!Supported(result)' <=> Lifecycle!Supported(result)
    BY <2>1, <1>p DEF Lifecycle!Supported
  <2> QED
    BY <2>1, <2>2, <1>p
<1>2. CASE Prologue
  <2>1. CASE StartRun \/ SaveTests
    BY <1>0, <1>p, <2>1 DEF StartRun, SaveTests, RunRow, loop
  <2> QED
    BY <1>0, <1>p, <1>2, <2>1 DEF Prologue, EmitRunStarted, Recall, SaveMemories,
       EmitTestsWriting, EmitTestsReady, loop
<1>3. CASE Attempt
  <2>1. CASE BeginAttempt
    BY <1>0, <1>p, <2>1 DEF BeginAttempt, RunRow
  <2> QED
    BY <1>0, <1>p, <1>3, <2>1 DEF Attempt, EmitAttemptStarted, GenerateCode,
       EmitSandboxStarted, Verify, loop
<1>4. CASE Success
  <2>1. CASE InsertPassed
    <3>1. InsertAttempt(TRUE) /\ pc = "insertPassed" /\ pc' = "verifiedEvent"
          /\ UNCHANGED <<run, attempt, spec>>
      BY <2>1 DEF InsertPassed, loop
    <3>2. Len(attempts) + 1 = attempt /\ ~Passed
      BY <3>1
    <3>3. /\ Len(attempts') = attempt /\ Passed'
          /\ \A i \in DOMAIN attempts' :
               attempts'[i].number = i /\ (attempts'[i].passed => i = attempt)
      BY <3>1, <3>2, InsertEffect
    <3> QED
      BY <1>0, <3>1, <3>2, <3>3
  <2>2. CASE SaveFinal
    BY <1>0, <1>p, <2>2 DEF SaveFinal, RunRow, loop
  <2>3. CASE RememberLesson
    BY <1>0, <1>p, <2>3 DEF RememberLesson, loop, Lifecycle!Supported
  <2>4. CASE SkipReviewer \/ EndReviewer
    BY <1>0, <1>p, <2>4 DEF SkipReviewer, EndReviewer, AfterReviewer, loop
  <2> QED
    BY <1>0, <1>p, <1>4, <2>1, <2>2, <2>3, <2>4 DEF Success, EmitVerified,
       StartReviewer, StaticAnalysis, Recheck, SaveReview, EmitQuality, loop
<1>5. CASE Failure
  <2>1. CASE InsertFailed
    <3>1. InsertAttempt(FALSE) /\ pc = "insertFailed"
          /\ pc' \in {"diagnosisEvent", "nextAttempt"}
          /\ UNCHANGED <<run, attempt, spec>>
      BY <2>1 DEF InsertFailed
    <3>2. Len(attempts) + 1 = attempt /\ ~Passed
      BY <3>1
    <3>3. /\ Len(attempts') = attempt /\ ~Passed'
          /\ \A i \in DOMAIN attempts' :
               attempts'[i].number = i /\ (attempts'[i].passed => i = attempt)
      BY <3>1, <3>2, InsertEffect
    <3> QED
      BY <1>0, <3>1, <3>2, <3>3
  <2>2. CASE RewriteTests
    BY <1>0, <1>p, <2>2 DEF RewriteTests, RunRow
  <2>3. CASE RememberFailure
    BY <1>0, <1>p, <2>3 DEF RememberFailure, GivesUp, loop, Lifecycle!Supported
  <2>4. CASE EmitDiagnosis
    BY <1>0, <1>p, <2>4 DEF EmitDiagnosis, AfterDiagnosis
  <2> QED
    BY <1>0, <1>p, <1>5, <2>1, <2>2, <2>3, <2>4 DEF Failure, EmitDiagnosing,
       EmitEarlyStop, EmitTestsRewritten, loop
<1>6. CASE Ending
  <2>1. CASE EmitError
    BY <1>0, <1>p, <2>1 DEF EmitError, loop, ControlInv, Lifecycle!Supported
  <2>2. CASE FinishRun
    BY <1>0, <1>p, <2>2 DEF FinishRun, RunRow, loop
  <2> QED
    BY <1>0, <1>p, <1>6, <2>1, <2>2 DEF Ending, Raise, AbandonRun,
       EmitRunFinished, rows, loop
<1>7. CASE ProcessDies
  BY <1>0, <1>p, <1>7 DEF ProcessDies, Halted, rows, loop
<1>8. CASE Restart
  <2>1. pc \in Halted
    BY <1>8 DEF Restart, ControlInv
  <2>2. run'.total = run.total
    BY <1>0, <1>8 DEF Restart, Recovered, RunRow
  <2> QED
    BY <1>0, <1>p, <1>8, <2>1, <2>2 DEF Restart, Halted, loop
<1> QED
  BY <1>1, <1>2, <1>3, <1>4, <1>5, <1>6, <1>7, <1>8 DEF Next, Worker

LEMMA InvInit ==
  ASSUME Init
  PROVE  Inv
<1> USE PipelineAssumption DEF Init
<1>1. TypeOK
  <2>1. run \in RunRow
    BY DEF RunRow, Active, Tests, Codes, NoCode, Text
  <2>2. RowsTyped
    BY <2>1 DEF RowsTyped
  <2>3. LoopTyped
    BY DEF LoopTyped, Codes, NoCode, Text, Tests
  <2>4. pc \in Labels /\ agent \in Reviewers
    BY LabelsListed DEF Reviewers
  <2>5. spec \in RunSpec
    BY DEF RunSpec
  <2> QED
    BY <2>2, <2>3, <2>4, <2>5 DEF TypeOK
<1>2. RewriteLeft /\ ControlInv
  BY DEF RewriteLeft, ControlInv, Waiting, Halted
<1>3. RowsInv
  <2>1. Len(attempts) = 0 /\ DOMAIN attempts = {} /\ ~Passed
    BY DEF Passed
  <2>2. spec.max \in Nat \ {0}
    OBVIOUS
  <2> QED
    BY <2>1, <2>2 DEF RowsInv, Waiting, Stopping, InFlight, Passing
<1> QED
  BY <1>1, <1>2, <1>3 DEF Inv

LEMMA InvKept ==
  ASSUME Inv, [Next]_vars
  PROVE  Inv'
BY StepTyped, RewriteLeftKept, ControlKept, RowsKept DEF Inv

LEMMA Invariance == Spec => []Inv
<1>1. Inv /\ [Next]_vars => Inv'
  BY InvKept
<1> QED
  BY <1>1, InvInit, PTL DEF Spec

-----------------------------------------------------------------------------
(* What was accepted, recorded and kept.                                   *)

(* The last row is the code in hand, the sandbox accepted it, and a        *)
(* documented version is only waiting to be kept once it was accepted too. *)
DeliveryInv ==
  /\ code.docs = FALSE
  /\ documented => pc \in {"recheck", "saveReview", "quality", "saveFinal",
                           "rememberLesson"} \cup EndSteps \cup Halted
  /\ pc \in {"insertPassed"} \cup Passing => <<code, tests>> \in verified
  /\ pc \in Passing => attempts[Len(attempts)].code = code
                         /\ attempts[Len(attempts)].tests = tests
  /\ pc \in {"saveReview", "quality", "saveFinal"} /\ documented =>
       <<Documented(code), tests>> \in verified
  /\ pc = "rememberLesson" => Delivered
  /\ pc = "finish" /\ result = "success" => Delivered
  /\ FinalCodeVerified

LEMMA DeliveredKept ==
  ASSUME Delivered, UNCHANGED attempts, verified \subseteq verified',
         run'.final = run.final, run'.docs = run.docs
  PROVE  Delivered'
BY DEF Delivered

(* Steps that touch nothing of this but pc.                                *)
LEMMA DeliveryUntouched ==
  ASSUME DeliveryInv, UNCHANGED <<run, attempts, code, tests, verified, documented>>,
         pc' \in Passing => pc \in Passing,
         pc' = "insertPassed" => pc = "insertPassed",
         documented => pc' \in {"recheck", "saveReview", "quality", "saveFinal",
                                "rememberLesson"} \cup EndSteps \cup Halted,
         pc' \in {"saveReview", "quality", "saveFinal"} /\ documented =>
           pc \in {"saveReview", "quality", "saveFinal"},
         pc' = "rememberLesson" => pc = "rememberLesson",
         pc' = "finish" /\ result' = "success" =>
           pc = "rememberLesson" \/ (pc = "finish" /\ result = "success")
  PROVE  DeliveryInv'
BY DeliveredKept DEF DeliveryInv, FinalCodeVerified, Passing, Documented

LEMMA DeliveryKept ==
  ASSUME Inv, DeliveryInv, [Next]_vars
  PROVE  DeliveryInv'
<1> USE DEF Goto, EmitOnly, Quiet, env
<1>0. /\ run \in RunRow /\ code \in Codes
      /\ attempts \in Seq(AttemptRow) /\ Len(attempts) \in Nat
  BY DEF Inv, TypeOK, RowsTyped, LoopTyped
<1>1. CASE UNCHANGED vars
  BY <1>1, DeliveryUntouched DEF vars, rows, loop, review, DeliveryInv
<1>2. CASE Prologue
  <2>1. CASE StartRun \/ SaveTests
    <3>1. /\ run'.final = run.final /\ run'.docs = run.docs
          /\ run'.status = "running" \/ run'.status = run.status
          /\ pc' \in {"runStarted", "testsReady"}
          /\ pc \in {"start", "saveTests"}
          /\ UNCHANGED <<attempts, code, verified, documented>>
      BY <1>0, <2>1 DEF StartRun, SaveTests, RunRow, loop, review
    <3> QED
      BY <3>1, DeliveredKept DEF DeliveryInv, FinalCodeVerified, Passing, EndSteps, Halted
  <2> QED
    BY <1>2, <2>1, DeliveryUntouched DEF Prologue, EmitRunStarted, Recall,
       SaveMemories, EmitTestsWriting, EmitTestsReady, DeliveryInv, Passing,
       EndSteps, Halted, loop, review
<1>3. CASE Attempt
  <2>1. CASE BeginAttempt
    <3>1. /\ run'.final = run.final /\ run'.docs = run.docs /\ run'.status = run.status
          /\ pc' = "attemptStarted" /\ pc = "nextAttempt"
          /\ UNCHANGED <<attempts, code, verified, documented>>
      BY <1>0, <2>1 DEF BeginAttempt, RunRow, review
    <3> QED
      BY <3>1, DeliveredKept DEF DeliveryInv, FinalCodeVerified, Passing, EndSteps, Halted
  <2>2. CASE GenerateCode
    <3>1. /\ code'.docs = FALSE /\ pc' = "sandboxStarted" /\ pc = "generate"
          /\ UNCHANGED <<run, attempts, verified, documented>>
      BY <2>2 DEF GenerateCode, Text, review
    <3> QED
      BY <3>1, DeliveredKept DEF DeliveryInv, FinalCodeVerified, Passing, EndSteps, Halted
  <2>3. CASE Verify
    <3>1. /\ pc = "verify" /\ pc' \in {"insertPassed", "insertFailed", "diagnosing"}
          /\ pc' = "insertPassed" => <<code, tests>> \in verified'
          /\ verified \subseteq verified'
          /\ UNCHANGED <<run, attempts, code, tests, documented>>
      BY <2>3 DEF Verify, Accept, review
    <3> QED
      BY <3>1, DeliveredKept DEF DeliveryInv, FinalCodeVerified, Passing, EndSteps, Halted
  <2> QED
    BY <1>3, <2>1, <2>2, <2>3, DeliveryUntouched DEF Attempt, EmitAttemptStarted,
       EmitSandboxStarted, DeliveryInv, Passing, EndSteps, Halted, loop, review
<1>4. CASE Success
  <2>1. CASE InsertPassed
    <3>1. /\ pc = "insertPassed" /\ pc' = "verifiedEvent" /\ InsertAttempt(TRUE)
          /\ UNCHANGED <<run, code, tests, verified, documented>>
          /\ run.status # "success"
      BY <2>1 DEF InsertPassed, loop, review, Inv, ControlInv, InFlight
    <3>2. attempts'[Len(attempts')].code = code /\ attempts'[Len(attempts')].tests = tests
      <4> DEFINE row == [number |-> attempt, passed |-> TRUE, code |-> code, tests |-> tests]
      <4>1. row \in AttemptRow /\ attempts' = Append(attempts, row)
        BY <3>1 DEF Inv, TypeOK, LoopTyped, AttemptRow, InsertAttempt
      <4>2. attempts'[Len(attempts')] = row
        BY <1>0, <4>1, AppendProperties
      <4> QED
        BY <4>2
    <3> QED
      BY <3>1, <3>2 DEF DeliveryInv, FinalCodeVerified, Passing, EndSteps, Halted
  <2>2. CASE Recheck
    <3>1. /\ pc = "recheck" /\ pc' = "saveReview" /\ verified \subseteq verified'
          /\ documented' => <<Documented(code), tests>> \in verified'
          /\ UNCHANGED <<run, attempts, code, tests>>
      BY <2>2 DEF Recheck, Accept, KeepDocs, loop
    <3> QED
      BY <3>1, DeliveredKept
         DEF DeliveryInv, FinalCodeVerified, Passing, EndSteps, Halted, Documented
  <2>3. CASE SaveFinal
    <3>1. /\ pc = "saveFinal" /\ pc' = "rememberLesson"
          /\ run'.final = (IF documented THEN Documented(code) ELSE code)
          /\ run'.docs = documented /\ run'.status = run.status
          /\ run.status # "success"
          /\ UNCHANGED <<attempts, code, tests, verified, documented>>
      BY <1>0, <2>3 DEF SaveFinal, RunRow, loop, review, Inv, ControlInv, Passing
    <3>2. \E i \in DOMAIN attempts : i = Len(attempts) /\ attempts[i].passed
      BY <3>1 DEF Inv, RowsInv, Passing, Passed
    <3>3. documented \in BOOLEAN /\ Documented(code) # code /\ Documented(code).docs
      BY <1>0 DEF DeliveryInv, Documented, Codes, Inv, TypeOK
    <3>4. Delivered'
      BY <3>1, <3>2, <3>3 DEF DeliveryInv, Delivered, Passing, Documented
    <3> QED
      BY <3>1, <3>4 DEF DeliveryInv, FinalCodeVerified, Passing, EndSteps, Halted
  <2>4. CASE EndReviewer
    <3>1. /\ pc = "agentBusy" /\ UNCHANGED <<run, attempts, code, tests, verified>>
          /\ pc' \in {"agent", "staticAnalysis", "recheck", "saveReview"}
          /\ documented' => pc' = "recheck"
      BY <2>4 DEF EndReviewer, AfterReviewer, loop
    <3> QED
      BY <3>1, DeliveredKept DEF DeliveryInv, FinalCodeVerified, Passing, EndSteps, Halted
  <2>5. CASE SkipReviewer
    BY <2>5, DeliveryUntouched DEF SkipReviewer, AfterReviewer, DeliveryInv, Passing,
       EndSteps, Halted, loop
  <2> QED
    BY <1>4, <2>1, <2>2, <2>3, <2>4, <2>5, DeliveryUntouched DEF Success,
       EmitVerified, StartReviewer, StaticAnalysis, SaveReview, EmitQuality,
       RememberLesson, DeliveryInv, Passing, EndSteps, Halted, loop, review
<1>5. CASE Failure
  <2>1. CASE InsertFailed
    <3>1. /\ pc = "insertFailed" /\ pc' \in {"diagnosisEvent", "nextAttempt"}
          /\ UNCHANGED <<run, code, tests, verified, documented>>
          /\ run.status # "success"
      BY <2>1 DEF InsertFailed, review, Inv, ControlInv, InFlight
    <3> QED
      BY <3>1 DEF DeliveryInv, FinalCodeVerified, Passing, EndSteps, Halted
  <2>2. CASE RewriteTests
    <3>1. /\ pc = "rewriteTests" /\ pc' \in {"nextAttempt", "testsRewritten"}
          /\ run'.status = run.status /\ run.status # "success"
          /\ UNCHANGED <<attempts, code, verified, documented>>
      BY <1>0, <2>2 DEF RewriteTests, RunRow, review, Inv, ControlInv, Waiting
    <3> QED
      BY <3>1 DEF DeliveryInv, FinalCodeVerified, Passing, EndSteps, Halted
  <2>3. CASE RememberFailure
    BY <2>3, DeliveryUntouched DEF RememberFailure, GivesUp, DeliveryInv, Passing,
       EndSteps, Halted, loop, review
  <2>4. CASE EmitDiagnosis
    BY <2>4, DeliveryUntouched DEF EmitDiagnosis, AfterDiagnosis, DeliveryInv, Passing,
       EndSteps, Halted, review
  <2> QED
    BY <1>5, <2>1, <2>2, <2>3, <2>4, DeliveryUntouched DEF Failure, EmitDiagnosing,
       EmitEarlyStop, EmitTestsRewritten, DeliveryInv, Passing, EndSteps, Halted,
       loop, review
<1>6. CASE Ending
  <2>1. CASE FinishRun
    <3>1. /\ pc = "finish" /\ pc' = "finishedEvent"
          /\ run'.final = run.final /\ run'.docs = run.docs /\ run'.status = result
          /\ UNCHANGED <<attempts, code, tests, verified, documented>>
      BY <1>0, <2>1 DEF FinishRun, RunRow, loop, review
    <3> QED
      BY <3>1, DeliveredKept DEF DeliveryInv, FinalCodeVerified, Passing, EndSteps, Halted
  <2>2. CASE EmitError
    BY <2>2, DeliveryUntouched DEF EmitError, DeliveryInv, Passing, EndSteps, Halted,
       loop, review, Inv, ControlInv
  <2> QED
    BY <1>6, <2>1, <2>2, DeliveryUntouched DEF Ending, Raise, AbandonRun,
       EmitRunFinished, DeliveryInv, Passing, EndSteps, Halted, rows, loop, review
<1>7. CASE ProcessDies
  BY <1>7, DeliveryUntouched DEF ProcessDies, DeliveryInv, Passing, EndSteps, Halted,
     rows, loop, review
<1>8. CASE Restart
  <2>1. /\ run'.final = run.final /\ run'.docs = run.docs
        /\ run'.status \in {run.status, "failed"}
        /\ pc \in Halted
        /\ UNCHANGED <<attempts, code, tests, verified, documented, pc>>
    BY <1>0, <1>8 DEF Restart, Recovered, RunRow, loop, review, Inv, ControlInv
  <2> QED
    BY <2>1, DeliveredKept DEF DeliveryInv, FinalCodeVerified, Passing, EndSteps, Halted
<1> QED
  BY <1>1, <1>2, <1>3, <1>4, <1>5, <1>6, <1>7, <1>8 DEF Next, Worker

-----------------------------------------------------------------------------
(* The theorems about its rows.                                            *)

(* Every variable keeps its type: in particular the attempt number stays   *)
(* within max_attempts, and the tests are rewritten at most                *)
(* MAX_TEST_REWRITES times (lines 235 and 300-301).                        *)
THEOREM TypeCorrect == Spec => []TypeOK
<1>1. Inv => TypeOK
  BY DEF Inv
<1> QED
  BY <1>1, Invariance, PTL

(* Whatever crashes and errors come between the transactions, the attempt  *)
(* rows are numbered without gap or repetition, none follows a pass, and   *)
(* runs.total_attempts counts them (lines 236, 257, 279).                  *)
THEOREM AttemptsStayInStep == Spec => []AttemptsInStep
<1>1. Inv => AttemptsInStep
  BY DEF Inv, RowsInv, AttemptsInStep
<1> QED
  BY <1>1, Invariance, PTL

(* A run as its readers see it, whatever its reviews, tests, lost events,  *)
(* errors and crashes are, is a run of RunLifecycle: it is queued, runs,   *)
(* records its attempts, and concludes once, with a status its attempts    *)
(* support.                                                                *)
THEOREM ImplementsLifecycle == Spec => RefinesLifecycle
<1>1. Init => Lifecycle!Init
  BY InvInit DEF Init, Lifecycle!Init, Passed
<1>2. Inv /\ Inv' /\ [Next]_vars => [Lifecycle!Next]_Lifecycle!vars
  <2> SUFFICES ASSUME Inv, Inv', Next
               PROVE  Lifecycle!Next \/ UNCHANGED Lifecycle!vars
    BY DEF vars, rows, env, Lifecycle!vars, Passed
  <2> USE DEF Goto, EmitOnly, Quiet, env
  <2>0. run \in RunRow /\ Len(attempts) \in Nat /\ attempt \in Nat /\ spec.max \in Nat
    BY PipelineAssumption DEF Inv, TypeOK, RowsTyped, LoopTyped, RunSpec
  <2>a. UNCHANGED <<run, attempts, spec>> => UNCHANGED Lifecycle!vars
    BY DEF Lifecycle!vars, Passed
  <2>b. UNCHANGED <<attempts, spec>> /\ run'.status = run.status
          => UNCHANGED Lifecycle!vars
    BY DEF Lifecycle!vars, Passed
  <2>1. CASE StartRun
    <3>1. run.status = "queued" /\ run'.status = "running" /\ UNCHANGED <<attempts, spec>>
      BY <2>0, <2>1 DEF StartRun, Inv, ControlInv, Waiting, RunRow
    <3> QED
      BY <3>1 DEF Lifecycle!Next, Lifecycle!Begin, Passed
  <2>2. CASE SaveTests \/ BeginAttempt \/ SaveFinal
    BY <2>0, <2>b, <2>2 DEF SaveTests, BeginAttempt, SaveFinal, RunRow
  <2>3. CASE RewriteTests
    BY <2>0, <2>b, <2>3 DEF RewriteTests, RunRow
  <2>4. ASSUME NEW ok \in BOOLEAN, InsertAttempt(ok), pc \in {"insertPassed", "insertFailed"},
               UNCHANGED <<run, spec>>
        PROVE  Lifecycle!Record(ok)
    <3>1. /\ run.status = "running" /\ ~Passed
          /\ Len(attempts) + 1 = attempt /\ attempt <= spec.max
      BY <2>4 DEF Inv, ControlInv, RowsInv, InFlight
    <3>2. Len(attempts') = attempt /\ (Passed' <=> ok)
      BY <2>4, <3>1, InsertEffect DEF Inv
    <3>3. Passed' = ok
      BY <3>2 DEF Passed
    <3> QED
      BY <2>0, <2>4, <3>1, <3>2, <3>3 DEF Lifecycle!Record
  <2>5. CASE InsertPassed \/ InsertFailed
    BY <2>4, <2>5 DEF InsertPassed, InsertFailed, Lifecycle!Next
  <2>6. CASE FinishRun
    <3>1. /\ run.status \in Active /\ result \in Terminal
          /\ result # "failed" => run.status = "running"
          /\ Lifecycle!Supported(result)
      BY <2>6 DEF FinishRun, Inv, ControlInv, RowsInv
    <3>2. run'.status = result /\ UNCHANGED <<attempts, spec>>
      BY <2>0, <2>6 DEF FinishRun, RunRow
    <3>3. Lifecycle!Conclude(result)
      BY <3>1, <3>2 DEF Lifecycle!Conclude, Lifecycle!Active, Active, Passed
    <3> QED
      BY <3>1, <3>3 DEF Lifecycle!Next, Lifecycle!Terminal, Terminal
  <2>7. CASE Restart
    <3>1. CASE run.status \in Active
      <4>1. run'.status = "failed" /\ UNCHANGED <<attempts, spec>>
        BY <2>0, <2>7, <3>1 DEF Restart, Recovered, RunRow
      <4>2. Lifecycle!Conclude("failed")
        BY <3>1, <4>1 DEF Lifecycle!Conclude, Lifecycle!Supported, Lifecycle!Active,
           Active, Passed
      <4> QED
        BY <4>2 DEF Lifecycle!Next, Lifecycle!Terminal
    <3>2. CASE run.status \notin Active
      BY <2>a, <2>7, <3>2 DEF Restart, Recovered
    <3> QED
      BY <3>1, <3>2
  <2>8. CASE Prologue /\ ~StartRun /\ ~SaveTests
    BY <2>a, <2>8 DEF Prologue, EmitRunStarted, Recall, SaveMemories,
       EmitTestsWriting, EmitTestsReady
  <2>9. CASE Attempt /\ ~BeginAttempt
    BY <2>a, <2>9 DEF Attempt, EmitAttemptStarted, GenerateCode,
       EmitSandboxStarted, Verify
  <2>10. CASE Success /\ ~InsertPassed /\ ~SaveFinal
    BY <2>a, <2>10 DEF Success, EmitVerified, SkipReviewer, StartReviewer,
       EndReviewer, StaticAnalysis, Recheck, SaveReview, EmitQuality, RememberLesson
  <2>11. CASE Failure /\ ~InsertFailed /\ ~RewriteTests
    BY <2>a, <2>11 DEF Failure, EmitDiagnosing, EmitDiagnosis, EmitEarlyStop,
       EmitTestsRewritten, RememberFailure
  <2>12. CASE (Ending /\ ~FinishRun) \/ ProcessDies
    BY <2>a, <2>12 DEF Ending, Raise, EmitError, AbandonRun, EmitRunFinished,
       ProcessDies, rows
  <2> QED
    BY <2>1, <2>2, <2>3, <2>5, <2>6, <2>7, <2>8, <2>9, <2>10, <2>11, <2>12
       DEF Next, Worker, Prologue, Attempt, Success, Failure, Ending
<1> QED
  BY <1>1, <1>2, Invariance, PTL DEF Spec, RefinesLifecycle, Lifecycle!Spec

(* A run that says "success" delivers a text the sandbox accepted with the *)
(* tests of its passing attempt: documentation is kept only if it passed   *)
(* again (lines 156-164, 256-265).                                         *)
THEOREM DeliveredCodePassed == Spec => []FinalCodeVerified
<1>1. Init => DeliveryInv
  BY DEF Init, DeliveryInv, FinalCodeVerified, NoCode, Text, Passing
<1>2. Inv /\ DeliveryInv /\ [Next]_vars => DeliveryInv'
  BY DeliveryKept
<1>3. DeliveryInv => FinalCodeVerified
  BY DEF DeliveryInv, FinalCodeVerified
<1> QED
  BY <1>1, <1>2, <1>3, Invariance, PTL DEF Spec

-----------------------------------------------------------------------------
(***************************************************************************)
(* What a run tells of itself - its events, what it gives to the next      *)
(* repair, what it leaves in the vector memory, the tests its certificate  *)
(* will name - is true of its rows.                                        *)
(***************************************************************************)
(* The invariants, beside the one of PipelineProofs.                       *)

(* The last event is written by the last step of a worker, after the last  *)
(* update of its run.                                                      *)
VerdictInv ==
  /\ \A i \in DOMAIN events : events[i].type = "run_finished" =>
       /\ pc = "done" /\ i = Len(events)
       /\ events[i].status = run.status /\ run.closed /\ run.status \in Terminal
  /\ pc = "finishedEvent" => run.status = result /\ run.closed /\ result \in Terminal

(* Code and error in hand are those of the last finished attempt until the *)
(* next one produces its own; the diagnosis is too, or there is none.      *)
About(n) == feedback = n /\ code \in {NoCode, Text(n)}

RepairInv ==
  /\ pc \in Waiting =>
       About(attempt) /\ diagnosis \in {0, attempt} /\ (diagnosis # 0 => diag.given)
  /\ pc \in {"attemptStarted", "generate"} =>
       /\ About(attempt - 1) /\ diagnosis \in {0, attempt - 1}
       /\ diagnosis # 0 => diag.given
  /\ pc \in {"sandboxStarted", "verify"} => code \in {NoCode, Text(attempt)}
  /\ pc \in {"diagnosing", "insertFailed"} \cup Stopping => About(attempt)
  /\ pc = "diagnosisEvent" => diag.given

(* The first error is that of attempt 1, and a lesson is older than an     *)
(* attempt under way or passed.                                            *)
LessonInv ==
  /\ firstError \in {0, 1}
  /\ attempt > 1 => firstError = 1
  /\ pc \in {"diagnosing", "insertFailed"} \cup Stopping => firstError = 1
  /\ pc \in Waiting /\ attempt > 0 => firstError = 1
  /\ lesson <= attempt
  /\ pc \in InFlight \cup Passing => lesson < attempt

(* Memory is written at the end, and no row is inserted after that.        *)
StoredInv ==
  /\ pc \notin {"finish", "finishedEvent"} \cup Halted => stored = <<>>
  /\ Len(stored) <= 1
  /\ \A i \in DOMAIN stored :
       IF stored[i].kind = "lesson"
       THEN /\ Passed /\ stored[i].error = 1
            /\ stored[i].lesson \in 1..(Len(attempts) - 1)
       ELSE ~Passed /\ stored[i].error = Len(attempts)

-----------------------------------------------------------------------------
(* What the worker says, and when.                                         *)

Said(type) ==
  /\ events' = Append(events, [type |-> type, attempt |-> attempt, status |-> result])
  /\ UNCHANGED <<run, attempts>>
  /\ type = "run_finished" <=> pc = "finishedEvent"
  /\ type = "verified" => pc = "verifiedEvent"
  /\ type = "diagnosis" => pc = "diagnosisEvent"

LEMMA EmitSays ==
  ASSUME NEW type \in EventTypes, Emit(type), UNCHANGED <<run, attempts>>,
         type = "run_finished" <=> pc = "finishedEvent",
         type = "verified" => pc = "verifiedEvent",
         type = "diagnosis" => pc = "diagnosisEvent"
  PROVE  UNCHANGED events \/ \E t \in EventTypes : Said(t)
BY DEF Emit, Said

(* Every event is of its step: nothing is announced by another one.        *)
LEMMA WorkerSays ==
  ASSUME Worker
  PROVE  UNCHANGED events \/ \E type \in EventTypes : Said(type)
<1> USE EmitSays DEF Goto, EmitOnly, EventTypes
<1>1. CASE Prologue
  <2>1. CASE Recall
    BY <2>1 DEF Recall
  <2>2. CASE EmitRunStarted
    BY <2>2 DEF EmitRunStarted
  <2>3. CASE EmitTestsWriting
    BY <2>3 DEF EmitTestsWriting
  <2>4. CASE EmitTestsReady
    BY <2>4 DEF EmitTestsReady
  <2> QED
    BY <1>1, <2>1, <2>2, <2>3, <2>4 DEF Prologue, StartRun, SaveMemories, SaveTests,
       Quiet
<1>2. CASE Attempt
  <2>1. CASE EmitAttemptStarted
    BY <2>1 DEF EmitAttemptStarted
  <2>2. CASE GenerateCode
    BY <2>2 DEF GenerateCode
  <2>3. CASE EmitSandboxStarted
    BY <2>3 DEF EmitSandboxStarted
  <2>4. CASE Verify
    <3>1. Emit("sandbox_result") /\ pc = "verify" /\ UNCHANGED <<run, attempts>>
      BY <2>4 DEF Verify
    <3> QED
      BY <3>1
  <2> QED
    BY <1>2, <2>1, <2>2, <2>3, <2>4 DEF Attempt, BeginAttempt, Quiet
<1>3. CASE Success
  <2>1. CASE EmitVerified
    BY <2>1 DEF EmitVerified
  <2>2. CASE SkipReviewer \/ StartReviewer \/ EndReviewer
    <3>1. EmitOnly("review") /\ pc \in {"agent", "agentBusy"}
      BY <2>2 DEF SkipReviewer, StartReviewer, EndReviewer
    <3> QED
      BY <3>1
  <2>3. CASE StaticAnalysis
    BY <2>3 DEF StaticAnalysis
  <2>4. CASE Recheck
    BY <2>4 DEF Recheck
  <2>5. CASE EmitQuality
    BY <2>5 DEF EmitQuality
  <2> QED
    BY <1>3, <2>1, <2>2, <2>3, <2>4, <2>5 DEF Success, InsertPassed, SaveReview,
       SaveFinal, RememberLesson, Quiet
<1>4. CASE Failure
  <2>1. CASE EmitDiagnosing
    BY <2>1 DEF EmitDiagnosing
  <2>2. CASE EmitDiagnosis
    BY <2>2 DEF EmitDiagnosis
  <2>3. CASE EmitEarlyStop
    BY <2>3 DEF EmitEarlyStop
  <2>4. CASE EmitTestsRewritten
    BY <2>4 DEF EmitTestsRewritten
  <2> QED
    BY <1>4, <2>1, <2>2, <2>3, <2>4 DEF Failure, InsertFailed, RewriteTests,
       RememberFailure, Quiet
<1>5. CASE Ending
  <2>1. CASE EmitError
    BY <2>1 DEF EmitError
  <2>2. CASE EmitRunFinished
    BY <2>2 DEF EmitRunFinished
  <2> QED
    BY <1>5, <2>1, <2>2 DEF Ending, Raise, FinishRun, AbandonRun, Quiet, rows
<1> QED
  BY <1>1, <1>2, <1>3, <1>4, <1>5 DEF Worker

(* Until the last update a worker stays at work; then it has two steps.    *)
Open == pc \notin Halted \cup {"finishedEvent"}

LEMMA WorkerPlaces ==
  ASSUME Worker
  PROVE  \/ Open /\ Open' /\ UNCHANGED up
         \/ FinishRun \/ AbandonRun \/ EmitRunFinished
<1> USE DEF Goto, Open, Halted, EmitOnly, Quiet, env
<1>1. CASE Prologue
  BY <1>1 DEF Prologue, StartRun, EmitRunStarted, Recall, SaveMemories,
     EmitTestsWriting, SaveTests, EmitTestsReady
<1>2. CASE Attempt
  BY <1>2 DEF Attempt, BeginAttempt, EmitAttemptStarted, GenerateCode,
     EmitSandboxStarted, Verify
<1>3. CASE Success
  BY <1>3 DEF Success, InsertPassed, EmitVerified, SkipReviewer, StartReviewer,
     EndReviewer, AfterReviewer, StaticAnalysis, Recheck, SaveReview, EmitQuality,
     SaveFinal, RememberLesson
<1>4. CASE Failure
  BY <1>4 DEF Failure, EmitDiagnosing, InsertFailed, EmitDiagnosis, AfterDiagnosis,
     EmitEarlyStop, RewriteTests, EmitTestsRewritten, RememberFailure, GivesUp
<1>5. CASE Raise \/ EmitError
  BY <1>5 DEF Raise, EmitError, DbSteps, CallSteps
<1> QED
  BY <1>1, <1>2, <1>3, <1>4, <1>5 DEF Worker, Ending

(* What one more event does to the list.                                   *)
LEMMA EventAppended ==
  ASSUME TypeOK, NEW type \in EventTypes, Said(type)
  PROVE  /\ Len(events) \in Nat /\ Len(events') = Len(events) + 1
         /\ DOMAIN events = 1..Len(events)
         /\ DOMAIN events' = 1..(Len(events) + 1)
         /\ \A i \in 1..Len(events) : events'[i] = events[i]
         /\ events'[Len(events) + 1].type = type
         /\ events'[Len(events) + 1].attempt = attempt
         /\ events'[Len(events) + 1].status = result
<1> DEFINE event == [type |-> type, attempt |-> attempt, status |-> result]
<1>1. event \in EventRow /\ events \in Seq(EventRow) /\ events' = Append(events, event)
  BY DEF TypeOK, RowsTyped, LoopTyped, EventRow, Said
<1>2. event.type = type /\ event.attempt = attempt /\ event.status = result
  OBVIOUS
<1> HIDE DEF event
<1> QED
  BY <1>1, <1>2, AppendProperties

-----------------------------------------------------------------------------
(* The events.                                                             *)

LEMMA VerdictKept ==
  ASSUME Inv, VerdictInv, [Next]_vars
  PROVE  VerdictInv'
<1>1. CASE UNCHANGED vars
  BY <1>1 DEF vars, rows, VerdictInv
<1>2. CASE Worker
  <2>1. pc \notin Halted
    BY <1>2, WorkerPlaces DEF Open, Halted, FinishRun, AbandonRun, EmitRunFinished, Goto
  <2>2. \A i \in DOMAIN events : events[i].type # "run_finished"
    BY <2>1 DEF VerdictInv, Halted
  <2>3. pc' = "finishedEvent" => FinishRun
    BY <1>2, WorkerPlaces DEF Open, AbandonRun, EmitRunFinished, Goto
  <2>4. FinishRun => run'.status = result /\ run'.closed /\ result' = result
                       /\ result \in Terminal
    BY DEF FinishRun, Goto, Inv, TypeOK, RowsTyped, RunRow, ControlInv
  <2>5. CASE UNCHANGED events
    BY <2>2, <2>3, <2>4, <2>5 DEF VerdictInv
  <2>6. CASE \E type \in EventTypes : Said(type)
    <3>1. PICK type \in EventTypes : Said(type)
      BY <2>6
    <3>2. ASSUME NEW i \in DOMAIN events', events'[i].type = "run_finished"
          PROVE  /\ i = Len(events') /\ pc = "finishedEvent"
                 /\ events'[i].status = result
      BY <2>2, <3>1, <3>2, EventAppended DEF Inv, Said
    <3>3. pc = "finishedEvent" => pc' = "done" /\ UNCHANGED run
      BY <1>2, WorkerPlaces DEF Open, FinishRun, AbandonRun, EmitRunFinished, Goto,
         EmitOnly
    <3> QED
      BY <2>3, <2>4, <3>2, <3>3 DEF VerdictInv
  <2> QED
    BY <1>2, <2>5, <2>6, WorkerSays
<1>3. CASE ProcessDies
  BY <1>3 DEF ProcessDies, rows, VerdictInv, Halted
<1>4. CASE Restart
  <2>1. pc \in Halted /\ UNCHANGED <<events, pc>> /\ run' = Recovered(run)
    BY <1>4 DEF Restart, Inv, ControlInv
  <2>2. run.status \in Terminal => run' = run
    BY <2>1 DEF Recovered, Active, Terminal
  <2> QED
    BY <2>1, <2>2 DEF VerdictInv, Halted
<1> QED
  BY <1>1, <1>2, <1>3, <1>4 DEF Next

(* Rows of attempts are only inserted.                                     *)
LEMMA AttemptsWritten ==
  ASSUME [Next]_vars
  PROVE  UNCHANGED attempts \/ \E ok \in BOOLEAN : InsertAttempt(ok)
BY DEF Next, vars, rows, Worker, Prologue, Attempt, Success, Failure, Ending,
 StartRun, EmitRunStarted, Recall, SaveMemories, EmitTestsWriting, SaveTests,
 EmitTestsReady, BeginAttempt, EmitAttemptStarted, GenerateCode,
 EmitSandboxStarted, Verify, InsertPassed, EmitVerified, SkipReviewer,
 StartReviewer, EndReviewer, StaticAnalysis, Recheck, SaveReview, EmitQuality,
 SaveFinal, RememberLesson, EmitDiagnosing, InsertFailed, EmitDiagnosis,
 EmitEarlyStop, RewriteTests, EmitTestsRewritten, RememberFailure,
 Raise, EmitError, FinishRun, AbandonRun, EmitRunFinished, ProcessDies, Restart,
 EmitOnly

(* Rows are only ever added.                                               *)
LEMMA RowsGrow ==
  ASSUME Inv, [Next]_vars
  PROVE  /\ \A i \in DOMAIN attempts : i \in DOMAIN attempts' /\ attempts'[i] = attempts[i]
         /\ run.total <= run'.total
<1>1. UNCHANGED attempts \/ \E ok \in BOOLEAN : InsertAttempt(ok)
  BY AttemptsWritten
<1>2. ASSUME NEW ok \in BOOLEAN, InsertAttempt(ok)
      PROVE  \A i \in DOMAIN attempts : i \in DOMAIN attempts' /\ attempts'[i] = attempts[i]
  <2> DEFINE row == [number |-> attempt, passed |-> ok, code |-> code, tests |-> tests]
  <2>1. attempts \in Seq(AttemptRow) /\ row \in AttemptRow
          /\ attempts' = Append(attempts, row)
    BY <1>2 DEF Inv, TypeOK, RowsTyped, LoopTyped, AttemptRow, InsertAttempt
  <2> HIDE DEF row
  <2> QED
    BY <2>1, AppendProperties
<1>3. Inv'
  BY InvKept
<1>4. attempt \in Nat /\ attempt' \in Nat /\ (attempt' = attempt \/ BeginAttempt)
  <2>1. attempt' = attempt \/ BeginAttempt
    BY DEF Next, vars, loop, Worker, Prologue, Attempt, Success, Failure, Ending,
     StartRun, EmitRunStarted, Recall, SaveMemories, EmitTestsWriting, SaveTests,
     EmitTestsReady, EmitAttemptStarted, GenerateCode,
     EmitSandboxStarted, Verify, InsertPassed, EmitVerified, SkipReviewer,
     StartReviewer, EndReviewer, StaticAnalysis, Recheck, SaveReview, EmitQuality,
     SaveFinal, RememberLesson, EmitDiagnosing, InsertFailed, EmitDiagnosis,
     EmitEarlyStop, RewriteTests, EmitTestsRewritten, RememberFailure,
     Raise, EmitError, FinishRun, AbandonRun, EmitRunFinished, ProcessDies, Restart
  <2> QED
    BY <1>3, <2>1, PipelineAssumption DEF Inv, TypeOK, LoopTyped
<1>5. run.total = attempt /\ run'.total = attempt'
  BY <1>3 DEF Inv, RowsInv
<1> QED
  BY <1>1, <1>2, <1>4, <1>5 DEF BeginAttempt

LEMMA BackedKept ==
  ASSUME Inv, StoryBackedByRows, [Next]_vars
  PROVE  StoryBackedByRows'
<1>1. UNCHANGED events \/ \E type \in EventTypes : Said(type)
  BY WorkerSays DEF Next, vars, rows, ProcessDies, Restart
<1>0. /\ events \in Seq(EventRow) /\ run.total \in Nat /\ run'.total \in Nat
      /\ \A i \in DOMAIN events : events[i].attempt \in Nat
  <2>1. events \in Seq(EventRow) /\ run.total \in Nat
    BY PipelineAssumption DEF Inv, TypeOK, RowsTyped, RunRow
  <2>2. run'.total \in Nat
    BY InvKept, PipelineAssumption DEF Inv, TypeOK, RowsTyped, RunRow
  <2>3. \A e \in EventRow : e.attempt \in Nat
    BY PipelineAssumption DEF EventRow
  <2> QED
    BY <2>1, <2>2, <2>3
<1>2. ASSUME NEW i \in DOMAIN events
      PROVE  /\ events[i].attempt <= run'.total
             /\ events[i].type = "verified" =>
                  events[i].attempt \in DOMAIN attempts'
                    /\ attempts'[events[i].attempt].passed
             /\ events[i].type = "diagnosis" =>
                  events[i].attempt \in DOMAIN attempts'
                    /\ ~attempts'[events[i].attempt].passed
  BY <1>0, <1>2, RowsGrow DEF StoryBackedByRows
<1>3. CASE UNCHANGED events
  BY <1>2, <1>3 DEF StoryBackedByRows
<1>4. CASE \E type \in EventTypes : Said(type)
  <2>1. PICK type \in EventTypes : Said(type)
    BY <1>4
  <2>2. attempt <= run.total /\ UNCHANGED <<run, attempts>>
    BY <1>0, <2>1 DEF Said, Inv, RowsInv
  <2>3. type = "verified" => attempt \in DOMAIN attempts /\ attempts[attempt].passed
    <3>1. SUFFICES ASSUME type = "verified"
                   PROVE  attempt \in DOMAIN attempts /\ attempts[attempt].passed
      OBVIOUS
    <3> QED
      BY <2>1, <3>1 DEF Said, Inv, RowsInv, Passing, Passed
  <2>4. type = "diagnosis" => attempt \in DOMAIN attempts /\ ~attempts[attempt].passed
    <3>1. SUFFICES ASSUME type = "diagnosis"
                   PROVE  attempt \in DOMAIN attempts /\ ~attempts[attempt].passed
      OBVIOUS
    <3>2. Len(attempts) = attempt /\ attempt > 0 /\ ~Passed
      BY <2>1, <3>1 DEF Said, Inv, RowsInv, Stopping
    <3>3. attempts \in Seq(AttemptRow)
      BY DEF Inv, TypeOK, RowsTyped
    <3> QED
      BY <3>2, <3>3 DEF Passed
  <2> QED
    BY <1>0, <1>2, <2>1, <2>2, <2>3, <2>4, EventAppended DEF Inv, StoryBackedByRows
<1> QED
  BY <1>1, <1>3, <1>4

-----------------------------------------------------------------------------
(* The next repair.                                                        *)

LEMMA RepairKept ==
  ASSUME Inv, RepairInv, [Next]_vars
  PROVE  RepairInv'
<1> USE DEF Goto, RepairInv, About, Waiting, Stopping, EmitOnly, Quiet
<1>0. attempt \in Nat
  BY PipelineAssumption DEF Inv, TypeOK, LoopTyped
<1>1. CASE UNCHANGED vars
  BY <1>1 DEF vars, loop
<1>2. CASE Prologue
  BY <1>2 DEF Prologue, StartRun, EmitRunStarted, Recall, SaveMemories,
     EmitTestsWriting, SaveTests, EmitTestsReady, loop
<1>3. CASE Attempt
  <2>1. CASE BeginAttempt
    BY <1>0, <2>1 DEF BeginAttempt
  <2>2. CASE EmitAttemptStarted
    BY <2>2 DEF EmitAttemptStarted, loop
  <2>3. CASE GenerateCode
    BY <2>3 DEF GenerateCode, NoCode
  <2>4. CASE EmitSandboxStarted
    BY <2>4 DEF EmitSandboxStarted, loop
  <2>5. CASE Verify
    BY <2>5 DEF Verify
  <2> QED
    BY <1>3, <2>1, <2>2, <2>3, <2>4, <2>5 DEF Attempt
<1>4. CASE Success
  BY <1>4 DEF Success, InsertPassed, EmitVerified, SkipReviewer, StartReviewer,
     EndReviewer, AfterReviewer, StaticAnalysis, Recheck, SaveReview, EmitQuality,
     SaveFinal, RememberLesson, loop
<1>5. CASE Failure
  <2>1. CASE InsertFailed
    <3>1. PICK d \in {NoDiag} \cup Diagnoses :
            /\ diag' = d /\ diagnosis' = Keep(diagnosis, d)
            /\ pc = "insertFailed"
            /\ pc' = IF d.given THEN "diagnosisEvent" ELSE "nextAttempt"
      BY <2>1 DEF InsertFailed
    <3>2. UNCHANGED <<attempt, code, feedback>>
      BY <2>1 DEF InsertFailed
    <3> QED
      BY <3>1, <3>2 DEF Keep
  <2>2. CASE EmitDiagnosis
    BY <2>2 DEF EmitDiagnosis, AfterDiagnosis
  <2>3. CASE RewriteTests
    BY <2>3 DEF RewriteTests
  <2>4. CASE EmitDiagnosing \/ EmitEarlyStop \/ EmitTestsRewritten
    BY <2>4 DEF EmitDiagnosing, EmitEarlyStop, EmitTestsRewritten, loop
  <2>5. CASE RememberFailure
    BY <2>5 DEF RememberFailure
  <2> QED
    BY <1>5, <2>1, <2>2, <2>3, <2>4, <2>5 DEF Failure
<1>6. CASE Ending
  BY <1>6 DEF Ending, Raise, EmitError, FinishRun, AbandonRun, EmitRunFinished, loop
<1>7. CASE ProcessDies \/ Restart
  BY <1>7 DEF ProcessDies, Restart, Halted, loop
<1> QED
  BY <1>1, <1>2, <1>3, <1>4, <1>5, <1>6, <1>7 DEF Next, Worker

(* It holds along every behaviour.                                         *)
LEMMA AlwaysRepairInv == Spec => []RepairInv
<1>1. Init => RepairInv
  BY DEF Init, RepairInv, About, Waiting, Stopping
<1>2. Inv /\ RepairInv /\ [Next]_vars => RepairInv'
  BY RepairKept
<1> QED
  BY <1>1, <1>2, Invariance, PTL DEF Spec

-----------------------------------------------------------------------------
(* What is stored.                                                         *)

LEMMA LessonKept ==
  ASSUME Inv, LessonInv, [Next]_vars
  PROVE  LessonInv'
<1> USE DEF Goto, LessonInv, Waiting, Stopping, InFlight, Passing, EmitOnly, Quiet
<1>0. attempt \in Nat /\ lesson \in Nat
  BY PipelineAssumption DEF Inv, TypeOK, LoopTyped
<1>1. CASE UNCHANGED vars
  BY <1>1 DEF vars, loop
<1>2. CASE Prologue
  BY <1>2 DEF Prologue, StartRun, EmitRunStarted, Recall, SaveMemories,
     EmitTestsWriting, SaveTests, EmitTestsReady, loop
<1>3. CASE Attempt
  <2>1. CASE BeginAttempt
    BY <1>0, <2>1 DEF BeginAttempt
  <2>2. CASE Verify
    <3>1. attempt > 0
      BY <1>0, <2>2 DEF Verify
    <3>2. /\ UNCHANGED <<attempt, lesson>> /\ pc = "verify"
          /\ \/ pc' = "insertPassed" /\ UNCHANGED firstError
             \/ /\ pc' \in {"insertFailed", "diagnosing"}
                /\ firstError' = FirstOf(firstError, attempt)
      BY <2>2 DEF Verify
    <3> QED
      BY <1>0, <3>1, <3>2 DEF FirstOf
  <2> QED
    BY <1>3, <2>1, <2>2 DEF Attempt, EmitAttemptStarted, GenerateCode,
       EmitSandboxStarted, loop
<1>4. CASE Success
  BY <1>4 DEF Success, InsertPassed, EmitVerified, SkipReviewer, StartReviewer,
     EndReviewer, AfterReviewer, StaticAnalysis, Recheck, SaveReview, EmitQuality,
     SaveFinal, RememberLesson, loop
<1>5. CASE Failure
  <2>1. CASE InsertFailed
    <3>1. /\ pc = "insertFailed" /\ pc' \in {"diagnosisEvent", "nextAttempt"}
          /\ UNCHANGED <<attempt, firstError, lesson>>
      BY <2>1 DEF InsertFailed
    <3> QED
      BY <3>1
  <2>2. CASE EmitDiagnosis
    BY <1>0, <2>2 DEF EmitDiagnosis, AfterDiagnosis
  <2>3. CASE RewriteTests
    BY <2>3 DEF RewriteTests
  <2>4. CASE EmitDiagnosing \/ EmitEarlyStop \/ EmitTestsRewritten
    BY <2>4 DEF EmitDiagnosing, EmitEarlyStop, EmitTestsRewritten, loop
  <2>5. CASE RememberFailure
    BY <2>5 DEF RememberFailure, loop
  <2> QED
    BY <1>5, <2>1, <2>2, <2>3, <2>4, <2>5 DEF Failure
<1>6. CASE Ending
  BY <1>6 DEF Ending, Raise, EmitError, FinishRun, AbandonRun, EmitRunFinished, loop
<1>7. CASE ProcessDies \/ Restart
  BY <1>7 DEF ProcessDies, Restart, Halted, loop
<1> QED
  BY <1>1, <1>2, <1>3, <1>4, <1>5, <1>6, <1>7 DEF Next, Worker

(* The steps that end a run insert nothing and store at most one memory.   *)
Storing == RememberLesson \/ RememberFailure

LEMMA StoredByWhom ==
  ASSUME Worker
  PROVE  Storing \/ UNCHANGED stored
BY DEF Worker, Prologue, Attempt, Success, Failure, Ending, Storing, EmitOnly, rows,
   StartRun, EmitRunStarted, Recall, SaveMemories, EmitTestsWriting, SaveTests,
   EmitTestsReady, BeginAttempt, EmitAttemptStarted, GenerateCode,
   EmitSandboxStarted, Verify, InsertPassed, EmitVerified, SkipReviewer,
   StartReviewer, EndReviewer, StaticAnalysis, Recheck, SaveReview, EmitQuality,
   SaveFinal, EmitDiagnosing, InsertFailed, EmitDiagnosis,
   EmitEarlyStop, RewriteTests, EmitTestsRewritten,
   Raise, EmitError, FinishRun, AbandonRun, EmitRunFinished

LEMMA StoredOnce ==
  ASSUME stored = <<>>, NEW entry, Store(entry)
  PROVE  /\ Len(stored') <= 1
         /\ \A i \in DOMAIN stored' : stored'[i] = entry
<1>1. CASE stored' = Append(stored, entry)
  <2>1. stored' = <<entry>>
    BY <1>1
  <2> QED
    BY <2>1
<1>2. CASE UNCHANGED stored
  BY <1>2
<1> QED
  BY <1>1, <1>2 DEF Store

LEMMA StoredKept ==
  ASSUME Inv, RepairInv, LessonInv, StoredInv, [Next]_vars
  PROVE  StoredInv'
<1>p. UNCHANGED attempts => (Passed' <=> Passed)
  BY DEF Passed
<1>1. CASE UNCHANGED vars
  BY <1>1, <1>p DEF vars, rows, StoredInv
<1>2. CASE RememberLesson
  <2>1. /\ pc = "rememberLesson" /\ pc' = "finish" /\ UNCHANGED attempts
        /\ UNCHANGED stored \/ (Teaches /\ Store([kind |-> "lesson", error |-> firstError,
                                                  lesson |-> lesson]))
    BY <1>2 DEF RememberLesson, Goto
  <2>2. stored = <<>> /\ Passed /\ Len(attempts) = attempt
    BY <2>1 DEF StoredInv, Halted, Inv, RowsInv, Passing
  <2>3. Teaches => firstError = 1 /\ lesson \in 1..(Len(attempts) - 1)
    <3>1. lesson \in Nat /\ attempt \in Nat
      BY PipelineAssumption DEF Inv, TypeOK, LoopTyped
    <3> QED
      BY <2>1, <2>2, <3>1 DEF LessonInv, Teaches, Passing
  <2> DEFINE entry == [kind |-> "lesson", error |-> firstError, lesson |-> lesson]
  <2>4. entry.kind = "lesson" /\ entry.error = firstError /\ entry.lesson = lesson
    OBVIOUS
  <2>5. UNCHANGED stored \/ (Teaches /\ Store(entry))
    BY <2>1
  <2> HIDE DEF entry
  <2> QED
    BY <1>p, <2>1, <2>2, <2>3, <2>4, <2>5, StoredOnce DEF StoredInv
<1>3. CASE RememberFailure
  <2> DEFINE entry == [kind |-> "failure", error |-> feedback, lesson |-> 0]
  <2>1. /\ pc \in {"rememberFailure", "nextAttempt"} /\ pc' = "finish"
        /\ UNCHANGED attempts /\ (UNCHANGED stored \/ Store(entry))
    BY <1>3 DEF RememberFailure, GivesUp
  <2>2. stored = <<>> /\ ~Passed /\ feedback = Len(attempts)
    BY <2>1 DEF StoredInv, Halted, Inv, RowsInv, RepairInv, About, Waiting, Stopping
  <2>3. entry.kind = "failure" /\ entry.error = feedback
    OBVIOUS
  <2> HIDE DEF entry
  <2> QED
    BY <1>p, <2>1, <2>2, <2>3, StoredOnce DEF StoredInv
<1>4. CASE Worker /\ ~Storing
  <2>1. UNCHANGED stored
    BY <1>4, StoredByWhom
  <2>2. CASE stored = <<>>
    BY <2>1, <2>2 DEF StoredInv
  <2>3. CASE stored # <<>>
    <3>1. pc \in {"finish", "finishedEvent"}
      BY <1>4, <2>3, WorkerPlaces DEF StoredInv, Open, FinishRun, AbandonRun,
         EmitRunFinished, Goto, Halted
    <3>2. FinishRun \/ AbandonRun \/ EmitRunFinished
      BY <1>4, <3>1 DEF Worker, Prologue, Attempt, Success, Failure, Ending, Goto,
         StartRun, EmitRunStarted, Recall, SaveMemories, EmitTestsWriting, SaveTests,
         EmitTestsReady, BeginAttempt, EmitAttemptStarted, GenerateCode,
         EmitSandboxStarted, Verify, InsertPassed, EmitVerified, SkipReviewer,
         StartReviewer, EndReviewer, StaticAnalysis, Recheck, SaveReview, EmitQuality,
         SaveFinal, RememberLesson, EmitDiagnosing, InsertFailed, EmitDiagnosis,
         EmitEarlyStop, RewriteTests, EmitTestsRewritten, RememberFailure, GivesUp,
         Raise, DbSteps, CallSteps, EmitError
    <3>3. UNCHANGED attempts /\ pc' \in {"finishedEvent"} \cup Halted
      BY <3>2 DEF FinishRun, AbandonRun, EmitRunFinished, Goto, EmitOnly, rows, Halted
    <3> QED
      BY <1>p, <2>1, <3>3 DEF StoredInv
  <2> QED
    BY <2>2, <2>3
<1>5. CASE ProcessDies \/ Restart
  <2>1. UNCHANGED <<attempts, stored>> /\ (pc' = pc \/ pc' \in Halted)
    BY <1>5 DEF ProcessDies, Restart, rows, Halted
  <2> QED
    BY <1>p, <2>1 DEF StoredInv, Halted
<1> QED
  BY <1>1, <1>2, <1>3, <1>4, <1>5 DEF Next, Storing

-----------------------------------------------------------------------------
(* The abstract log.                                                       *)

Log      == [i \in DOMAIN events |-> events[i].type = "run_finished"]
LogPlace == IF pc = "finishedEvent" THEN "closing"
            ELSE IF pc \in Halted THEN "closed" ELSE "open"

LEMMA LogAppended ==
  ASSUME TypeOK, NEW type \in EventTypes, Said(type)
  PROVE  Log' = Append(Log, type = "run_finished")
<1>1. /\ Len(events) \in Nat
      /\ DOMAIN events = 1..Len(events)
      /\ DOMAIN events' = 1..(Len(events) + 1)
      /\ \A i \in 1..Len(events) : events'[i] = events[i]
      /\ events'[Len(events) + 1].type = type
  BY EventAppended
<1> DEFINE last == type = "run_finished"
<1>2. Log \in [1..Len(events) -> BOOLEAN]
  BY <1>1 DEF Log
<1>3. Log \in Seq(BOOLEAN) /\ Len(Log) = Len(events)
  BY <1>1, <1>2
<1>4. last \in BOOLEAN
  OBVIOUS
<1>5. /\ Append(Log, last) \in Seq(BOOLEAN)
      /\ DOMAIN Append(Log, last) = 1..(Len(events) + 1)
      /\ \A i \in 1..Len(events) : Append(Log, last)[i] = Log[i]
      /\ Append(Log, last)[Len(events) + 1] = last
  <2> HIDE DEF last
  <2> QED
    BY <1>1, <1>3, <1>4, AppendProperties
<1>6. /\ DOMAIN Log' = 1..(Len(events) + 1)
      /\ \A i \in 1..Len(events) : Log'[i] = Log[i]
      /\ Log'[Len(events) + 1] = last
  BY <1>1 DEF Log
<1> QED
  BY <1>1, <1>5, <1>6 DEF Log

-----------------------------------------------------------------------------
(* The tests a certificate names.                                          *)

(* The row has the tests of the loop unless saving them failed, and a      *)
(* passing attempt was verified with the tests of the loop.                *)
TestsInv ==
  /\ run.tests = tests \/ unsaved
  /\ \A i \in DOMAIN attempts : attempts[i].passed => attempts[i].tests = tests

(* Nothing but SaveTests and RewriteTests touches them.                    *)
LEMMA TestsUntouched ==
  ASSUME TypeOK, Next, ~SaveTests, ~RewriteTests
  PROVE  run'.tests = run.tests /\ UNCHANGED <<tests, unsaved>>
<1> USE DEF Goto, EmitOnly, Quiet, env, rows, loop, review
<1>0. run \in RunRow
  BY DEF TypeOK, RowsTyped
<1>1. CASE Prologue \/ Attempt
  BY <1>0, <1>1 DEF Prologue, StartRun, EmitRunStarted, Recall, SaveMemories,
     EmitTestsWriting, EmitTestsReady, Attempt, BeginAttempt, EmitAttemptStarted,
     GenerateCode, EmitSandboxStarted, Verify, RunRow
<1>2. CASE Success
  BY <1>0, <1>2 DEF Success, InsertPassed, EmitVerified, SkipReviewer, StartReviewer,
     EndReviewer, StaticAnalysis, Recheck, SaveReview, EmitQuality, SaveFinal,
     RememberLesson, RunRow
<1>3. CASE Failure
  BY <1>0, <1>3 DEF Failure, EmitDiagnosing, InsertFailed, EmitDiagnosis,
     EmitEarlyStop, EmitTestsRewritten, RememberFailure, RunRow
<1>4. CASE Ending \/ ProcessDies \/ Restart
  BY <1>0, <1>4 DEF Ending, Raise, EmitError, FinishRun, AbandonRun,
     EmitRunFinished, ProcessDies, Restart, Recovered, RunRow
<1> QED
  BY <1>1, <1>2, <1>3, <1>4 DEF Next, Worker

(* Tests are written only while no attempt has passed, and both places of  *)
(* them are written together, or the error is recorded.                    *)
LEMMA TestsKept ==
  ASSUME Inv, TestsInv, [Next]_vars
  PROVE  TestsInv'
<1>0. run \in RunRow /\ attempts \in Seq(AttemptRow)
  BY DEF Inv, TypeOK, RowsTyped
<1>1. CASE UNCHANGED vars
  BY <1>1 DEF TestsInv, vars, rows, loop, env
<1>2. CASE SaveTests \/ RewriteTests
  <2>1. pc \in Waiting /\ UNCHANGED attempts
    BY <1>2 DEF SaveTests, RewriteTests, Waiting, Goto
  <2>2. \A i \in DOMAIN attempts : ~attempts[i].passed
    BY <2>1 DEF Inv, RowsInv, Passed
  <2>3. run'.tests = tests' \/ unsaved'
    BY <1>0, <1>2 DEF SaveTests, RewriteTests, Quiet, env, RunRow, TestsInv
  <2> QED
    BY <2>1, <2>2, <2>3 DEF TestsInv
<1>3. CASE Next /\ ~SaveTests /\ ~RewriteTests
  <2>1. (run'.tests = tests' \/ unsaved') /\ UNCHANGED tests
    BY <1>3, TestsUntouched DEF Inv, TestsInv
  <2>2. UNCHANGED attempts \/ \E ok \in BOOLEAN : InsertAttempt(ok)
    BY <1>3, AttemptsWritten
  <2>3. ASSUME NEW ok \in BOOLEAN, InsertAttempt(ok)
        PROVE  \A i \in DOMAIN attempts' : attempts'[i].passed => attempts'[i].tests = tests
    <3> DEFINE row == [number |-> attempt, passed |-> ok, code |-> code, tests |-> tests]
    <3>1. attempts' = Append(attempts, row) /\ row \in AttemptRow /\ row.tests = tests
      BY <2>3 DEF InsertAttempt, Inv, TypeOK, LoopTyped, AttemptRow
    <3> HIDE DEF row
    <3> QED
      BY <1>0, <3>1, AppendProperties DEF TestsInv
  <2> QED
    BY <2>1, <2>2, <2>3 DEF TestsInv
<1> QED
  BY <1>1, <1>2, <1>3

(* The row a certificate is of is the last one, which passed.              *)
LEMMA CertifiedIsVerified ==
  ASSUME Inv, FinalCodeVerified, TestsInv
  PROVE  CertificateHonest
<1> SUFFICES ASSUME NEW i \in DOMAIN attempts, run.status = "success", CertifiedRow(i), ~unsaved
             PROVE  <<CertifiedCode(i), run.tests>> \in verified
  BY DEF CertificateHonest
<1>1. PICK k \in DOMAIN attempts :
        /\ attempts[k].passed
        /\ run.final \in {attempts[k].code, Documented(attempts[k].code)}
        /\ <<run.final, attempts[k].tests>> \in verified
  BY DEF FinalCodeVerified, Delivered
<1>2. i = k
  BY <1>1 DEF Inv, RowsInv, CertifiedRow
<1>3. attempts[k].tests = run.tests
  BY <1>1 DEF TestsInv
<1>4. CertifiedCode(i) = run.final
  BY <1>1, <1>2 DEF CertifiedCode, NoCode, Text, Documented
<1> QED
  BY <1>1, <1>3, <1>4

-----------------------------------------------------------------------------
(* The theorems about what it tells of itself.                             *)

(* Events announce what is already in the tables: every emit follows the   *)
(* transaction it speaks of (pipeline.py 257-261, 279-291).                *)
THEOREM StoryIsBacked == Spec => []StoryBackedByRows
<1>1. Init => StoryBackedByRows
  BY DEF Init, StoryBackedByRows
<1>2. Inv /\ StoryBackedByRows /\ [Next]_vars => StoryBackedByRows'
  BY BackedKept
<1> QED
  BY <1>1, <1>2, Invariance, PTL DEF Spec

(* run_finished is the last event, and names the status that the row keeps *)
(* from then on, whatever dies and is recovered (pipeline.py 198-205).     *)
THEOREM VerdictComesLast == Spec => []StoryEndsWithVerdict
<1>1. Init => VerdictInv
  BY DEF Init, VerdictInv
<1>2. Inv /\ VerdictInv /\ [Next]_vars => VerdictInv'
  BY VerdictKept
<1>3. VerdictInv => StoryEndsWithVerdict
  BY DEF VerdictInv, StoryEndsWithVerdict
<1> QED
  BY <1>1, <1>2, <1>3, Invariance, PTL DEF Spec

(* A repair is asked for with code, error and diagnosis of the attempt     *)
(* before, never with older ones (pipeline.py 239-249, 267-292).           *)
THEOREM RepairIsOfLast == Spec => []RepairsLastAttempt
<1>1. RepairInv => RepairsLastAttempt
  BY DEF RepairInv, About, RepairsLastAttempt
<1> QED
  BY <1>1, AlwaysRepairInv, PTL

(* A run leaves at most one memory, which matches how it turned out: a     *)
(* lesson of the first error with a diagnosis made before the pass, or the *)
(* last failure (pipeline.py 264, 293-297, 309).                           *)
THEOREM MemoryIsTrue == Spec => []MemoryMatchesOutcome
<1>1. Init => LessonInv /\ StoredInv /\ FinalCodeVerified
  BY DEF Init, LessonInv, StoredInv, Waiting, Stopping, InFlight, Passing,
     FinalCodeVerified
<1>2. Inv /\ LessonInv /\ [Next]_vars => LessonInv'
  BY LessonKept
<1>3. Inv /\ RepairInv /\ LessonInv /\ StoredInv /\ [Next]_vars => StoredInv'
  BY StoredKept
<1>4. StoredInv /\ FinalCodeVerified => MemoryMatchesOutcome
  <2>1. FinalCodeVerified /\ run.status = "success" => Passed
    BY DEF FinalCodeVerified, Delivered, Passed
  <2> QED
    BY <2>1 DEF StoredInv, MemoryMatchesOutcome
<1> QED
  BY <1>1, <1>2, <1>3, <1>4, Invariance, AlwaysRepairInv, DeliveredCodePassed, PTL
     DEF Spec

(* The events of a run implement the abstract log (EventLog): they are     *)
(* only appended, run_finished follows the final status, and a process     *)
(* that dies or comes back announces nothing.                              *)
THEOREM ImplementsEventLog == Spec => RefinesEventLog
<1>1. Init => StoryLog!LogInit
  <2>1. SUFFICES ASSUME Init PROVE StoryLog!LogInit
    OBVIOUS
  <2>2. run.status = "queued" /\ pc = "start" /\ up = TRUE /\ events = <<>>
    BY <2>1 DEF Init
  <2>3. Log = <<>>
    BY <2>2 DEF Log
  <2> QED
    BY <2>2, <2>3 DEF StoryLog!LogInit, Log, Active, Halted
<1>2. Inv /\ [Next]_vars => [StoryLog!LogNext]_StoryLog!logVars
  <2> SUFFICES ASSUME Inv, [Next]_vars
               PROVE  StoryLog!LogNext \/ UNCHANGED StoryLog!logVars
    OBVIOUS
  <2> DEFINE Status == IF run.status \in Active THEN "active" ELSE "final"
  <2>0. Inv'
    BY InvKept
  <2>s. (Open => run.status \in Active) /\ (Open' => run'.status \in Active)
    BY <2>0, LabelsListed DEF Inv, TypeOK, ControlInv, Open, Halted, Waiting, Stopping,
       InFlight, Passing, Active
  <2>f. UNCHANGED events => UNCHANGED Log
    BY DEF Log
  <2>v. ASSUME UNCHANGED <<Status, Log, LogPlace, up>>
        PROVE  UNCHANGED StoryLog!logVars
    BY <2>v DEF StoryLog!logVars, Log, LogPlace
  <2>1. CASE UNCHANGED vars
    <3>1. UNCHANGED <<run, events, pc, up>>
      BY <2>1 DEF vars, rows, env
    <3> QED
      BY <2>f, <2>v, <3>1 DEF LogPlace
  <2>2. CASE Worker /\ Open /\ Open' /\ UNCHANGED up
    <3>1. /\ LogPlace = "open" /\ LogPlace' = "open"
          /\ Status = "active" /\ Status' = "active"
      BY <2>2, <2>s DEF LogPlace, Open
    <3>2. CASE UNCHANGED events
      BY <2>2, <2>f, <2>v, <3>1, <3>2
    <3>3. CASE \E type \in EventTypes : Said(type)
      <4>1. PICK type \in EventTypes : Said(type)
        BY <3>3
      <4>2. Log' = Append(Log, FALSE)
        BY <2>2, <4>1, LogAppended DEF Said, Open, Inv
      <4>3. StoryLog!Announce
        BY <2>2, <3>1, <4>2 DEF StoryLog!Announce, Log, LogPlace
      <4> QED
        BY <4>3 DEF StoryLog!LogNext
    <3> QED
      BY <2>2, <3>2, <3>3, WorkerSays
  <2>3. CASE FinishRun
    <3>1. /\ LogPlace = "open" /\ LogPlace' = "closing" /\ UNCHANGED <<events, up>>
      BY <2>3 DEF FinishRun, Goto, LogPlace, Halted, Quiet, env
    <3>2. run'.status = result /\ result \in Terminal
      BY <2>3 DEF FinishRun, Goto, Inv, TypeOK, RowsTyped, RunRow, ControlInv
    <3>3. Status' = "final"
      BY <3>2 DEF Active, Terminal
    <3>4. StoryLog!Conclude
      BY <2>f, <3>1, <3>3 DEF StoryLog!Conclude, Log, LogPlace
    <3> QED
      BY <3>4 DEF StoryLog!LogNext
  <2>4. CASE AbandonRun
    <3>1. /\ LogPlace = "open" /\ LogPlace' = "closed"
          /\ UNCHANGED <<run, events, up>>
      BY <2>4 DEF AbandonRun, Goto, LogPlace, Halted, rows, env
    <3>2. StoryLog!Fall
      BY <2>f, <3>1 DEF StoryLog!Fall, Log, LogPlace
    <3> QED
      BY <3>2 DEF StoryLog!LogNext
  <2>5. CASE EmitRunFinished
    <3>1. /\ LogPlace = "closing" /\ LogPlace' = "closed" /\ UNCHANGED <<run, up>>
          /\ pc = "finishedEvent"
      BY <2>5 DEF EmitRunFinished, Goto, LogPlace, Halted, EmitOnly, env
    <3>2. CASE UNCHANGED events
      <4>1. StoryLog!Fall
        BY <2>f, <3>1, <3>2 DEF StoryLog!Fall, Log, LogPlace
      <4> QED
        BY <4>1 DEF StoryLog!LogNext
    <3>3. CASE \E type \in EventTypes : Said(type)
      <4>1. PICK type \in EventTypes : Said(type)
        BY <3>3
      <4>2. Log' = Append(Log, TRUE)
        BY <3>1, <4>1, LogAppended DEF Said, Inv
      <4>3. StoryLog!AnnounceFinish
        BY <3>1, <4>2 DEF StoryLog!AnnounceFinish, Log, LogPlace
      <4> QED
        BY <4>3 DEF StoryLog!LogNext
    <3>4. Worker
      BY <2>5 DEF Worker, Ending
    <3> QED
      BY <3>2, <3>3, <3>4, WorkerSays
  <2>6. CASE ProcessDies
    <3>1. /\ up /\ up' = FALSE /\ LogPlace' = "closed" /\ UNCHANGED <<run, events>>
      BY <2>6 DEF ProcessDies, rows, LogPlace, Halted
    <3>2. StoryLog!Die
      BY <2>f, <3>1 DEF StoryLog!Die, Log, LogPlace
    <3> QED
      BY <3>2 DEF StoryLog!LogNext
  <2>7. CASE Restart
    <3>1. /\ ~up /\ up' = TRUE /\ UNCHANGED <<events, pc>> /\ run' = Recovered(run)
      BY <2>7 DEF Restart
    <3>2. run'.status \notin Active
      BY <3>1 DEF Recovered, Active, Inv, TypeOK, RowsTyped, RunRow
    <3>3. StoryLog!Recover
      BY <2>f, <3>1, <3>2 DEF StoryLog!Recover, Log, LogPlace
    <3> QED
      BY <3>3 DEF StoryLog!LogNext
  <2> QED
    BY <2>1, <2>2, <2>3, <2>4, <2>5, <2>6, <2>7, WorkerPlaces DEF Next
<1> QED
  BY <1>1, <1>2, Invariance, PTL DEF Spec, RefinesEventLog, StoryLog!LogSpec

(* A certificate of a successful run pairs a code with tests which it      *)
(* passed (certificate.py 20-40 reads the row, not the attempt), whatever  *)
(* fails, but for the update that saves rewritten tests: its error is      *)
(* swallowed and leaves the old ones in the row (pipeline.py 300-307).     *)
THEOREM CertificatesAreHonest == Spec => []CertificateHonest
<1>1. Init => TestsInv
  BY DEF Init, TestsInv
<1>2. Inv /\ TestsInv /\ [Next]_vars => TestsInv'
  BY TestsKept
<1>3. Inv /\ FinalCodeVerified /\ TestsInv => CertificateHonest
  BY CertifiedIsVerified
<1> QED
  BY <1>1, <1>2, <1>3, Invariance, DeliveredCodePassed, PTL DEF Spec


=============================================================================
