------------------------------ MODULE Pipeline ------------------------------
(***************************************************************************)
(* One run of the generate / test / sandbox / diagnose / repair loop of    *)
(* app/pipeline.py, executed by one worker thread against the database.    *)
(*                                                                         *)
(* Every db.* call is a transaction of its own, and other threads, the     *)
(* event stream and a crash come between any two of them.  So one action   *)
(* stands for one transaction together with the local computation (model   *)
(* call, sandbox run) that comes just before it and that nobody else can   *)
(* observe.  `pc` names the transaction the worker is about to make.       *)
(*                                                                         *)
(* Program texts are named by the attempt that produced them and test      *)
(* suites by their version; 0 is "no text" (None and "" alike: the code    *)
(* only ever asks whether the text is truthy).                             *)
(***************************************************************************)
EXTENDS Naturals, Sequences

CONSTANTS
  MaxAttempts,       \* largest max_attempts of a RunSpec
  MaxTestRewrites,   \* pipeline.MAX_TEST_REWRITES
  MemoryEnabled,     \* config.MEMORY_ENABLED
  SkipSets,          \* the values of RunSpec.skip_agents that are explored
  FaultKinds,        \* what may go wrong around the worker
  MaxFaults          \* bound: how often it goes wrong in one behaviour

Skippable == {"tests", "performance", "security_audit", "critique", "docs"}

ASSUME PipelineAssumption ==
  /\ MaxAttempts \in Nat \ {0}
  /\ MaxTestRewrites \in Nat
  /\ MemoryEnabled \in BOOLEAN
  /\ SkipSets \subseteq SUBSET Skippable
  /\ FaultKinds \subseteq {"event", "db", "call", "memory", "process"}
  /\ MaxFaults \in Nat

VARIABLES
  run,          \* the row of `runs`
  attempts,     \* the rows of `attempts`, in the order they were inserted
  events,       \* the rows of `run_events`, in the order they were inserted
  stored,       \* what this run wrote to the vector memory
  pc, spec,     \* the worker: next transaction, and the RunSpec
  attempt, code, tests, feedback, firstError, diag, diagnosis, lesson,
  rewrites,     \* locals of _execute
  agent, documented,           \* locals of _review
  result,       \* `status` in execute_run
  verified,     \* history: the <<code, tests>> pairs the sandbox accepted
  unsaved,      \* history: the row lacks the tests of the loop, as saving them failed
  up,           \* the server process is alive
  faults        \* how many faults have happened

rows   == <<run, attempts, events, stored>>
loop   == <<attempt, code, tests, feedback, firstError, diag, diagnosis,
            lesson, rewrites>>
review == <<agent, documented>>
env    == <<up, spec, unsaved>>
vars   == <<rows, loop, review, env, pc, result, verified, faults>>

Active   == {"queued", "running"}
Terminal == {"success", "failed", "max_retries_exceeded", "early_stopped"}
Reviewers == {"performance", "security_audit", "critique", "docs"}

Codes   == [attempt : 0..MaxAttempts, docs : BOOLEAN]
Text(n) == [attempt |-> n, docs |-> FALSE]
NoCode  == Text(0)
Tests   == 0..(MaxTestRewrites + 1)

(* What diagnose_failure returns, as far as the loop looks at it: whether  *)
(* there is a diagnosis, whom it blames, whether its confidence reaches    *)
(* CRITIQUE_CONFIDENCE_THRESHOLD, and whether it has a fix plan or a root  *)
(* cause.                                                                  *)
Diagnoses == [given : {TRUE}, blame : {"code", "tests"},
              hopeful : BOOLEAN, lesson : BOOLEAN]
NoDiag    == [given |-> FALSE, blame |-> "code", hopeful |-> TRUE,
              lesson |-> FALSE]

EventTypes ==
  {"run_started", "memory_recalled", "tests_writing", "tests_ready",
   "attempt_started", "code_generated", "sandbox_started", "sandbox_result",
   "verified", "review", "static_analysis", "docs_verified", "quality",
   "diagnosing", "diagnosis", "early_stop", "tests_rewritten", "error",
   "run_finished"}

(* Points at which an exception leaves _execute: a failing transaction, or *)
(* a model or sandbox call outside every try block.                        *)
DbSteps   == {"start", "saveMemories", "saveTests", "nextAttempt",
              "insertFailed", "insertPassed", "saveReview", "saveFinal"}
CallSteps == {"generate", "verify", "recheck"}
EmitSteps == {"runStarted", "testsWriting", "testsReady", "attemptStarted",
              "sandboxStarted", "verifiedEvent", "agent", "agentBusy",
              "staticAnalysis", "quality", "diagnosing", "diagnosisEvent",
              "earlyStop", "testsRewritten"}
BodySteps == DbSteps \cup CallSteps \cup EmitSteps
               \cup {"recall", "rewriteTests", "rememberLesson", "rememberFailure"}
EndSteps  == {"crashed", "finish", "finishedEvent"}
Halted    == {"done", "abandoned", "dead"}
Labels    == BodySteps \cup EndSteps \cup Halted

RunRow     == [status : Active \cup Terminal, total : 0..MaxAttempts, tests : Tests,
               final : Codes, docs : BOOLEAN, closed : BOOLEAN]
AttemptRow == [number : 0..MaxAttempts, passed : BOOLEAN, code : Codes,
               tests : Tests]
EventRow   == [type : EventTypes, attempt : 0..MaxAttempts,
               status : {"none"} \cup Terminal]
Memory     == [kind : {"lesson", "failure"}, error : 0..MaxAttempts,
               lesson : 0..MaxAttempts]
RunSpec    == [max : 1..MaxAttempts, skip : SUBSET Skippable]

RowsTyped ==
  /\ run \in RunRow
  /\ attempts \in Seq(AttemptRow)
  /\ events \in Seq(EventRow)
  /\ stored \in Seq(Memory)

LoopTyped ==
  /\ {attempt, feedback, firstError, diagnosis, lesson} \subseteq 0..MaxAttempts
  /\ code \in Codes
  /\ tests \in Tests
  /\ diag \in Diagnoses \cup {NoDiag}
  /\ rewrites \in 0..MaxTestRewrites

TypeOK ==
  /\ RowsTyped
  /\ LoopTyped
  /\ agent \in Reviewers /\ documented \in BOOLEAN
  /\ up \in BOOLEAN /\ unsaved \in BOOLEAN /\ spec \in RunSpec
  /\ pc \in Labels
  /\ result \in {"none"} \cup Terminal
  /\ verified \subseteq Codes \X Tests
  /\ faults \in Nat

(* _new_run has inserted the row and submit_run has queued the worker.     *)
Init ==
  /\ run = [status |-> "queued", total |-> 0, tests |-> 0, final |-> NoCode,
            docs |-> FALSE, closed |-> FALSE]
  /\ attempts = <<>> /\ events = <<>> /\ stored = <<>>
  /\ spec \in [max : 1..MaxAttempts, skip : SkipSets]
  /\ pc = "start" /\ up = TRUE /\ unsaved = FALSE /\ result = "none"
  /\ attempt = 0 /\ code = NoCode /\ tests = 0 /\ feedback = 0
  /\ firstError = 0 /\ diag = NoDiag /\ diagnosis = 0 /\ lesson = 0
  /\ rewrites = 0
  /\ agent = "performance" /\ documented = FALSE
  /\ verified = {} /\ faults = 0

-----------------------------------------------------------------------------
(* Building blocks.                                                        *)

Goto(from, to) == pc = from /\ pc' = to

Fault(kind) ==
  /\ kind \in FaultKinds
  /\ faults < MaxFaults
  /\ faults' = faults + 1

(* Emitter.__call__: one insert into run_events; an exception is logged    *)
(* and swallowed, so an event may be lost but never breaks the run.        *)
Emit(type) ==
  \/ /\ events' = Append(events, [type |-> type, attempt |-> attempt,
                                  status |-> result])
     /\ UNCHANGED faults
  \/ /\ Fault("event")
     /\ UNCHANGED events

EmitOnly(type) ==
  /\ Emit(type)
  /\ UNCHANGED <<run, attempts, stored, result, verified, env>>

(* A step of the worker that emits nothing and meets no fault.             *)
Quiet == UNCHANGED <<events, faults, env>>

(* verify() succeeded: the driver exited cleanly with a report and, when   *)
(* there are tests, every one of them passed.                              *)
Accept(text, suite, ok) ==
  verified' = IF ok THEN verified \cup {<<text, suite>>} ELSE verified

(* store_lesson or store_failure, whose exceptions are swallowed.          *)
Store(entry) ==
  \/ stored' = Append(stored, entry) /\ UNCHANGED faults
  \/ Fault("memory") /\ UNCHANGED stored

-----------------------------------------------------------------------------
(* _execute, up to the attempt loop.                                       *)

StartRun ==
  /\ Goto("start", "runStarted")
  /\ run' = [run EXCEPT !.status = "running"]
  /\ UNCHANGED <<attempts, stored, loop, review, result, verified>> /\ Quiet

EmitRunStarted ==
  /\ Goto("runStarted", IF MemoryEnabled THEN "recall" ELSE "saveMemories")
  /\ EmitOnly("run_started")
  /\ UNCHANGED <<loop, review>>

(* _recall: a retrieval that raises is logged and announces nothing.       *)
Recall ==
  /\ Goto("recall", "saveMemories")
  /\ \/ Emit("memory_recalled")
     \/ Fault("memory") /\ UNCHANGED events
  /\ UNCHANGED <<run, attempts, stored, result, verified, env, loop, review>>

(* The recalled entries go to runs.memories_json, which nothing below      *)
(* reads again: only the transaction itself is kept.                       *)
SaveMemories ==
  /\ Goto("saveMemories",
          IF "tests" \in spec.skip THEN "nextAttempt" ELSE "testsWriting")
  /\ UNCHANGED <<run, attempts, stored, loop, review, result, verified>>
  /\ Quiet

EmitTestsWriting ==
  /\ Goto("testsWriting", "saveTests")
  /\ EmitOnly("tests_writing")
  /\ UNCHANGED <<loop, review>>

SaveTestsLocally ==    \* slip: the row keeps no copy of the tests
  /\ Goto("saveTests", "testsReady")
  /\ tests' \in {0, 1}
  /\ UNCHANGED <<run, attempts, stored, attempt, code, feedback, firstError,
                 diag, diagnosis, lesson, rewrites, review, result, verified>>
  /\ Quiet

(* The call may raise or answer nothing: both leave tests = None.          *)
SaveTests ==
  /\ Goto("saveTests", "testsReady")
  /\ \E suite \in {0, 1} :
       /\ tests' = suite
       /\ run' = [run EXCEPT !.tests = suite]
  /\ UNCHANGED <<attempts, stored, attempt, code, feedback, firstError, diag,
                 diagnosis, lesson, rewrites, review, result, verified>>
  /\ Quiet

EmitTestsReady ==
  /\ Goto("testsReady", "nextAttempt")
  /\ EmitOnly("tests_ready")
  /\ UNCHANGED <<loop, review>>

-----------------------------------------------------------------------------
(* One attempt.                                                            *)

BeginAttemptLate ==     \* slip: the row counts only finished attempts
  /\ attempt < spec.max
  /\ Goto("nextAttempt", "attemptStarted")
  /\ attempt' = attempt + 1
  /\ run' = [run EXCEPT !.total = attempt]
  /\ UNCHANGED <<attempts, stored, code, tests, feedback, firstError, diag,
                 diagnosis, lesson, rewrites, review, result, verified>>
  /\ Quiet

BeginAttempt ==
  /\ attempt < spec.max
  /\ Goto("nextAttempt", "attemptStarted")
  /\ attempt' = attempt + 1
  /\ run' = [run EXCEPT !.total = attempt + 1]
  /\ UNCHANGED <<attempts, stored, code, tests, feedback, firstError, diag,
                 diagnosis, lesson, rewrites, review, result, verified>>
  /\ Quiet

EmitAttemptStarted ==
  /\ Goto("attemptStarted", "generate")
  /\ EmitOnly("attempt_started")
  /\ UNCHANGED <<loop, review>>

(* `code` is also previous_code until here: both are set together at the   *)
(* end of a failed attempt.  The model may answer with no code at all.     *)
GenerateCode ==
  /\ Goto("generate", "sandboxStarted")
  /\ \E n \in {0, attempt} : code' = Text(n)
  /\ EmitOnly("code_generated")
  /\ UNCHANGED <<attempt, tests, feedback, firstError, diag, diagnosis, lesson,
                 rewrites, review>>

EmitSandboxStarted ==
  /\ Goto("sandboxStarted", "verify")
  /\ EmitOnly("sandbox_started")
  /\ UNCHANGED <<loop, review>>

LastOf(old, new) == new  \* slip: every failure overwrites first_error

FirstOf(old, new) == IF old = 0 THEN new ELSE old

Verify ==
  /\ Emit("sandbox_result")
  /\ \E ok \in BOOLEAN :
       /\ Accept(code, tests, ok)
       /\ IF ok
          THEN Goto("verify", "insertPassed") /\ UNCHANGED <<feedback, firstError>>
          ELSE /\ Goto("verify", IF "critique" \in spec.skip THEN "insertFailed"
                                                            ELSE "diagnosing")
               /\ feedback' = attempt
               /\ firstError' = FirstOf(firstError, attempt)
  /\ diag' = NoDiag
  /\ UNCHANGED <<run, attempts, stored, result, env, attempt, code, tests,
                 diagnosis, lesson, rewrites, review>>

InsertAttempt(ok) ==
  attempts' = Append(attempts, [number |-> attempt, passed |-> ok,
                                code |-> code, tests |-> tests])

-----------------------------------------------------------------------------
(* The attempt passed: record it, review it, keep it.                      *)

InsertPassed ==
  /\ Goto("insertPassed", "verifiedEvent")
  /\ InsertAttempt(TRUE)
  /\ UNCHANGED <<run, stored, loop, review, result, verified>> /\ Quiet

EmitVerified ==
  /\ Goto("verifiedEvent", "agent")
  /\ EmitOnly("verified")
  /\ agent' = "performance"
  /\ UNCHANGED <<loop, documented>>

(* The reviewers run in a fixed order; static analysis comes before docs.  *)
NextReviewer(a) ==
  CASE a = "performance" -> "security_audit" [] a = "security_audit" -> "critique"
    [] OTHER -> "docs"

AfterReviewer(a, changed) ==
  CASE a = "critique" -> "staticAnalysis"
    [] a = "docs"     -> IF changed THEN "recheck" ELSE "saveReview"
    [] OTHER          -> "agent"

(* agent(): a skipped reviewer says so, and has no result.                 *)
SkipReviewer ==
  /\ agent \in spec.skip
  /\ Goto("agent", AfterReviewer(agent, FALSE))
  /\ agent' = NextReviewer(agent)
  /\ EmitOnly("review")
  /\ UNCHANGED <<loop, documented>>

StartReviewer ==
  /\ agent \notin spec.skip
  /\ Goto("agent", "agentBusy")
  /\ EmitOnly("review")
  /\ UNCHANGED <<loop, review>>

(* Its call may raise: the review goes on without the result.  Only the    *)
(* documented text (changed or not) matters to what follows.               *)
EndReviewer ==
  /\ \E changed \in IF agent = "docs" THEN BOOLEAN ELSE {FALSE} :
       /\ Goto("agentBusy", AfterReviewer(agent, changed))
       /\ documented' = changed
  /\ agent' = NextReviewer(agent)
  /\ EmitOnly("review")
  /\ UNCHANGED loop

StaticAnalysis ==
  /\ Goto("staticAnalysis", "agent")
  /\ EmitOnly("static_analysis")
  /\ UNCHANGED <<loop, review>>

Documented(text) == [text EXCEPT !.docs = TRUE]

KeepAnyDocs(changed, ok) == changed     \* slip: the recheck is ignored

(* Documentation that does not pass again is dropped.                      *)
KeepDocs(changed, ok) == changed /\ ok

Recheck ==
  /\ Goto("recheck", "saveReview")
  /\ Emit("docs_verified")
  /\ \E ok \in BOOLEAN :
       /\ Accept(Documented(code), tests, ok)
       /\ documented' = KeepDocs(documented, ok)
  /\ UNCHANGED <<run, attempts, stored, result, env, loop, agent>>

(* update_attempt_review fills review columns that nothing here reads.     *)
SaveReview ==
  /\ Goto("saveReview", "quality")
  /\ UNCHANGED <<run, attempts, stored, loop, review, result, verified>>
  /\ Quiet

EmitQuality ==
  /\ Goto("quality", "saveFinal")
  /\ EmitOnly("quality")
  /\ UNCHANGED <<loop, review>>

SaveFinal ==
  /\ Goto("saveFinal", "rememberLesson")
  /\ run' = [run EXCEPT !.final = IF documented THEN Documented(code) ELSE code,
                        !.docs = documented]
  /\ UNCHANGED <<attempts, stored, loop, review, result, verified>> /\ Quiet

(* A lesson is worth storing when there was an error and a diagnosis had   *)
(* something to say of it.                                                 *)
Teaches == MemoryEnabled /\ firstError # 0 /\ lesson # 0

RememberLesson ==
  /\ Goto("rememberLesson", "finish")
  /\ result' = "success"
  /\ IF Teaches
     THEN Store([kind |-> "lesson", error |-> firstError, lesson |-> lesson])
     ELSE UNCHANGED <<stored, faults>>
  /\ UNCHANGED <<run, attempts, events, verified, env, loop, review>>

-----------------------------------------------------------------------------
(* The attempt failed: diagnose it, record it, decide what comes next.     *)

EmitDiagnosing ==
  /\ Goto("diagnosing", "insertFailed")
  /\ EmitOnly("diagnosing")
  /\ UNCHANGED <<loop, review>>

KeepStale(old, d) == old    \* slip: a missing diagnosis resets nothing

(* diagnose_failure answers or raises; the row is inserted either way, and *)
(* without a diagnosis the previous one is forgotten.                      *)
Keep(old, d) == IF d.given THEN old ELSE 0

InsertFailed ==
  /\ \E d \in {NoDiag} \cup (IF "critique" \in spec.skip THEN {} ELSE Diagnoses) :
       /\ diag' = d
       /\ diagnosis' = Keep(diagnosis, d)
       /\ Goto("insertFailed", IF d.given THEN "diagnosisEvent" ELSE "nextAttempt")
  /\ InsertAttempt(FALSE)
  /\ UNCHANGED <<run, stored, attempt, code, tests, feedback, firstError,
                 lesson, rewrites, review, result, verified>>
  /\ Quiet

MayAlwaysRewrite == tests # 0 /\ diag.blame = "tests"  \* slip: no limit

MayRewrite == tests # 0 /\ diag.blame = "tests" /\ rewrites < MaxTestRewrites

AfterDiagnosis ==
  IF ~diag.hopeful THEN "earlyStop"
  ELSE IF MayRewrite THEN "rewriteTests" ELSE "nextAttempt"

EmitDiagnosis ==
  /\ Goto("diagnosisEvent", AfterDiagnosis)
  /\ EmitOnly("diagnosis")
  /\ diagnosis' = attempt
  /\ lesson' = IF diag.lesson THEN attempt ELSE lesson
  /\ UNCHANGED <<attempt, code, tests, feedback, firstError, diag, rewrites, review>>

EmitEarlyStop ==
  /\ Goto("earlyStop", "rememberFailure")
  /\ EmitOnly("early_stop")
  /\ UNCHANGED <<loop, review>>

(* Whatever raises here is swallowed: the call (nothing has changed but    *)
(* the count) or the update, after which the loop uses tests that the row  *)
(* does not have.                                                          *)
RewriteTests ==
  /\ pc = "rewriteTests"
  /\ rewrites' = rewrites + 1
  /\ \/ /\ pc' = "nextAttempt"
        /\ UNCHANGED <<tests, run, faults, unsaved>>
     \/ \E suite \in {0, rewrites + 2} :
          /\ tests' = suite
          /\ \/ /\ run' = [run EXCEPT !.tests = suite]
                /\ pc' = "testsRewritten" /\ unsaved' = FALSE
                /\ UNCHANGED faults
             \/ /\ Fault("db")
                /\ pc' = "nextAttempt" /\ unsaved' = TRUE
                /\ UNCHANGED run
  /\ UNCHANGED <<attempts, events, stored, attempt, code, feedback, firstError,
                 diag, diagnosis, lesson, review, result, verified, up, spec>>

EmitTestsRewritten ==
  /\ Goto("testsRewritten", "nextAttempt")
  /\ EmitOnly("tests_rewritten")
  /\ UNCHANGED <<loop, review>>

(* Given up: after an early stop, or because no attempt is left.  The      *)
(* failure is stored with the last error and the last code, if any.        *)
GivesUp(outcome) ==
  \/ pc = "rememberFailure" /\ outcome = "early_stopped"
  \/ pc = "nextAttempt" /\ attempt = spec.max /\ outcome = "max_retries_exceeded"

RememberFailure ==
  /\ \E outcome \in {"early_stopped", "max_retries_exceeded"} :
       GivesUp(outcome) /\ result' = outcome
  /\ pc' = "finish"
  /\ IF MemoryEnabled /\ feedback # 0 /\ code # NoCode
     THEN Store([kind |-> "failure", error |-> feedback, lesson |-> 0])
     ELSE UNCHANGED <<stored, faults>>
  /\ UNCHANGED <<run, attempts, events, verified, env, loop, review>>

-----------------------------------------------------------------------------
(* execute_run around _execute.                                            *)

RaiseExceptInsert ==    \* slip: a failing insert of a failed attempt is ignored
  /\ \/ pc \in DbSteps /\ Fault("db")
     \/ pc \in CallSteps /\ Fault("call")
  /\ pc = "nextAttempt" => attempt < spec.max
  /\ IF pc = "insertFailed"
     THEN pc' = "nextAttempt" /\ UNCHANGED result
     ELSE pc' = "crashed" /\ result' = "failed"
  /\ UNCHANGED <<rows, loop, review, env, verified>>

RaiseRetriesReview ==   \* slip: an error in the review starts another attempt
  /\ \/ pc \in DbSteps /\ Fault("db")
     \/ pc \in CallSteps /\ Fault("call")
  /\ pc = "nextAttempt" => attempt < spec.max
  /\ IF pc = "saveReview"
     THEN pc' = "nextAttempt" /\ UNCHANGED result
     ELSE pc' = "crashed" /\ result' = "failed"
  /\ UNCHANGED <<rows, loop, review, env, verified>>

(* An exception that no try block inside _execute catches.                 *)
Raise ==
  /\ \/ pc \in DbSteps /\ Fault("db")
     \/ pc \in CallSteps /\ Fault("call")
  /\ pc = "nextAttempt" => attempt < spec.max
  /\ pc' = "crashed"
  /\ result' = "failed"
  /\ UNCHANGED <<rows, loop, review, env, verified>>

EmitErrorAsEnd ==       \* slip: the handler announces the end itself
  /\ Goto("crashed", "finish")
  /\ EmitOnly("run_finished")
  /\ UNCHANGED <<loop, review>>

EmitError ==
  /\ Goto("crashed", "finish")
  /\ EmitOnly("error")
  /\ UNCHANGED <<loop, review>>

FinishRun ==
  /\ Goto("finish", "finishedEvent")
  /\ run' = [run EXCEPT !.status = result, !.closed = TRUE]
  /\ UNCHANGED <<attempts, stored, loop, review, result, verified>> /\ Quiet

(* The last update raises out of execute_run: jobs._log_crash logs it, and *)
(* nothing ever concludes the row in this process.                         *)
AbandonRun ==
  /\ Goto("finish", "abandoned")
  /\ Fault("db")
  /\ UNCHANGED <<rows, loop, review, env, result, verified>>

EmitRunFinished ==
  /\ Goto("finishedEvent", "done")
  /\ EmitOnly("run_finished")
  /\ UNCHANGED <<loop, review>>

-----------------------------------------------------------------------------
(* The process dies with its thread pool and all it had queued; when it    *)
(* comes back, recover_interrupted_runs closes what can never finish.      *)

ProcessDies ==
  /\ up
  /\ Fault("process")
  /\ up' = FALSE
  /\ pc' = IF pc \in Halted THEN pc ELSE "dead"
  /\ UNCHANGED <<rows, loop, review, spec, unsaved, result, verified>>

RecoveredAll(row) == [row EXCEPT !.status = "failed"]   \* slip: no WHERE

RecoveredRunning(row) ==                \* slip: queued runs are forgotten
  IF row.status = "running" THEN [row EXCEPT !.status = "failed"] ELSE row

Recovered(row) ==
  IF row.status \in Active THEN [row EXCEPT !.status = "failed"] ELSE row

Restart ==
  /\ ~up
  /\ up' = TRUE
  /\ run' = Recovered(run)
  /\ UNCHANGED <<attempts, events, stored, loop, review, spec, unsaved, pc,
                 result, verified, faults>>

Prologue == StartRun \/ EmitRunStarted \/ Recall \/ SaveMemories
              \/ EmitTestsWriting \/ SaveTests \/ EmitTestsReady
Attempt  == BeginAttempt \/ EmitAttemptStarted \/ GenerateCode
              \/ EmitSandboxStarted \/ Verify
Success  == InsertPassed \/ EmitVerified \/ SkipReviewer \/ StartReviewer
              \/ EndReviewer \/ StaticAnalysis \/ Recheck \/ SaveReview
              \/ EmitQuality \/ SaveFinal \/ RememberLesson
Failure  == EmitDiagnosing \/ InsertFailed \/ EmitDiagnosis \/ EmitEarlyStop
              \/ RewriteTests \/ EmitTestsRewritten \/ RememberFailure
Ending   == Raise \/ EmitError \/ FinishRun \/ AbandonRun \/ EmitRunFinished

Worker == Prologue \/ Attempt \/ Success \/ Failure \/ Ending

Next == Worker \/ ProcessDies \/ Restart

Spec == Init /\ [][Next]_vars

(* The pool runs a worker until it returns, and docker-compose restarts a  *)
(* server that died (restart: unless-stopped).                             *)
FairSpec == Spec /\ WF_vars(Worker) /\ WF_vars(Restart)

-----------------------------------------------------------------------------
(* Properties.                                                             *)

Passed == \E i \in DOMAIN attempts : attempts[i].passed

(* The rows of `attempts` are numbered 1, 2, 3 ... in the order of their   *)
(* insertion, none follows one that passed, and runs.total_attempts counts *)
(* them all or all but the attempt in flight, through crashes and errors   *)
(* between the two transactions that keep them together (lines 236, 257    *)
(* and 279).                                                               *)
AttemptsInStep ==
  /\ \A i \in DOMAIN attempts :
       /\ attempts[i].number = i
       /\ attempts[i].passed => i = Len(attempts)
  /\ Len(attempts) <= run.total
  /\ run.total <= Len(attempts) + 1

(* The text in runs.final_code is the code of a passing attempt or its     *)
(* documented version, and passed that attempt's tests.                    *)
Delivered ==
  \E i \in DOMAIN attempts :
    /\ attempts[i].passed
    /\ run.final \in {attempts[i].code, Documented(attempts[i].code)}
    /\ run.docs <=> run.final # attempts[i].code
    /\ <<run.final, attempts[i].tests>> \in verified

(* A run that says "success" delivers a text that the sandbox accepted     *)
(* with the tests the loop was using: the code of its passing attempt, or  *)
(* its documented version, which has to pass again to be kept (line 156).  *)
FinalCodeVerified == run.status = "success" => Delivered

(* build_certificate takes the first passing row in the order of the       *)
(* attempt numbers, final_code or else that row's code, and the spec_tests *)
(* of the run as they are when it is asked.                                *)
CertifiedRow(i) ==
  /\ attempts[i].passed
  /\ \A j \in DOMAIN attempts :
       attempts[j].passed => attempts[i].number <= attempts[j].number

CertifiedCode(i) == IF run.final = NoCode THEN attempts[i].code ELSE run.final

(* A certificate pairs the hash of a code with the hash of the tests it    *)
(* was verified against: that code has passed those tests.  The one way    *)
(* out is the swallowed error of saving rewritten tests (line 304), until  *)
(* tests are saved again: then the row still has the old ones.             *)
CertificateHonest ==
  \A i \in DOMAIN attempts :
    run.status = "success" /\ CertifiedRow(i) =>
      <<CertifiedCode(i), run.tests>> \in verified \/ unsaved

(* Events announce what is already in the tables: a reader told of an      *)
(* attempt, a pass or a diagnosis finds the row (only generated code and   *)
(* sandbox results are shown before their row exists).                     *)
StoryBackedByRows ==
  \A i \in DOMAIN events :
    LET e == events[i] IN
    /\ e.attempt <= run.total
    /\ e.type = "verified" =>
         e.attempt \in DOMAIN attempts /\ attempts[e.attempt].passed
    /\ e.type = "diagnosis" =>
         e.attempt \in DOMAIN attempts /\ ~attempts[e.attempt].passed

(* run_finished is the last event of a run, comes at most once, and names  *)
(* the status that the row has by then and keeps, whatever crash or        *)
(* recovery comes around it (lines 198-205).                               *)
StoryEndsWithVerdict ==
  \A i \in DOMAIN events :
    events[i].type = "run_finished" =>
      /\ i = Len(events)
      /\ events[i].status = run.status
      /\ run.closed

(* A run writes at most one memory.  A lesson comes from a run that passed *)
(* after a failure: it pairs the first error with a diagnosis made before  *)
(* the pass.  A failure comes from a run with no passing attempt: it is    *)
(* the last error, and the run never turns out a success.                  *)
MemoryMatchesOutcome ==
  /\ Len(stored) <= 1
  /\ \A i \in DOMAIN stored :
       IF stored[i].kind = "lesson"
       THEN /\ Passed /\ stored[i].error = 1
            /\ stored[i].lesson \in 1..(Len(attempts) - 1)
       ELSE /\ ~Passed /\ stored[i].error = Len(attempts)
            /\ run.status # "success"

(* What generate_code is given to repair (lines 239-249) is one attempt's: *)
(* code, error and diagnosis of the attempt before, never older ones.      *)
RepairsLastAttempt ==
  pc = "generate" =>
    /\ feedback = attempt - 1
    /\ diagnosis \in {0, attempt - 1}
    /\ code \in {NoCode, Text(attempt - 1)}
    /\ diagnosis # 0 => diag.given

(* A run settles: its row gets a terminal status for good.  The one way    *)
(* out is the last update raising, and then only a restart closes it.      *)
RunSettles == <>[](run.status \in Terminal \/ pc = "abandoned")

(* What readers of the row are promised (RunLifecycle) is what they get.   *)
Lifecycle == INSTANCE RunLifecycle WITH
  status <- run.status, budget <- spec.max,
  recorded <- Len(attempts), passed <- Passed

RefinesLifecycle == Lifecycle!Spec

(* What followers of the events are promised (EventLog) is what they get:  *)
(* run_finished comes last, and only after the status it announces.        *)
StoryLog == INSTANCE EventLog WITH
  status <- IF run.status \in Active THEN "active" ELSE "final",
  log    <- [i \in DOMAIN events |-> events[i].type = "run_finished"],
  writer <- IF pc = "finishedEvent" THEN "closing"
            ELSE IF pc \in Halted THEN "closed" ELSE "open",
  alive  <- up

RefinesEventLog == StoryLog!LogSpec

=============================================================================
