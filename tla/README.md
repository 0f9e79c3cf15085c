# Verification of the self-improving coding agent

The program asks a language model for Python code and for tests, runs both in a
sandbox, has failures diagnosed, and tries again until the tests pass or the
attempts are used up. It keeps everything in one SQLite database that worker
threads, request threads and event streams share without locks of their own, and it
must survive errors in any of its calls and restarts of its only process. This
directory holds TLA+ models of that behaviour, TLC configurations that check them
on small instances, and TLAPS proofs of what matters most for every instance.

Run everything from this directory:

    tlc -workers 2 -config MCPipeline_loop.cfg MCPipeline.tla
    tlapm PipelineProofs.tla

## 1. Inventory of the system

| part | state | operations | interacts with |
| --- | --- | --- | --- |
| Repair pipeline (`app/pipeline.py`) | locals of one worker | `execute_run`, `_execute`, `_review`, `_recall`, `_remember` | database, memory, sandbox, model |
| Worker pool (`app/jobs.py`) | thread pool and its queue (in memory) | `submit_run`, `recover_interrupted_runs` | pipeline, database |
| API (`app/main.py`) | none of its own but the table of evaluations | start runs, re-execute, certificate, share, events, memory, evaluation | all |
| Database (`app/db.py`) | `runs`, `attempts`, `run_events`, `eval_runs` | one transaction per call | all |
| Harness and sandbox (`app/harness.py`, `app/sandbox.py`) | execution slots, cached Docker probe, containers | `verify`, `run_code` | Docker |
| Diagnosis and critique (`app/critique.py`) | none | `diagnose_failure`, `critique_code` | model |
| Vector memory (`app/memory.py`) | a Chroma collection | store, recall, mark used, pin, delete | pipeline, API |
| Certificates (`app/certificate.py`) | none | `build_certificate`, `sign` | database |
| Pull requests (`app/github_agent.py`) | branch, file and pull request on GitHub | `open_pull_request_for_run` | GitHub |
| Access (`app/security.py`) | sliding window per client | keys, workspaces, rate limit | API |
| Evaluation (`eval/benchmark.py`, `app/main.py`) | progress table, `eval_runs`, result files | run, poll, list | pipeline parts |
| Metrics, static analysis, observability | counters | scoring, scans | pipeline |
| Frontend (`frontend/src`) | the live view of a run | follow the event stream, render | API |

What makes these parts hard:

* **Many small transactions.** Every `db.*` call opens a connection, commits and
  closes. A run's row, its attempts and its events are kept in step only by the order
  of those calls, and other threads and crashes come between any two.
* **Errors are handled unevenly.** Some calls are wrapped (events, memory, test
  writing, diagnosis, the rewrite of tests, each reviewer), others end the run as
  `failed`, and the last update of a run is wrapped by nothing.
* **Crash and restart.** The queue and the threads are lost, the rows stay;
  `recover_interrupted_runs` closes them at the next start.
* **Several writers of one run.** `/execute` writes attempts and the status of a run,
  also of one that a worker is busy with.
* **Polling and reconnecting.** The event stream reads events and status in two
  queries, and the browser resumes with the last id it took.
* **Read-modify-write without locks** in memory, sharing and budget.

What makes each part correct:

* Pipeline: a status is supported by the recorded attempts; what is delivered passed;
  attempts are numbered in order and counted; events announce what the tables hold;
  repairs use the last attempt; memories and certificates tell the truth; every run
  settles.
* Pool and recovery: every active row has somebody who will conclude it; no run is
  executed twice, or again after it was over; nothing starves.
* Re-execution: numbers are fresh, a success has a passing attempt, a certificate
  needs the tests.
* Event stream: the page shows a prefix of the events, and a recorded end arrives
  whatever connections are lost before it.
* Sharing and pull requests: a link changes only when requests overlap; clicking again
  repairs what an earlier click left half-done, and what is reported as opened is there.
* Access and budget: the window holds although its clock is read outside the lock, a
  refusal tells the truth about when to come back, and a day is overshot by no more
  than the runs that were under way.
* Evaluation: what is listed was earned in the sandbox, is listed once, and a job that
  is watched ends.
* Sandbox: slots come back, and a container that lives on without one has cost a
  failure.
* Functions: answers of a model are read as written; a score never rises with a
  finding and what is skipped is not perfect, with exceptions that are named; the
  recalled block keeps its cap.

## 2. The modules

| module | what it is |
| --- | --- |
| `RunLifecycle` | abstract: what a row of `runs` promises its readers |
| `EventLog` | abstract: what the events of a run promise their followers |
| `Pipeline` | one run, executed by one worker, with faults, crash and restart; implements both |
| `PipelineProofs` | theorems about the rows of `Pipeline`, its events, repairs, memories and certificates |
| `RunService` | requests that start runs, the thread pool, crash and recovery |
| `RunServiceProofs` | theorems about `RunService` |
| `ExecuteEndpoint` | `Pipeline` with concurrent calls of `/execute` |
| `ExecuteEndpointProofs` | theorems about `ExecuteEndpoint`, resting on those of `PipelineProofs` |
| `EventStream` | `EventLog` with the polling stream, the connection and the hook |
| `Sandbox` | execution slots, the Docker probe, containers and their ends |
| `Harness` | `Sandbox` with the test driver inside and `verify` outside |
| `HarnessProofs` | theorems about `Harness` |
| `Memory` | the vector memory under concurrent recalls, pins and deletions |
| `Publishing` | share links and pull requests of one run, with GitHub and its maintainers |
| `PublishingProofs` | theorems about `Publishing` |
| `Admission` | keys and workspaces, the rate limiter, the token budget |
| `ClientProofs` | theorems about what clients meet: `EventStream` and `Admission` |
| `Evaluation` | benchmark jobs of the server and of the command line, and their listing |
| `EvaluationProofs` | theorems about `Evaluation` |
| `Critique` | how the verdict of a reviewer and a diagnosis are read |
| `QualityMetrics` | the quality score and its parts |
| `Recollection` | how memories are trimmed and fill a prompt |
| `FunctionProofs` | theorems about `Memory`, `Recollection`, `Critique` and `QualityMetrics` |
| `MC*` | instances of these for TLC |

`ExecuteEndpoint` extends `Pipeline` and interleaves its worker with the calls.
`EventStream` extends `EventLog` instead of `Pipeline`: the run `loop` shows that the
pipeline writes events as `EventLog` says, so whatever `EventStream` shows of a
follower of any `EventLog` holds for followers of a pipeline, without the product of
the two state spaces. `RunService` abstracts what `Pipeline` does between the first
and the last update of a run.

Operators marked `slip:` are not part of the model. Each is a definition of it with a
plausible mistake, and stands before the definition it varies; substituting it makes
a property fail, which shows that the property depends on that line of the code.

### Pipeline and the code

One action is one database transaction of the worker, together with the local
computation before it that nobody can observe: `Verify` is the sandbox run, the
assignments of lines 267-271 and the `sandbox_result` event. `pc` names the
transaction the worker is about to make. Variables carry the names of the locals of
`_execute`; `run`, `attempts` and `events` are the three tables restricted to one
run; `stored` is what the run wrote to the memory. Two histories: `verified`, the
pairs of code and tests the sandbox accepted, and `unsaved`, that rewritten tests
could not be saved and none were since.

| code | actions |
| --- | --- |
| `_execute` 213-228 | `StartRun` ... `EmitTestsReady` |
| attempt loop 235-254 | `BeginAttempt` ... `Verify` |
| success 256-265, `_review` 123-185 | `InsertPassed` ... `RememberLesson` |
| failure 267-310 | `EmitDiagnosing` ... `RememberFailure` |
| `execute_run` 192-209 | `Raise`, `EmitError`, `FinishRun`, `AbandonRun`, `EmitRunFinished` |
| process, `recover_interrupted_runs` | `ProcessDies`, `Restart` |

Data is reduced to what the loop looks at. A program is the number of the attempt
that produced it (and whether documentation was added), a test suite its version, an
error or a diagnosis the attempt it is about; 0 is the falsy value. The answer of a
model or of the sandbox is any of those the code distinguishes. Prompts, tokens,
scores and output texts are left out.

Faults are of five kinds, bounded in number: the insert of an event fails
(swallowed), a transaction fails, a model or sandbox call raises, the memory raises
(swallowed), the process dies. Calls that are wrapped in `try` and yield a value the
loop handles anyway (test writing, diagnosis, reviewers, rewrite) may fail at any
time without a fault being counted.

### RunService and the code

`InsertRow` and `ClaimRow` are the two transactions of `_new_run`, `HandOver` is
`submit_run`, `TakeNext` a thread of the pool that becomes free, `Begin`, `Conclude`
and `Abandon` the ends of `execute_run`, `Die` and `Restart` the process. A
comparison is one request with several runs; `/generate-and-repair` executes its run
on the request's own thread. A first update that raises appears as a `Conclude` from
`queued`.

### ExecuteEndpoint and the code

`Load` reads run and attempts and computes the number (289-314), `RunCode` is the
sandbox, `InsertExecution` and `UpdateStatus` are the two transactions. Any stored
attempt may be asked for. `code_override`, disabled by default, is left out.

### EventStream and the code

`ReadEvents`, `SendEvent`, `CheckStatus` and `WakeUp` are the generator of
`run_events`; `Connect`, `ConnectFails`, `Receive`, `StreamEnds` and `Stop` are
`useRunStream` with `streamRunEvents`; `Drop` loses the connection with what is on
it. The id of an event is its position, since ids of one run are only compared. The
server notices a lost connection at once: a generator that runs on for a moment only
reads.

### Sandbox, Harness and the code

`Enter` takes a slot, `UseCached`, `StartProbe` and `EndProbe` are
`_is_docker_available`, `Start` is `docker run`, `TimeOut`, `Kill` and `Remove` are
lines 150-155 of `_run_docker`, and `Return` is every way out of the `with _slots`
block. `LoseClient` is the way out by lines 146-148 and 157-159, with neither kill nor
rm, whatever became of the container: the daemon is reached through a proxy
(`docker-compose.yml:55`), and `DaemonStops` loses it with its containers or without.
`Kill` and `Remove` may fail, or raise (`Raise`); nothing catches that inside the
handler, so `run_code` raises and the call's outcome is `raised`. `EndUnheard` is a
program that ends with nobody listening. `failures` counts commands that failed beside a
living container, `broken` clients that broke off beside one; neither is bounded, since
every step that counts ends a stage of a call. The other endpoints that probe Docker are
`ProbeAside`. `Drive` is one stage of the driver script (the solution, loading the
tests, one test), each of which may also end the process with any status, as a solution
can; `Reported`, `TestsOk` and `CleanExit` are `verify`. `loud` says that the report
lies beyond `MAX_OUTPUT_CHARS`. The solution does not rewrite the driver's own
variables, and nobody but the driver prints the marker. `Pipeline` uses the verdict
only: a success of `Harness` is what it calls accepted.

### Memory and the code

One action is one call of the Chroma collection: `Recall` is `count` and `query`,
`ReadUses` and `WriteUses` are the two calls of `mark_used`, `ReadToPin` and `WritePin`
those of `set_pinned`, `ReadToDelete` and `Delete` those of `delete_memory`. The
collection is a function from ids to metadata; `update` and `delete` ignore ids it does
not hold. `lapped` is a history of the memories that were written while another
operation was about to write back a copy of them.

### Publishing and the code

`Share`, `WriteShare` and `Unshare` are `share_run` and `unshare_run` (`main.py`
461-477): the row is read in one transaction and written in another, and the write
does not look again. A pull request (`github_agent.py` 38-191) is one action per
HTTP call, with the answers GitHub gives to it: `Load` reads the run, `GetBase` asks
for `main` and then `master`, `PostBranch`, `PutFile`, `ReadFile` and `ReplaceFile`
are the branch and the contents calls with and without a sha, `PostPull` and
`LookupPull` open the pull request or find the one that is open. GitHub is external
and reduced to what those answers depend on: which bases exist, the version of the
solution file on the branch of the run, the bases of open pull requests, and whether
one was merged. `Fault` fails any call, before or after it took effect; `Meddle` is
what maintainers do. `disturbed`, `stale` and `revoked` are histories. `Work` is the
worker of the run and `Execute` a call of `/execute`; of the attempts, the module keeps
whether the first that passes was made by the one, with the tests, or by the other,
without.

### Admission and the code

`Verify` is `verify_api_access` up to the workspace; `ReadClock` and `Check` are
`RateLimiter.check` before and inside its lock; `CheckBudget` is `_check_budget`,
`CreateRun` the insert that dates a run, and `EndRun` the update that records its
tokens. `Tick` and `Midnight` are the two clocks of the code. `admitted`, `promise`
and `peak` are histories; `Total`, which they use, adds up by counting pairs, so that
sums can be reasoned about without recursion.

### Evaluation and the code

`Start` and `Register` are `run_eval_endpoint` and the first line of its thread;
`Baseline`, `Attempt` and `Record` are `evaluate_problem` and the loop of
`run_benchmark`; `InsertRow`, `OpenFile`, `WriteFile`, `MarkDone` and `MarkFailed`
publish; `Crash` ends a process. `ListedRows` and `ListedFiles` are `_all_evals`.
`tally` is a history of what the sandbox said.

### The functions and the code

`ParseVerdict` is `_parse_verdict` with its two passes over the lines, and
`ParseDiagnosis` is `_parse_diagnosis`; numbers are hundredths, with values for what is
no number. `Scores`, `Weight`, `Total` and `Overall` are `calculate_quality_metrics`,
and the operators before them its scoring functions; `BanditScan` is the fallback of
`static_analysis.py`. `Trim`, `Entry` and `FormatMemories` are `_trim` and
`format_memories`, on texts that are sequences of pieces: the two halves of the tag
`</recalled_memory>`, which `_trim` takes out (`Without`), and anything else. The
reference definitions are in the properties: a declarative reading of the answer (which
line is the last of its heading, which lines stand in a section, and that a list holds
just those in their order), monotony, the bounds of an average and what there is
evidence for (`Skipped`, which looks at the evidence and not at the scores), and the
best memories up to the first that does not fit. The loops over lines and memories
(`Headings`, `Collected`, `Loop`) are recursive functions on the number of rounds.

## 3. What the runs show

| run | module | properties | states |
| --- | --- | --- | --- |
| `loop` | `Pipeline` | `TypeOK`, `AttemptsInStep`, `FinalCodeVerified`, `StoryBackedByRows`, `StoryEndsWithVerdict`, `RefinesLifecycle`, `RefinesEventLog`, `RunSettles` | 1.9 million |
| `repair` | `Pipeline` | `MemoryMatchesOutcome`, `RepairsLastAttempt`, `CertificateHonest` | 1.3 million |
| `service` | `RunService` | `TypeOK`, `OrphansCostErrors`, `HeldOnce`, `OverIsOver`, `EveryRunSettles` | 30 thousand |
| `calls` | `ExecuteEndpoint` | `SuccessHasPassingRow`, `NumberedOneByOne` | 1.1 million |
| `follow` | `EventStream` | `ShownIsPrefix`, `RecordedEndIsShown` | 24 thousand |
| `sandbox` | `Harness` | `HarnessTypeOK`, `ContainersBounded`, `VerdictSound`, `EveryCallReturns` | 1.2 million |
| `publish` | `Publishing` | `UndisturbedClickSucceeds`, `OpenedIsThere`, `LinkKept` | 2.3 million, up to symmetry |
| `admission` | `Admission` | `WindowBounded`, `RetryAfterHolds`, `OvershootBounded` | 1.2 million, up to symmetry |
| `evals` | `Evaluation` | `ListedIsEarned`, `DoneIsListedOnce`, `JobsEnd` | 71 thousand |
| `functions` | `Critique`, `QualityMetrics`, `Recollection`, `Memory` | `AnswersAsWritten`, `SkippedIsNotPerfect`, `FindingsOnlyLower`, `BlockFits`, `OwnMemoriesOnly`, `KeptUnlessLapped`, `DeletedStaysDeleted` | 0.3 million, up to symmetry |

Every property is stated in words above its definition.

Two runs check something the repository says of itself, and TLC finds the code doing
otherwise:

* `verified` (`OnlyVerifiedCertified`). One call of `/execute` on a failed run whose
  program exits cleanly makes the run a success and certifiable with the hash of tests
  the program failed.
* `published` (`OnlyVerifiedPublished`). The same run is then committed and a pull
  request opened for it, where `app/github_agent.py:72` says "Only runs that passed
  verification can be opened as a pull request." The run injects neither faults nor
  maintainers: they are not needed.

Other places where the code does less than one may expect of it came up while the
models were written. The properties are stated so as to say what does hold, and these
are why they say no more:

* `/execute` takes its attempt number before the sandbox run and uses it afterwards.
  Two calls, or a call beside the worker, insert the same number, against the comment
  at `app/main.py:291`. `NumberedOneByOne` is about calls made one by one.
* A rewrite of the tests whose update raises leaves the old tests in the row while
  the loop verifies with the new ones (`app/pipeline.py:304`). `CertificateHonest`
  excuses just that, by `unsaved`, and only until tests are saved again.
* A lost connection to the Docker daemon, or a `docker kill` that raises, is enough to
  leave a container running after its slot was given back; nothing but its own program
  ends it. `ContainersBounded` counts them: one per client that broke off, one per two
  commands that failed.
* The driver prints its report last and `run_code` cuts the output at its end
  (`app/sandbox.py:85`): a program that prints more than the limit fails verification
  although every test passed. `VerdictSound` is about successes only.
* The `run_finished` the server makes up for a run without one (`app/main.py:518`)
  carries an id the browser has seen, so `useRunStream.ts:41` drops it and the hook
  reconnects for ever: a connection that ends without an error is no retry
  (`useRunStream.ts:58-67`). `RecordedEndIsShown` is about recorded ends.
* Any failure of the question for `main` reads as "there is no main", so a repository
  with both branches may get a second pull request, against `master`; two clicks at
  once can end one of them with 409 after an edit of a maintainer, and a click
  overwrites such an edit. `UndisturbedClickSucceeds` excuses exactly these.
* The budget is checked against what ended runs recorded, so a day is overshot by the
  runs under way (`OvershootBounded`); and the answer promises midnight UTC
  (`app/main.py:187`) where both sides of the comparison use the local date
  (`app/db.py:506`).
* `Retry-After` is cut to whole seconds, and an entry leaves the window only after
  more than 60 s: a client that comes back exactly when told may be refused once more.
  `RetryAfterHolds` allows one second.
* A bandit scan that raises reports itself available and without findings
  (`app/static_analysis.py:44`), so code that nobody audited gets a security score of
  1.0, where `app/metrics.py:4-5` says that a skipped component "never counts as
  perfect". `SkippedIsNotPerfect` goes by the evidence there is, and names this
  exception.
* An audit in prose is worth 0.60, the same prose with its first tag short of
  `[CRITICAL]` up to 0.95 (`app/metrics.py:65-69`): one finding more raises the score.
  `FindingsOnlyLower` names this exception.
* `_trim` takes the closing tag out once. What stood around a tag may form another, so a
  text can be stored with a tag and shown without it; and the loop of `format_memories`
  ends at the first memory that does not fit, so a shorter one behind it is left out
  too. `BlockFits` says so.

## 4. Bounds, and why they are enough

* `Pipeline`: two attempts reach every transition of the loop, including a second
  attempt after each outcome of the first; three (run `repair`) let an error, a
  diagnosis or a code become two attempts old. Two faults let a second error hit the
  handling of the first, and a crash follow an error. Three choices of
  `skip_agents` cover the switches the loop looks at and one reviewer of each
  position. `MAX_TEST_REWRITES` is 1, as in the code, and 2 in `repair`, so that tests
  are saved after a save that failed.
* `RunService`: four runs from three requests for two threads, so that a run waits, a
  comparison can be cut between its models, and an inline run goes on beside the
  pool. Two errors, so that both updates of one run can fail, and one crash.
* `ExecuteEndpoint`: two callers and the worker, which gives every pair of writers.
* `EventStream`: four events and the last, three lost connections and two crashes for
  two retries, so that the retry limit is reached and also reset.
* `Harness`: two calls for one slot, so that one waits for the other; one outage of
  Docker before, during or after either, with its containers or without; any command may
  fail or raise, so that both calls may leave a container behind; up to one test per
  suite, so that none, a failing and a passing one occur.
* `Memory` (in `functions`): three memories and five operations, so that one is stored
  and two others overlap on it while a fourth deletes it.
* `Publishing`: three requests, each of which may share, unshare or click, so that a
  third comes between the halves of two others; two faults and two steps of the
  maintainers, so that a retry may fail as well and an edit may meet a deletion. Three
  tokens let every request mint one.
* `Admission`: four requests of two clients for a limit of two, so that a client is
  refused while readings are out of order; a window of four ticks with seconds of two
  and a stall of one are the smallest in which rounding and overtaking both happen.
  Seven ticks let an entry expire and the client come back. Two days and one restart.
  The four configurations, and the sizes of evaluations, are chosen in `Init`, so that
  one run covers servers that never meet in one behaviour.
* `Evaluation`: one job of two problems, of either kind, or two of one problem, with two
  attempts per problem and one row listed, so that a newer row displaces an older one;
  one crash, of the server or of the command line.
* `functions`: every answer of up to four lines (two headings and what belongs to them),
  every start of a score with up to two findings more, so that a step or a floor is
  crossed, and every list of three memories with texts below, at and above the limit,
  with a tag or a tag in a tag, so that a long memory stands between two that fit.
* Deadlock is not checked where the system really stops: a run, a request or a
  finished page ends.

## 5. Fairness

`RunSettles` and `EveryRunSettles` assume that a worker thread that can step does
(every model and sandbox call has a timeout), that the pool hands a queued run to a
free thread, and that a dead server is restarted (`restart: unless-stopped` in
`docker-compose.yml:72`). `RecordedEndIsShown` assumes besides that the event loop and
the browser keep stepping. `JobsEnd` assumes that the thread of an evaluation goes on,
and nothing of the command line. `EveryCallReturns` assumes that a thread goes on and
that time passes: `subprocess.run` has a timeout, the probe has one, and `docker kill`
and `docker rm`, which have none, are assumed to end. The program in the container is
assumed nothing of, nor that Docker comes back. Nothing assumes that a fault happens,
and faults are bounded, so they stop.

## 6. What is proved

`PipelineProofs` proves for every `MaxAttempts`, `MaxTestRewrites`, set of skipped
agents and number and kinds of faults, from `PipelineAssumption` only:

| theorem | statement |
| --- | --- |
| `TypeCorrect` | `Spec => []TypeOK` |
| `AttemptsStayInStep` | `Spec => []AttemptsInStep` |
| `ImplementsLifecycle` | `Spec => RefinesLifecycle` |
| `DeliveredCodePassed` | `Spec => []FinalCodeVerified` |

None is inductive by itself. What the next transaction may do to the tables depends
on where the worker is, so the invariant `Inv` adds three things to the types:
`ControlInv` (the row is active until the last update, and `result` is terminal by
then), `RowsInv` (by region of the loop: how the number of rows compares to `attempt`,
and whether one passed) and `RewriteLeft` (the rewrite is entered only while one is
left). The refinement follows from `Inv`: a step that inserts a row maps to `Record`,
the last update and a recovery to `Conclude`, the first update to `Begin`, everything
else to a stutter. For the delivered code a second invariant, `DeliveryInv`, follows
the text from the sandbox through review to the final update.

The same module proves what a run tells of itself: events never run ahead of the rows
(`StoryIsBacked`), the verdict comes last (`VerdictComesLast`), a repair is of the last
attempt (`RepairIsOfLast`), the memory left matches the outcome (`MemoryIsTrue`), and
the events implement the abstract log (`ImplementsEventLog`). Each rests on `Inv` and a
small invariant of its own: `VerdictInv` (a final event only with a worker that is
done), `RepairInv` (whose code, error and diagnosis are in hand, by region of the loop),
`LessonInv` and `StoredInv` (the first error is that of attempt 1, a lesson is older
than the attempt that passes, and no row is inserted once something is stored). Two
lemmas are shared: `WorkerSays`, that a step emits only the event of its place, and
`WorkerPlaces`, that a worker stays at work until its last update.

`CertificatesAreHonest` assumes nothing of the faults. The argument follows the tests
from the sandbox to the row and the code to the final update: unless a save of rewritten
tests has failed and none has succeeded since (`unsaved`), the row holds the tests the
loop verifies with.

`ClientProofs` proves two things about what clients meet.

The page shows a prefix of the events, each once and as written, however connections
break and processes die (`NothingLostOrRepeated`, for any number of events, retries and
losses). `StreamInv` follows an event through the three places it can be in: the batch
the generator read (`BatchInv`: consecutive, from the cursor on), the wire (`WireInv`:
in order, the last of them where the generator is), and the page (`ShownInv`).

For the limiter and the budget, `AdmissionInv` is proved inductive (`AdmissionTypes`,
and checked by TLC on the instance of the run first), and from it `WindowBounded`
(`AdmissionsBounded`), `RetryAfterHolds` (`RetryAfterIsEnough`) and `OvershootBounded`
(`BudgetOvershoot`), for any clients, keys, limits, budgets, days and numbers of
requests. The window rests on two facts: a request reads the clock at most `Stall`
ticks before it holds the lock (`ClockInv`: the constant bounds in the model what the
scheduler decides in the code, and the property names it), and whatever was admitted
and is younger than the window, less that stall, is still in the limiter's list
(`WindowInv`), because the list is purged by readings that are not ahead of the clock.
The budget rests on an account: every run past the check is waiting for its row, in
flight, or recorded, so the tokens recorded and those the others may still spend stay
below the budget and `MaxTokens` for each run of the highest number there was past the
check at once (`SpendInv`, with `peak` a history).

`FunctionProofs` is about what a run goes by. For any sets of memories, workspaces and
operations, workspaces stay apart (`WorkspacesApart`), only overlapping operations lose
a count or a pin (`OnlyOverlapsLose`), and no stale copy brings a deleted memory back
(`NoReturn`). The first two rest on `MInv`, which says what an operation holds between
its two calls: memories of its own workspace and, unless the memory was lapped, exactly
what is stored.

The functions are proved against their reference definitions, for inputs of any length.
`AnswersReadAsWritten` and `BlocksFit` are about loops. The library's induction theorems
take an operator as a parameter, which the backends cannot instantiate, so induction is
stated as a fact about sets of numbers (`Onward`), from the well-foundedness of finite
sets under inclusion; with it, the loops are shown to be defined (`HeadingsUnfolds`,
`CollectedUnfolds`, `LoopUnfolds`), and what holds after every round becomes an
invariant of the round (`HeadingsRead`, `SectionsRead`, `Built`). The replacement in
`_trim` is a loop as well (`PassUnfolds`): it leaves a text without tags as it is
(`WithoutTags`) and never makes one longer (`Trimmed`). `SkippedNeverPerfect`
and `FindingsNeverRaise` rest on lemmas about rounding a fraction (`RoundedBetween`,
`RoundedMonotone`) and comparing sums by their summands (`TotalBetween`); the evidence
has an invariant of its own, since an audit with counted findings must not turn into
unstructured prose, which scores 60. `SkippedHasNoScore` is where the evidence meets the
scores: there is none for a component exactly if its score is `NotAvailable`, but for
the failed scan. `CritiqueAssumption`, `RecollectionAssumption` and
`MetricsAssumption` only say what kind of values the inputs are.

`RunServiceProofs` proves, for any requests, runs and number of threads, the types of
the pool (`ServiceTypes`), that no run has two executors (`ExecutedOnce`), and that no
execution, request or recovery takes back a run that is over (`NeverRevived`), and that
orphaned rows are paid for by database errors (`OrphansArePaid`). `NeverRevived`
matters because the first update of `_execute` does not look at the status it
overwrites. They rest on `SInv`: `PlaceInv` says that a run is in at most one of three
places (with its request, in the queue, with a thread of the pool), and there once;
`RowInv` what the table says of a run in each place; `LeftInv` that a request under way
has a run left; and `DeadInv` that a dead process holds nothing.
Orphans are counted step by step: each step makes none, or one with an error of its own
(`Affordable`), and the recovery leaves none.

`HarnessProofs` proves, for any calls, slots, bounds on the tests and any number of
failures, that the slots are accounted for (`SlotsAccounted`), that a leaked container
has cost two failed commands or one client that broke off (`LeaksArePaidFor`), and that
a success ran the solution and all its tests (`SuccessIsEarned`). `HInv` relates what is
not in any one property: which stages of a call hold a slot (`SlotInv`), which may have
a container (`BoxInv`), that twice the leaked containers and the calls half-way to
leaking one are paid for by what failed and what broke off (`LeakInv`), and what the
driver has done when its report is out (`DriverInv`).

`PublishingProofs` proves, for any numbers of requests, tokens, failed calls and steps
of the maintainers, that undisturbed clicks succeed (`ClickingAgainWorks`), that what
they report as opened is there, with the solution (`SuccessIsOnGitHub`), and that links
change only by overlapping requests (`LinksAreStable`). `PInv` says what a request may
rely on between two of its calls: `FoundInv`, that GitHub still holds what an
undisturbed click found or left there; `ShareInv`, that the token of a share that is not
stale is the link or fresh. Every call of a click is shown to be `Steady` - it takes
nothing away that another click relies on - and to leave its `Own` click right; one
lemma (`PStep`) draws the conclusion for all of them.

`EvaluationProofs` proves, for any jobs, sizes, attempts, crashes and length of the list,
that what is listed was earned (`ListIsHonest`) and that a job that is done stays listed,
once (`DoneIsKept`). `EInv` says job by job how far the history of outcomes is ahead of
the records (`CountInv`: by the draft of the problem the job is at), that an outcome
outside the sandbox is on record (`BoxInv`), that whatever has a row or a whole file was
counted by then and changes no more (`PublishedInv`), and what the table may say when
(`TableInv`). A step of one job leaves the invariant of the others alone (`LeftAlone`),
so each step is looked at for its own job only.

`ExecuteEndpointProofs` proves, for any number of callers and faults, that a success has
a passing row (`SuccessIsBacked`) and that calls which take turns extend the numbering
of the worker (`NumberingContinues`). The invariant `Inv` of `PipelineProofs` is lost as
soon as a call overlaps the worker: numbers repeat, and counters have no bound. So
`Shapes` assumes of a row only the fields the argument reads, and `Backed` follows who
is about to write "success" (the worker from its passing row on, a call after its
insert). For the numbering, `Sequential` splits behaviours without overlap in two: while
the worker lives the run is `Untouched` and `Inv` holds, afterwards the calls are
`TakingTurns`.

Only model-checked: the liveness properties (`RunSettles`, `EveryRunSettles`,
`RecordedEndIsShown`, `EveryCallReturns`, `JobsEnd`), because TLAPS does not reason
about `ENABLED` and hence not about fairness. Every invariant and action property of a
passing run has a theorem. The counterexamples of the runs `verified` and `published`
are TLC's alone.

## 7. Plan, and what is not modelled

Everything the first plan named is modelled, and every safety property that a passing
run checks is proved. What could still be added are properties of what is not modelled.

Not modelled:

* Model client and prompt writers (`llm.py`, `generator.py`, `test_agent.py` and the
  other writers): their outcomes are inputs of the loop, their text is wording.
* Observability: counters and logs that nothing in the program reads.
* Attack demonstrations: fixed programs handed to the sandbox.
* Settings and request schemas: constants and field validation; the limits appear as
  CONSTANTS.
* Frontend pages and the folding of events into sentences: rendering without state that
  another part depends on.
* Scripts: one-off tools. (The migration script inserts its rows again when it is run
  again, though it says "Safe to run multiple times".)
* Of the database: statistics, summaries, schema migration, which are read-only or run
  before anything else. Of certificates: hashing, signing, the SVG of the badge. Of
  metrics: the counting of branches and the ratings. Of evaluation: averages, intervals
  and the loading of problem sets. Of the memory: listing, statistics and opening.
