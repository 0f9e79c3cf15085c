----------------------------- MODULE Evaluation -----------------------------
(***************************************************************************)
(* Benchmarks of the agent: the jobs of POST /eval/run, each on a thread   *)
(* of its own with a table in memory for those who watch (app/main.py      *)
(* 640-765), and the command line of eval/benchmark.py, another process.   *)
(* Both run evaluate_problem for one problem after another and publish a   *)
(* summary: as a row and then a file, or as a file.                        *)
(*                                                                         *)
(* Whether a program passes and where it runs (the sandbox, the host, or   *)
(* nowhere: app/sandbox.py) is nondeterministic, and so is whether a call  *)
(* of the model raises.  Averages and intervals are left out.              *)
(***************************************************************************)
EXTENDS Naturals, Sequences, FiniteSets

CONSTANTS
  Jobs,        \* evaluations, each started once (a bound)
  Cli,         \* those started on the command line
  Unsafe,      \* those with --allow-unsandboxed
  Sizes,       \* what may be asked for: per job, the number of its problems, or 0
  Attempts,    \* attempts per problem
  MaxRows,     \* how many rows are listed (LIMIT 50)
  MaxCrashes   \* bound: how often a process dies

ASSUME EvaluationAssumption ==
  /\ Unsafe \subseteq Cli /\ Cli \subseteq Jobs
  /\ Sizes \subseteq [Jobs -> Nat] /\ Attempts \in Nat \ {0} /\ MaxRows \in Nat \ {0}

VARIABLES
  size,      \* per job: how many problems it is about, 0 if it is never started
  at,        \* per job: what it does next
  draft,     \* per job: baseline, sandboxed, and the attempts made at the problem
  results,   \* per job: the records of its problems
  summary,   \* per job: the counts it will publish
  table,     \* _eval_progress
  rows,      \* the jobs in eval_runs, in the order of run_at
  file,      \* per job: its file in results/
  tally,     \* history: per job, the outcomes as they came, and whether one of
             \* them was not in the sandbox
  crashes

work           == <<draft, results, summary, tally>>
published      == <<rows, file>>
evaluationVars == <<size, at, work, table, published, crashes>>

NoDraft   == [base |-> FALSE, boxed |-> FALSE, tries |-> 0, passedAt |-> 0]
NoSummary == [total |-> 0, boxed |-> FALSE, base |-> 0, first |-> 0, solved |-> 0]
Unknown   == [status |-> "unknown", done |-> 0]

EvaluationInit ==
  /\ size \in Sizes
  /\ at = [j \in Jobs |-> "idle"] /\ draft = [j \in Jobs |-> NoDraft]
  /\ results = [j \in Jobs |-> <<>>] /\ summary = [j \in Jobs |-> NoSummary]
  /\ table = [j \in Jobs |-> Unknown] /\ rows = <<>> /\ file = [j \in Jobs |-> "none"]
  /\ tally = [j \in Jobs |-> [base |-> 0, first |-> 0, solved |-> 0, outside |-> FALSE]]
  /\ crashes = 0

Go(j, from, to) == at[j] = from /\ at' = [at EXCEPT ![j] = to]

-----------------------------------------------------------------------------
(* run_eval_endpoint answers with the id before its thread has entered it  *)
(* in the table: until then the status endpoint says 404.                  *)

Start(j) ==
  /\ size[j] > 0
  /\ Go(j, "idle", IF j \in Cli THEN "baseline" ELSE "started")
  /\ UNCHANGED <<size, work, table, published, crashes>>

Register(j) ==
  /\ Go(j, "started", "baseline")
  /\ table' = [table EXCEPT ![j] = [status |-> "running", done |-> 0]]
  /\ UNCHANGED <<size, work, published, crashes>>

-----------------------------------------------------------------------------
(* evaluate_problem.                                                       *)

(* The history of j, after a program has run.                              *)
One(b) == IF b THEN 1 ELSE 0
Tell(j, base, first, solved, boxed) ==
  tally' = [tally EXCEPT ![j] =
    [base   |-> @.base + One(base),     first   |-> @.first + One(first),
     solved |-> @.solved + One(solved), outside |-> @.outside \/ ~boxed]]

(* A baseline that raises counts as not sandboxed.                         *)
Baseline(j) ==
  /\ Go(j, "baseline", "attempt")
  /\ \/ /\ draft' = [draft EXCEPT ![j] = NoDraft]
        /\ UNCHANGED tally
     \/ \E passed, boxed \in BOOLEAN :
          /\ draft' = [draft EXCEPT ![j] =
               [base |-> passed, boxed |-> boxed, tries |-> 0, passedAt |-> 0]]
          /\ Tell(j, passed, FALSE, FALSE, boxed)
  /\ UNCHANGED <<size, results, summary, table, published, crashes>>

FoldLatest(j, boxed) == boxed    \* slip: the last execution decides

(* sandboxed = sandboxed and outcome["sandboxed"]                          *)
Fold(j, boxed) == draft[j].boxed /\ boxed

(* An attempt that raises fails and leaves the flag; nothing has run.      *)
Attempt(j) ==
  LET n == draft[j].tries + 1 IN
  /\ at[j] = "attempt"
  /\ \/ /\ draft' = [draft EXCEPT ![j].tries = n]
        /\ at' = [at EXCEPT ![j] = IF n = Attempts THEN "record" ELSE "attempt"]
        /\ UNCHANGED tally
     \/ \E passed, boxed \in BOOLEAN :
          /\ draft' = [draft EXCEPT ![j] =
               [base |-> @.base, boxed |-> Fold(j, boxed), tries |-> n,
                passedAt |-> IF passed THEN n ELSE 0]]
          /\ at' = [at EXCEPT ![j] = IF passed \/ n = Attempts THEN "record" ELSE "attempt"]
          /\ Tell(j, FALSE, passed /\ n = 1, passed, boxed)
  /\ UNCHANGED <<size, results, summary, table, published, crashes>>

-----------------------------------------------------------------------------
(* run_benchmark: a record that is not sandboxed ends the benchmark, but   *)
(* for --allow-unsandboxed; after the last one summarize counts.           *)

Count(records, P(_)) == Cardinality({i \in DOMAIN records : P(records[i])})

Summarize(records) ==
  [total  |-> Len(records),
   boxed  |-> \A i \in DOMAIN records : records[i].boxed,
   base   |-> Count(records, LAMBDA r : r.base),
   first  |-> Count(records, LAMBDA r : r.passedAt = 1),
   solved |-> Count(records, LAMBDA r : r.passedAt # 0)]

(* Progress is reported to the table only by jobs of the server.           *)
Record(j) ==
  LET records == Append(results[j], draft[j])
      last    == Len(records) = size[j]
  IN  /\ IF ~draft[j].boxed /\ j \notin Unsafe
         THEN Go(j, "record", "raised") /\ UNCHANGED <<results, summary, table>>
         ELSE /\ Go(j, "record", IF ~last THEN "baseline"
                                 ELSE IF j \notin Cli THEN "insert"
                                 ELSE IF Summarize(records).boxed THEN "save" ELSE "over")
              /\ results' = [results EXCEPT ![j] = records]
              /\ summary' = [summary EXCEPT ![j] = IF last THEN Summarize(records) ELSE @]
              /\ table' = [table EXCEPT ![j].done = IF j \in Cli THEN @ ELSE Len(records)]
      /\ UNCHANGED <<size, draft, tally, published, crashes>>

-----------------------------------------------------------------------------
(* Publishing: the row, the file (opened, then written), the status.  Each *)
(* of the first three may raise.                                           *)

InsertRow(j) ==
  /\ \/ Go(j, "insert", "save") /\ rows' = Append(rows, j)
     \/ Go(j, "insert", "raised") /\ UNCHANGED rows
  /\ UNCHANGED <<size, work, table, file, crashes>>

OpenFile(j) ==
  /\ \/ Go(j, "save", "write") /\ file' = [file EXCEPT ![j] = "partial"]
     \/ Go(j, "save", "raised") /\ UNCHANGED file
  /\ UNCHANGED <<size, work, table, rows, crashes>>

WriteFile(j) ==
  /\ \/ Go(j, "write", IF j \in Cli THEN "over" ELSE "mark") /\ file' = [file EXCEPT ![j] = "whole"]
     \/ Go(j, "write", "raised") /\ UNCHANGED file
  /\ UNCHANGED <<size, work, table, rows, crashes>>

MarkDone(j) ==
  /\ Go(j, "mark", "over")
  /\ table' = [table EXCEPT ![j].status = "done"]
  /\ UNCHANGED <<size, work, published, crashes>>

GiveUp(j) == UNCHANGED table    \* slip: the thread dies with its exception

(* except Exception: the entry says so.                                    *)
MarkEntry(j) ==
  IF j \in Cli THEN UNCHANGED table ELSE table' = [table EXCEPT ![j].status = "failed"]

MarkFailed(j) ==
  /\ Go(j, "raised", "over")
  /\ MarkEntry(j)
  /\ UNCHANGED <<size, work, published, crashes>>

(* A process dies: the server with all its jobs and the table, or one of   *)
(* the command line.                                                       *)
Crash ==
  /\ crashes < MaxCrashes /\ crashes' = crashes + 1
  /\ \E dying \in {Jobs \ Cli} \cup {{j} : j \in Cli} :
       /\ at' = [j \in Jobs |-> IF j \in dying /\ at[j] # "idle" THEN "over" ELSE at[j]]
       /\ table' = [j \in Jobs |-> IF j \in dying THEN Unknown ELSE table[j]]
  /\ UNCHANGED <<size, work, published>>

Proceed(j) ==
  \/ Register(j) \/ Baseline(j) \/ Attempt(j) \/ Record(j)
  \/ InsertRow(j) \/ OpenFile(j) \/ WriteFile(j) \/ MarkDone(j) \/ MarkFailed(j)

EvaluationNext == (\E j \in Jobs : Start(j) \/ Proceed(j)) \/ Crash

(* The thread of a job is scheduled; nobody has to start one.              *)
EvaluationSpec ==
  /\ EvaluationInit /\ [][EvaluationNext]_evaluationVars
  /\ \A j \in Jobs : WF_evaluationVars(Proceed(j))

-----------------------------------------------------------------------------
(* What is listed (_all_evals): the newest rows, and every file that can   *)
(* be parsed and is not among them.                                        *)

ListedRows == {rows[i] : i \in (IF Len(rows) > MaxRows THEN Len(rows) - MaxRows + 1 ELSE 1)..Len(rows)}

AllFiles == {j \in Jobs : file[j] = "whole"}    \* slip: nothing is held back

ListedFiles == {j \in Jobs : file[j] = "whole"} \ ListedRows

-----------------------------------------------------------------------------
(* Properties.                                                             *)

(* Whatever was started how, a summary that is listed - and so may get     *)
(* into the README - counts what happened, and none of its programs was    *)
(* executed outside the sandbox.  ("Only results that ran in the Docker    *)
(* sandbox", scripts/generate_readme_table.py 4.)                          *)
ListedIsEarned ==
  \A j \in ListedRows \cup ListedFiles :
    /\ ~tally[j].outside
    /\ summary[j] = [total |-> size[j], boxed |-> TRUE, base |-> tally[j].base,
                     first |-> tally[j].first, solved |-> tally[j].solved]

(* No evaluation is listed twice, although row and file hold the same, and *)
(* one that is reported done is listed for good, also when newer rows have *)
(* displaced its own.                                                      *)
DoneIsListedOnce ==
  /\ ListedRows \cap ListedFiles = {}
  /\ \A j \in Jobs : table[j].status = "done" => /\ table[j].done = size[j]
                                                 /\ j \in ListedRows \cup ListedFiles

(* A job that is reported running is reported done or failed one day, or   *)
(* forgotten by a restart.                                                 *)
JobsEnd ==
  \A j \in Jobs : table[j].status = "running" ~> table[j].status # "running"

=============================================================================
