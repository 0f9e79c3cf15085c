----------------------------- MODULE RunService -----------------------------
(***************************************************************************)
(* Where runs come from and who executes them: the three endpoints of      *)
(* app/main.py that start runs (356-410), the thread pool of app/jobs.py   *)
(* and what a restart of the server does to both.                          *)
(*                                                                         *)
(* A request makes a row in two transactions and hands it to an executor:  *)
(* the pool (POST /runs, and POST /compare once per model) or its own      *)
(* thread (POST /generate-and-repair).  What execute_run does in between   *)
(* is Pipeline.tla; here a run begins, and concludes or is abandoned.      *)
(* Neither the pool's queue nor a thread survives the process: the table   *)
(* does.                                                                   *)
(***************************************************************************)
EXTENDS Naturals, Sequences, FiniteSets

CONSTANTS
  Runs,        \* run ids, as many as are ever made (a bound)
  Requests,    \* requests that start runs, each made once
  RunsOf,      \* per request: the sequence of runs it makes
  Inline,      \* the requests that execute their run themselves
  Workers,     \* MAX_CONCURRENT_RUNS
  MaxErrors,   \* bound: how often a transaction raises
  MaxDeaths    \* bound: how often the process dies

ASSUME ServiceAssumption ==
  /\ IsFiniteSet(Runs)
  /\ RunsOf \in [Requests -> Seq(Runs)]
  /\ \A q \in Requests : RunsOf[q] # <<>>
  /\ \A q \in Inline : Len(RunsOf[q]) = 1
  /\ \A p, q \in Requests : \A i \in DOMAIN RunsOf[p], j \in DOMAIN RunsOf[q] :
       RunsOf[p][i] = RunsOf[q][j] => p = q /\ i = j     \* uuid4: ids are fresh
  /\ Inline \subseteq Requests
  /\ Workers \in Nat \ {0} /\ MaxErrors \in Nat /\ MaxDeaths \in Nat

VARIABLES
  status,    \* runs.final_status; "over" stands for the terminal ones
  claimed,   \* the rows that carry their workspace (and group) already
  step,      \* per request: what it does next
  todo,      \* per request: its runs that are not handed over yet
  queue,     \* the pool's queue
  busy,      \* the runs on the pool's threads
  up,        \* the server process is alive
  errors, deaths

requests == <<step, todo>>
pool     == <<queue, busy>>
vars     == <<status, claimed, requests, pool, up, errors, deaths>>

Active == {"queued", "running"}
Open   == {"insert", "claim", "hand", "inline"}
Closed == {"idle", "answered", "failed", "cut"}

TypeOK ==
  /\ status \in [Runs -> {"absent", "over"} \cup Active]
  /\ claimed \subseteq Runs
  /\ step \in [Requests -> Open \cup Closed]
  /\ todo \in [Requests -> Seq(Runs)]
  /\ \A q \in Requests : step[q] \in Open => todo[q] # <<>>
  /\ queue \in Seq(Runs) /\ busy \subseteq Runs /\ Cardinality(busy) <= Workers
  /\ up \in BOOLEAN
  /\ errors \in 0..MaxErrors /\ deaths \in 0..MaxDeaths

Init ==
  /\ status = [r \in Runs |-> "absent"] /\ claimed = {}
  /\ step = [q \in Requests |-> "idle"] /\ todo = RunsOf
  /\ queue = <<>> /\ busy = {}
  /\ up = TRUE /\ errors = 0 /\ deaths = 0

NoFault == UNCHANGED <<up, errors, deaths>>

(* n transactions raise one after the other.                               *)
Error(n) ==
  /\ errors + n <= MaxErrors
  /\ errors' = errors + n
  /\ UNCHANGED <<up, deaths>>

-----------------------------------------------------------------------------
(* A request: _new_run and what the endpoint does with the row.            *)

(* A request refused before it makes a row (budget, rate limit) does not   *)
(* arrive.                                                                 *)
Arrive(q) ==
  /\ up /\ step[q] = "idle"
  /\ step' = [step EXCEPT ![q] = "insert"]
  /\ UNCHANGED <<status, claimed, todo, pool>> /\ NoFault

InsertRow(q) ==
  /\ step[q] = "insert"
  /\ step' = [step EXCEPT ![q] = "claim"]
  /\ status' = [status EXCEPT ![Head(todo[q])] = "queued"]
  /\ UNCHANGED <<claimed, todo, pool>> /\ NoFault

ClaimRow(q) ==
  /\ step[q] = "claim"
  /\ step' = [step EXCEPT ![q] = IF q \in Inline THEN "inline" ELSE "hand"]
  /\ claimed' = claimed \cup {Head(todo[q])}
  /\ UNCHANGED <<status, todo, pool>> /\ NoFault

(* submit_run; a comparison goes on with its next model.                   *)
HandOver(q) ==
  /\ step[q] = "hand"
  /\ queue' = Append(queue, Head(todo[q]))
  /\ todo' = [todo EXCEPT ![q] = Tail(@)]
  /\ step' = [step EXCEPT ![q] = IF Tail(todo[q]) = <<>> THEN "answered" ELSE "insert"]
  /\ UNCHANGED <<status, claimed, busy>> /\ NoFault

(* A transaction raises: the caller gets a 500, and no code looks again at *)
(* the row it may have left, nor stops the runs of the models before.      *)
RequestFails(q) ==
  /\ step[q] \in {"insert", "claim"}
  /\ step' = [step EXCEPT ![q] = "failed"]
  /\ Error(1)
  /\ UNCHANGED <<status, claimed, todo, pool>>

-----------------------------------------------------------------------------
(* The executors.                                                          *)

TakeNextPeeking ==      \* slip: the run stays in the queue
  /\ queue # <<>> /\ Cardinality(busy) < Workers
  /\ busy' = busy \cup {Head(queue)}
  /\ UNCHANGED <<status, claimed, requests, queue>> /\ NoFault

TakeNextAnyway ==       \* slip: a thread for every run
  /\ queue # <<>>
  /\ busy' = busy \cup {Head(queue)}
  /\ queue' = Tail(queue)
  /\ UNCHANGED <<status, claimed, requests>> /\ NoFault

(* A free thread of the pool takes the oldest run.                         *)
TakeNext ==
  /\ queue # <<>> /\ Cardinality(busy) < Workers
  /\ busy' = busy \cup {Head(queue)}
  /\ queue' = Tail(queue)
  /\ UNCHANGED <<status, claimed, requests>> /\ NoFault

Executing(r) == r \in busy \/ \E q \in Requests : step[q] = "inline" /\ r = Head(todo[q])

Answered(r) == [q \in Requests |->
  IF step[q] = "inline" /\ Head(todo[q]) = r THEN "answered" ELSE step[q]]

LeaveThreadStuck(r) ==  \* slip: the thread takes no other run
  /\ busy' = busy
  /\ step' = Answered(r)

(* execute_run returned or raised: its thread is free again.               *)
Leave(r) ==
  /\ busy' = busy \ {r}
  /\ step' = Answered(r)

(* The first update of _execute, which does not look at the status.        *)
Begin(r) ==
  /\ Executing(r) /\ status[r] # "running"
  /\ status' = [status EXCEPT ![r] = "running"]
  /\ UNCHANGED <<claimed, requests, pool>> /\ NoFault

(* The last update of execute_run: also when the first one raised, in      *)
(* which case the row goes from "queued" to "failed".                      *)
Conclude(r) ==
  /\ Executing(r)
  /\ \/ status[r] = "running" /\ NoFault
     \/ status[r] = "queued" /\ Error(1)
  /\ status' = [status EXCEPT ![r] = "over"]
  /\ Leave(r)
  /\ UNCHANGED <<claimed, todo, queue>>

(* The last update raises: _log_crash logs it (or the caller gets a 500).  *)
Abandon(r) ==
  /\ Executing(r)
  /\ \/ status[r] = "running" /\ Error(1)
     \/ status[r] = "queued" /\ Error(2)
  /\ Leave(r)
  /\ UNCHANGED <<status, claimed, todo, queue>>

-----------------------------------------------------------------------------
(* The process.                                                            *)

DieKeepingQueue ==      \* slip: the queue outlives the process
  /\ up /\ deaths < MaxDeaths
  /\ up' = FALSE /\ deaths' = deaths + 1
  /\ busy' = {}
  /\ step' = [q \in Requests |-> IF step[q] \in Open THEN "cut" ELSE step[q]]
  /\ UNCHANGED <<status, claimed, todo, queue, errors>>

Die ==
  /\ up /\ deaths < MaxDeaths
  /\ up' = FALSE /\ deaths' = deaths + 1
  /\ queue' = <<>> /\ busy' = {}
  /\ step' = [q \in Requests |-> IF step[q] \in Open THEN "cut" ELSE step[q]]
  /\ UNCHANGED <<status, claimed, todo, errors>>

RecoverRunning ==       \* slip: what was queued stays queued
  [r \in Runs |-> IF status[r] = "running" THEN "over" ELSE status[r]]

(* recover_interrupted_runs: one statement over the whole table, before    *)
(* the first request is served.                                            *)
Recovered == [r \in Runs |-> IF status[r] \in Active THEN "over" ELSE status[r]]

Restart ==
  /\ ~up /\ up' = TRUE
  /\ status' = Recovered
  /\ UNCHANGED <<claimed, requests, pool, errors, deaths>>

-----------------------------------------------------------------------------

Request(q) == InsertRow(q) \/ ClaimRow(q) \/ HandOver(q) \/ RequestFails(q)

Execution(r) == Begin(r) \/ Conclude(r) \/ Abandon(r)

Next ==
  \/ \E q \in Requests : Arrive(q) \/ Request(q)
  \/ TakeNext
  \/ \E r \in Runs : Execution(r)
  \/ Die \/ Restart

Spec == Init /\ [][Next]_vars

(* Threads make progress (model calls and sandbox runs have timeouts) and  *)
(* docker-compose restarts the server; nobody has to send a request.       *)
FairSpec ==
  /\ Spec
  /\ \A q \in Requests : WF_vars(Request(q))
  /\ \A r \in Runs : WF_vars(Execution(r))
  /\ WF_vars(TakeNext) /\ WF_vars(Restart)

-----------------------------------------------------------------------------
(* Properties.                                                             *)

(* Somebody in this process is going to conclude the run.                  *)
Owned(r) ==
  \/ r \in busy
  \/ \E i \in DOMAIN queue : queue[i] = r
  \/ \E q \in Requests : step[q] \in Open \ {"insert"} /\ Head(todo[q]) = r

Orphans == {r \in Runs : status[r] \in Active /\ ~Owned(r)}

(* tests/test_critique_and_jobs.py 1: "restarts never leave zombie runs".  *)
(* While the server is up a row that says queued or running has somebody   *)
(* working towards its end; each exception to that took a database error   *)
(* of its own, and no crash adds one.                                      *)
OrphansCostErrors == up => Cardinality(Orphans) <= errors

(* A run that was over, by its own end or by a recovery after a crash,     *)
(* never starts again, although Begin overwrites any status: no executor   *)
(* holds a run that is over.                                               *)
OverIsOver == [][\A r \in Runs : status[r] = "over" => status'[r] = "over"]_vars

(* No run is executed twice at once or again later: it is with at most one *)
(* of the requests, the queue and the threads, and once there.             *)
HeldOnce ==
  /\ \A i, j \in DOMAIN queue : queue[i] = queue[j] => i = j
  /\ \A i \in DOMAIN queue : queue[i] \notin busy
  /\ \A q \in Requests, i \in DOMAIN queue :
       step[q] \in Open => queue[i] # Head(todo[q])
  /\ \A q \in Requests : step[q] \in Open => Head(todo[q]) \notin busy

(* Every queued run comes to its end, however many wait for a thread and   *)
(* whenever the server dies: a recovery closes what the crash cut off.     *)
(* Only a row that a database error orphaned may stay as it is, and the    *)
(* server is up then: a crash excuses nothing.                             *)
EveryRunSettles ==
  \A r \in Runs : status[r] = "queued" ~>
    \/ status[r] = "over"
    \/ up /\ r \in Orphans /\ Cardinality(Orphans) <= errors

=============================================================================
