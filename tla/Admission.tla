------------------------------ MODULE Admission -----------------------------
(***************************************************************************)
(* What a request that spends tokens passes before its runs are made: its  *)
(* key and with it a workspace, the sliding window of the rate limiter     *)
(* (both app/security.py) and the daily token budget (app/main.py 180-188, *)
(* app/db.py 500-511).  All three run on the thread of the request: the    *)
(* clock is read before the lock of the limiter is taken, and the budget   *)
(* looks at tokens that runs record only when they end.                    *)
(*                                                                         *)
(* Time has two clocks, as in the code: the monotonic one, in ticks of a   *)
(* fraction of a second, and the calendar day.  A limit or a budget of 0   *)
(* turns the check off; then nobody reads its clock, which stands still.   *)
(***************************************************************************)
EXTENDS Integers, Sequences, FiniteSets

CONSTANTS
  Requests,        \* requests, each made once (a bound)
  Setups,          \* configurations: [entries, dev, limit, budget], where entries are
                   \* those of API_KEY and API_KEYS, dev is APP_ENV = development,
                   \* limit RATE_LIMIT_PER_MINUTE and budget DAILY_TOKEN_BUDGET
  Keys, NoKey,     \* what a request may send as its key
  TailOf,          \* per key: its last twelve characters
  Batch,           \* how many models a comparison names; other requests make one run
  Window, Second,  \* 60 s and 1 s, in ticks
  Stall,           \* assumed: the lock is taken within so many ticks of the reading
  MaxTokens,       \* what one run may spend
  MaxClock, MaxDay, MaxRestarts    \* bounds

ASSUME AdmissionAssumption ==
  /\ IsFiniteSet(Requests)
  /\ Window \in Nat /\ Second \in Nat \ {0} /\ Stall \in 0..Window
  /\ {MaxTokens, Batch, MaxDay} \subseteq Nat \ {0}
  /\ \A s \in Setups : /\ s.entries \in Seq([name : STRING, key : Keys])
                       /\ s.limit \in Nat /\ s.budget \in Nat

VARIABLES
  setup,          \* the configuration, fixed when the server starts
  clock, day,     \* time.monotonic(), and the date
  at,             \* per request: what it does next, or its answer
  key,            \* per request: the key it sends
  workspace,      \* per request: request.state.workspace
  now,            \* per request: its reading of the clock
  left,           \* per request: the runs it has still to make
  hits,           \* the limiter: per client, the readings it remembers
  admitted,       \* history: per client, the readings admitted by this process
  promise,        \* history: per refused request, when it was told to come back
  flight,         \* per workspace and day: runs created and not ended
  recorded,       \* per workspace and day: the tokens in the runs table
  peak,           \* history: per workspace, the most runs past the check at once
  restarts

time    == <<clock, day>>
request == <<at, key, workspace, now, left>>
limiter == <<hits, admitted, promise>>
spend   == <<flight, recorded, peak>>
admissionVars == <<setup, time, request, limiter, spend, restarts>>

Clients    == {TailOf[k] : k \in Keys} \cup {"ip"}
Workspaces == {"default"} \cup UNION {{s.entries[i].name : i \in DOMAIN s.entries} : s \in Setups}
Days       == 1..MaxDay

AdmissionInit ==
  /\ setup \in Setups
  /\ clock = 0 /\ day = 1 /\ restarts = 0
  /\ at = [q \in Requests |-> "idle"] /\ key = [q \in Requests |-> NoKey]
  /\ workspace = [q \in Requests |-> "default"]
  /\ now = [q \in Requests |-> 0] /\ left = [q \in Requests |-> 0]
  /\ hits = [k \in Clients |-> <<>>] /\ admitted = [k \in Clients |-> <<>>]
  /\ promise = [q \in Requests |-> [due |-> 0, seen |-> 0]]
  /\ flight = [w \in Workspaces |-> [d \in Days |-> 0]]
  /\ recorded = [w \in Workspaces |-> [d \in Days |-> 0]]
  /\ peak = [w \in Workspaces |-> 0]

Go(q, from, to) == at[q] = from /\ at' = [at EXCEPT ![q] = to]

-----------------------------------------------------------------------------
(* verify_api_access.                                                      *)

(* workspace_keys: of several entries with one key the last one counts.    *)
WorkspaceKeys ==
  LET entries == setup.entries
      last(k) == CHOOSE i \in DOMAIN entries :
                   entries[i].key = k /\ \A j \in DOMAIN entries : entries[j].key = k => j <= i
  IN  [k \in {entries[i].key : i \in DOMAIN entries} |-> entries[last(k)].name]

AuthMode ==
  IF setup.entries # <<>> THEN "key" ELSE IF setup.dev THEN "open" ELSE "locked"

(* A limiter that is off returns before it reads the clock.                *)
Verify(q) ==
  LET admit == IF setup.limit > 0 THEN "clock" ELSE "budget" IN
  /\ \E k \in Keys \cup {NoKey} :
       /\ key' = [key EXCEPT ![q] = k]
       /\ IF AuthMode = "key" /\ k \in DOMAIN WorkspaceKeys
          THEN Go(q, "idle", admit) /\ workspace' = [workspace EXCEPT ![q] = WorkspaceKeys[k]]
          ELSE Go(q, "idle", IF AuthMode = "open" THEN admit ELSE "denied")
               /\ UNCHANGED workspace
  /\ UNCHANGED <<setup, time, now, left, limiter, spend, restarts>>

-----------------------------------------------------------------------------
(* RateLimiter.check.                                                      *)

ClientOf(q) == IF key[q] = NoKey THEN "ip" ELSE TailOf[key[q]]

(* now = time.monotonic(), before the lock.                                *)
ReadClock(q) ==
  /\ Go(q, "clock", "lock")
  /\ now' = [now EXCEPT ![q] = clock]
  /\ UNCHANGED <<setup, time, key, workspace, left, limiter, spend, restarts>>

(* while hits and now - hits[0] > 60: hits.popleft()                       *)
Purged(h, t) ==
  LET kept == {i \in DOMAIN h : t - h[i] <= Window}
  IN  IF kept = {} THEN <<>> ELSE SubSeq(h, CHOOSE i \in kept : \A j \in kept : i <= j, Len(h))

RoomForOneMore(h) == Len(h) <= setup.limit    \* slip: one too many

Room(h) == Len(h) < setup.limit

RetryAfterElapsed(h, t) ==              \* slip: the time that has passed already
  LET seconds == (t - h[1]) \div Second IN IF seconds < 1 THEN 1 ELSE seconds

(* max(1, int(60 - (now - hits[0])))                                       *)
RetryAfter(h, t) ==
  LET seconds == (Window - (t - h[1])) \div Second IN IF seconds < 1 THEN 1 ELSE seconds

(* With the lock held.                                                     *)
Check(q) ==
  LET k == ClientOf(q)
      h == Purged(hits[k], now[q])
  IN  /\ IF Room(h)
         THEN /\ Go(q, "lock", "budget")
              /\ hits' = [hits EXCEPT ![k] = Append(h, now[q])]
              /\ admitted' = [admitted EXCEPT ![k] = Append(@, now[q])]
              /\ UNCHANGED promise
         ELSE /\ Go(q, "lock", "limited")
              /\ hits' = [hits EXCEPT ![k] = h]
              /\ promise' = [promise EXCEPT ![q] =
                   [due  |-> now[q] + (RetryAfter(h, now[q]) + 1) * Second,
                    seen |-> Len(admitted[k])]]
              /\ UNCHANGED admitted
      /\ UNCHANGED <<setup, time, key, workspace, now, left, spend, restarts>>

-----------------------------------------------------------------------------
(* _check_budget, then one run after another is created.                   *)

(* The sum of n over S, counted out.                                       *)
Total(n, S) == Cardinality(UNION {{x} \X (1..n[x]) : x \in S})

Waiting(w)  == Total(left, {q \in Requests : workspace[q] = w})
Underway(w) == Waiting(w) + Total(flight[w], Days)

AffordsOneMore(w) == recorded[w][day] <= setup.budget    \* slip: > for >=

(* tokens_today: what the runs created today have recorded.                *)
Affords(w) == recorded[w][day] < setup.budget

(* Without a budget nobody counts what the runs spend: it is left out.     *)
CheckBudget(q) ==
  /\ IF setup.budget = 0
     THEN Go(q, "budget", "accepted") /\ UNCHANGED <<left, peak>>
     ELSE IF Affords(workspace[q])
     THEN /\ Go(q, "budget", "create")
          /\ \E n \in {1, Batch} :
               /\ left' = [left EXCEPT ![q] = n]
               /\ LET u == Underway(workspace[q]) + n
                  IN  peak' = [peak EXCEPT ![workspace[q]] = IF @ < u THEN u ELSE @]
     ELSE Go(q, "budget", "spent") /\ UNCHANGED <<left, peak>>
  /\ UNCHANGED <<setup, time, key, workspace, now, limiter, flight, recorded, restarts>>

(* insert_run dates the run.  (Its worker and its queue are RunService.)   *)
CreateRun(q) ==
  /\ Go(q, "create", IF left[q] = 1 THEN "accepted" ELSE "create")
  /\ left' = [left EXCEPT ![q] = @ - 1]
  /\ flight' = [flight EXCEPT ![workspace[q]][day] = @ + 1]
  /\ UNCHANGED <<setup, time, key, workspace, now, limiter, recorded, peak, restarts>>

(* The last update of a run records its tokens, on the day it was created; *)
(* a run that ends in an internal error before it records none.            *)
EndRun ==
  /\ \E w \in Workspaces, d \in Days :
       /\ flight[w][d] > 0
       /\ flight' = [flight EXCEPT ![w][d] = @ - 1]
       /\ \E t \in 0..MaxTokens : recorded' = [recorded EXCEPT ![w][d] = @ + t]
  /\ UNCHANGED <<setup, time, request, limiter, peak, restarts>>

-----------------------------------------------------------------------------
(* Time passes; only a bounded time between a reading and its lock.        *)

Tick ==
  /\ setup.limit > 0 /\ clock < MaxClock
  /\ \A q \in Requests : at[q] = "lock" => clock - now[q] < Stall
  /\ clock' = clock + 1
  /\ UNCHANGED <<setup, day, request, limiter, spend, restarts>>

Midnight ==
  /\ setup.budget > 0 /\ day < MaxDay /\ day' = day + 1
  /\ UNCHANGED <<setup, clock, request, limiter, spend, restarts>>

(* The server dies and starts again: requests, runs and the window are     *)
(* gone, the rows stay.                                                    *)
Restart ==
  /\ restarts < MaxRestarts /\ restarts' = restarts + 1
  /\ at' = [q \in Requests |-> IF at[q] \in {"clock", "lock", "budget", "create"}
                               THEN "cut" ELSE at[q]]
  /\ left' = [q \in Requests |-> 0]
  /\ hits' = [k \in Clients |-> <<>>] /\ admitted' = [k \in Clients |-> <<>>]
  /\ promise' = [q \in Requests |-> [due |-> 0, seen |-> 0]]
  /\ flight' = [w \in Workspaces |-> [d \in Days |-> 0]]
  /\ UNCHANGED <<setup, time, key, workspace, now, recorded, peak>>

AdmissionNext ==
  \/ \E q \in Requests : \/ Verify(q) \/ ReadClock(q) \/ Check(q)
                         \/ CheckBudget(q) \/ CreateRun(q)
  \/ EndRun \/ Tick \/ Midnight \/ Restart

AdmissionSpec == AdmissionInit /\ [][AdmissionNext]_admissionVars

-----------------------------------------------------------------------------
(* Properties.                                                             *)

(* However requests overtake each other between the clock and the lock, a  *)
(* client is admitted at most `limit` times in a window shorter by no more   *)
(* than the time they may stall.  ("Sliding one-minute window per client", *)
(* security.py 107.)                                                       *)
WindowBounded ==
  \A k \in Clients : \A i \in DOMAIN admitted[k] :
    Cardinality({j \in DOMAIN admitted[k] :
                   admitted[k][j] - admitted[k][i] \in 0..(Window - Stall)}) <= setup.limit

(* A client that was refused and comes back one second after the time it   *)
(* was told finds room, if nobody was admitted as that client meanwhile.   *)
(* (One second: Retry-After is cut to whole seconds, and an entry leaves   *)
(* the window only after more than 60 s.)                                  *)
RetryAfterHolds ==
  \A q \in Requests :
    at[q] = "limited" /\ clock >= promise[q].due
      /\ Len(admitted[ClientOf(q)]) = promise[q].seen
    => Room(Purged(hits[ClientOf(q)], clock))

(* The budget of a day is overshot by no more than what the runs may spend *)
(* that were past the check together: a run counts only when it ends, and  *)
(* one checked before midnight may be dated after it.                      *)
OvershootBounded ==
  \A w \in Workspaces, d \in Days :
    recorded[w][d] > 0 => recorded[w][d] < setup.budget + MaxTokens * peak[w]

=============================================================================
