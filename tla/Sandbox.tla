------------------------------- MODULE Sandbox ------------------------------
(***************************************************************************)
(* run_code (app/sandbox.py 28-204): calls from several threads share a    *)
(* semaphore of execution slots and a cached probe of the Docker daemon.   *)
(* A container that outlives its client's time is killed, then removed,    *)
(* before the slot is given back; both commands may fail, and nobody looks.*)
(* A client that fails earlier - its connection lost, a process that       *)
(* cannot be started or read - is not followed by either of them, although *)
(* its container may live on: the daemon is behind a proxy (DOCKER_HOST,   *)
(* docker-compose.yml 55).                                                 *)
(*                                                                         *)
(* What runs inside is the subject of Harness.tla; here a program runs     *)
(* until it exits or its time is over.  Docker and the clock are the       *)
(* environment: the daemon is reached or not, a cached answer grows old.   *)
(***************************************************************************)
EXTENDS Naturals, FiniteSets

CONSTANTS
  Calls,         \* calls of run_code, each made once (a bound)
  NoCall,        \* nobody, for a lock that is free
  Slots,         \* MAX_CONCURRENT_SANDBOXES
  MaxOutages     \* bound: how often the daemon is lost

ASSUME SandboxAssumption ==
  /\ IsFiniteSet(Calls) /\ NoCall \notin Calls
  /\ Slots \in Nat \ {0} /\ MaxOutages \in Nat

VARIABLES
  at,         \* per call: what it does next
  outcome,    \* per call: what run_code returns
  free,       \* free slots
  lock,       \* the call that holds _docker_lock, or NoCall
  known,      \* _docker_state["ok"]
  fresh,      \* the last probe is younger than its time to live
  daemon,     \* the Docker daemon answers
  boxes,      \* the calls whose container is alive
  allowHost,  \* ALLOW_UNSAFE_HOST_SUBPROCESS
  outages,
  failures,   \* docker kill and docker rm that left a container alive
  broken      \* docker clients that broke off (run), or that could not be
              \* started or read (kill, rm), beside a container alive

probe       == <<lock, known, fresh>>
docker      == <<daemon, boxes, outages, failures, broken>>
sandboxVars == <<at, outcome, free, probe, docker, allowHost>>

Holding  == {"probe", "probing", "start", "running", "kill", "remove", "host"}
Outcomes == {"none", "ok", "error", "timeout", "refused", "failed", "raised"}

Holders == {c \in Calls : at[c] \in Holding}

SandboxTypeOK ==
  /\ at \in [Calls -> Holding \cup {"idle", "waiting", "returned"}]
  /\ outcome \in [Calls -> Outcomes]
  /\ free \in 0..Slots /\ free + Cardinality(Holders) = Slots
  /\ lock \in Calls \cup {NoCall} /\ {known, fresh, daemon, allowHost} \subseteq BOOLEAN
  /\ \A c \in Calls : lock = c <=> at[c] = "probing"
  /\ boxes \subseteq Calls
  /\ outages \in 0..MaxOutages /\ failures \in Nat /\ broken \in Nat

SandboxInit ==
  /\ at = [c \in Calls |-> "idle"] /\ outcome = [c \in Calls |-> "none"]
  /\ free = Slots
  /\ lock = NoCall /\ known = FALSE /\ fresh = FALSE
  /\ daemon \in BOOLEAN /\ boxes = {} /\ allowHost \in BOOLEAN
  /\ outages = 0 /\ failures = 0 /\ broken = 0

Move(c, from, to) == at[c] = from /\ at' = [at EXCEPT ![c] = to]

-----------------------------------------------------------------------------
(* Slots.                                                                  *)

Call(c) ==
  /\ Move(c, "idle", "waiting")
  /\ UNCHANGED <<outcome, free, probe, docker, allowHost>>

Enter(c) ==
  /\ free > 0
  /\ Move(c, "waiting", "probe")
  /\ free' = free - 1
  /\ UNCHANGED <<outcome, probe, docker, allowHost>>

ReturnOnlyGood(c, from, what) ==    \* slip: the slot is kept when time is over
  /\ Move(c, from, "returned")
  /\ outcome' = [outcome EXCEPT ![c] = what]
  /\ free' = IF what = "timeout" THEN free ELSE free + 1

(* Every way out of the `with _slots` block gives the slot back.           *)
Return(c, from, what) ==
  /\ Move(c, from, "returned")
  /\ outcome' = [outcome EXCEPT ![c] = what]
  /\ free' = free + 1

-----------------------------------------------------------------------------
(* _is_docker_available: one prober at a time, the others wait for its     *)
(* answer; an answer is kept for a while.                                  *)

Choose(c, from, ok) ==
  IF ok THEN Move(c, from, "start") /\ UNCHANGED <<outcome, free>>
  ELSE IF allowHost THEN Move(c, from, "host") /\ UNCHANGED <<outcome, free>>
  ELSE Return(c, from, "refused")

UseCached(c) ==
  /\ at[c] = "probe" /\ lock = NoCall /\ fresh
  /\ Choose(c, "probe", known)
  /\ UNCHANGED <<probe, docker, allowHost>>

StartProbe(c) ==
  /\ lock = NoCall /\ ~fresh
  /\ Move(c, "probe", "probing")
  /\ lock' = c
  /\ UNCHANGED <<outcome, free, known, fresh, docker, allowHost>>

(* A daemon that is there may still be too slow to answer.                 *)
EndProbe(c) ==
  /\ at[c] = "probing"
  /\ \E ok \in {FALSE, daemon} :
       /\ known' = ok
       /\ Choose(c, "probing", ok)
  /\ fresh' = TRUE /\ lock' = NoCall
  /\ UNCHANGED <<docker, allowHost>>

(* An endpoint asks without a slot (app/main.py 200, 222, 246).            *)
ProbeAside ==
  /\ lock = NoCall /\ ~fresh
  /\ known' \in {FALSE, daemon} /\ fresh' = TRUE
  /\ UNCHANGED <<at, outcome, free, lock, docker, allowHost>>

(* The answer is 30 seconds old, or 3 when it was no.                      *)
Expire ==
  /\ fresh /\ fresh' = FALSE
  /\ UNCHANGED <<at, outcome, free, lock, known, docker, allowHost>>

-----------------------------------------------------------------------------
(* _run_docker and _run_subprocess_fallback.                               *)

(* docker run; its client exits with 125 without a daemon, or an image.    *)
Start(c) ==
  /\ \/ /\ daemon
        /\ Move(c, "start", "running")
        /\ boxes' = boxes \cup {c}
        /\ UNCHANGED <<outcome, free>>
     \/ Return(c, "start", "failed") /\ UNCHANGED boxes
  /\ UNCHANGED <<probe, daemon, outages, failures, broken, allowHost>>

(* --rm: the container of a program that ended is gone.                    *)
Exit(c, what) ==
  /\ \/ daemon /\ c \in boxes /\ Return(c, "running", what)
     \/ Return(c, "host", what)
  /\ boxes' = boxes \ {c}
  /\ UNCHANGED <<probe, daemon, outages, failures, broken, allowHost>>

(* A client that is no more says nothing of its container.                 *)
BreakOff(c) ==
  /\ broken' = IF c \in boxes THEN broken + 1 ELSE broken
  /\ UNCHANGED <<boxes, failures>>

(* The client of docker run fails (125) or subprocess.run raises: there is *)
(* a result, and neither docker kill nor docker rm.                        *)
LoseClient(c) ==
  /\ Return(c, "running", "failed")
  /\ BreakOff(c)
  /\ UNCHANGED <<probe, daemon, outages, allowHost>>

TimeOutAtOnce(c) ==     \* slip: the slot is given back before the container ends
  /\ Return(c, "running", "timeout")
  /\ UNCHANGED <<probe, docker, allowHost>>

(* subprocess.run kills the docker client, which leaves the container.     *)
TimeOut(c) ==
  /\ Move(c, "running", "kill")
  /\ UNCHANGED <<outcome, free, probe, docker, allowHost>>

(* On the host the child itself is killed.                                 *)
TimeOutOnHost(c) ==
  /\ Return(c, "host", "timeout")
  /\ UNCHANGED <<probe, docker, allowHost>>

(* A docker command that gets rid of the container, or fails to; without   *)
(* a daemon it fails.                                                      *)
Discard(c) ==
  /\ \/ /\ daemon \/ c \notin boxes
        /\ boxes' = boxes \ {c} /\ UNCHANGED failures
     \/ /\ c \in boxes /\ failures' = failures + 1
        /\ UNCHANGED boxes
  /\ UNCHANGED broken

(* What raises inside the handler of TimeoutExpired is caught by nobody:   *)
(* run_code raises, and docker rm is not tried after docker kill.          *)
Raise(c, from) == Return(c, from, "raised") /\ BreakOff(c)

Kill(c) ==
  /\ \/ /\ Move(c, "kill", "remove") /\ UNCHANGED <<outcome, free>>
        /\ Discard(c)
     \/ Raise(c, "kill")
  /\ UNCHANGED <<probe, daemon, outages, allowHost>>

Remove(c) ==
  /\ \/ Return(c, "remove", "timeout") /\ Discard(c)
     \/ Raise(c, "remove")
  /\ UNCHANGED <<probe, daemon, outages, allowHost>>

-----------------------------------------------------------------------------
(* The daemon, reached through its proxy.                                  *)

(* The containers go with the daemon, but stay when it is the proxy, or    *)
(* the network, that is gone.                                              *)
DaemonStops ==
  /\ daemon /\ outages < MaxOutages
  /\ daemon' = FALSE /\ boxes' \in {boxes, {}} /\ outages' = outages + 1
  /\ UNCHANGED <<at, outcome, free, probe, failures, broken, allowHost>>

DaemonStarts ==
  /\ ~daemon /\ daemon' = TRUE
  /\ UNCHANGED <<at, outcome, free, probe, boxes, outages, failures, broken, allowHost>>

(* A program ends and no client hears of it.                               *)
EndUnheard(c) ==
  /\ c \in boxes /\ (at[c] # "running" \/ ~daemon)
  /\ boxes' = boxes \ {c}
  /\ UNCHANGED <<at, outcome, free, probe, daemon, outages, failures, broken, allowHost>>

(* What a thread does by itself, the program's own exit apart.             *)
Thread(c) ==
  \/ Enter(c) \/ UseCached(c) \/ StartProbe(c) \/ EndProbe(c) \/ Start(c)
  \/ LoseClient(c) \/ TimeOut(c) \/ TimeOutOnHost(c) \/ Kill(c) \/ Remove(c)

Environment ==
  \/ ProbeAside \/ Expire \/ DaemonStops \/ DaemonStarts
  \/ \E c \in Calls : EndUnheard(c)

-----------------------------------------------------------------------------
(* Properties.                                                             *)

(* Containers are bounded by the slots and by what went wrong: one that is *)
(* alive without a call that holds a slot has cost a docker kill and a     *)
(* docker rm that failed (line 152: "The client is gone but the container  *)
(* may not be; kill it from the host side"), or a single client that broke *)
(* off.  MAX_CONCURRENT_SANDBOXES alone does not bound them: nothing ends  *)
(* such a container but its own program.                                   *)
ContainersBounded ==
  /\ 2 * Cardinality(boxes \ Holders) <= failures + 2 * broken
  /\ Cardinality(boxes) <= Slots + failures \div 2 + broken

(* A call that asks for a slot returns, whatever the program in its        *)
(* container does and whether or not the daemon answers.  (A docker kill   *)
(* that never ends would keep it: line 153 sets no timeout.  Here it ends, *)
(* with or without success.)                                               *)
EveryCallReturns == \A c \in Calls : at[c] = "waiting" ~> at[c] = "returned"

=============================================================================
