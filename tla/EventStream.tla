----------------------------- MODULE EventStream ----------------------------
(***************************************************************************)
(* Following a run: the server's event stream (run_events, app/main.py     *)
(* 497-531), which polls the two tables of EventLog, and the browser's     *)
(* useRunStream hook, which reconnects with the id of the last event it    *)
(* took.  Between them is one HTTP response: `wire` holds what was yielded *)
(* and not yet read; a lost connection loses it.                           *)
(*                                                                         *)
(* The event_id of the i-th event of the run is i: the code only compares  *)
(* ids of one run, and those grow.                                         *)
(***************************************************************************)
EXTENDS EventLog

CONSTANTS
  MaxEvents,      \* bound: how many events come before run_finished
  MaxRetries,     \* MAX_RETRIES of useRunStream.ts
  MaxDrops,       \* bound: how often a connection is lost
  MaxDeaths       \* bound: how often the server process dies

ASSUME StreamAssumption ==
  MaxEvents \in Nat /\ MaxRetries \in Nat /\ MaxDrops \in Nat /\ MaxDeaths \in Nat

VARIABLES
  phase,      \* stream(): "off", "read", "send", "check" or "sleep"
  cursor,     \* `last` of stream()
  batch,      \* ids read by get_events and not yet yielded
  wire,       \* messages yielded and not yet taken by the client
  mode,       \* the hook: "waiting" to connect, "reading", or "over"
  lastId,     \* lastId.current
  shown,      \* state.events
  finished, retries,
  drops, deaths       \* how often the two faults have happened

server == <<phase, cursor, batch>>
client == <<mode, lastId, shown, finished, retries>>
streamVars == <<logVars, server, wire, client, drops, deaths>>

StreamInit ==
  /\ LogInit
  /\ phase = "off" /\ cursor = 0 /\ batch = <<>> /\ wire = <<>>
  /\ mode = "waiting" /\ lastId = 0 /\ shown = <<>> /\ finished = FALSE
  /\ retries = 0 /\ drops = 0 /\ deaths = 0

-----------------------------------------------------------------------------
(* The run beside it.                                                      *)

Writer ==
  /\ \/ Announce /\ Len(log) < MaxEvents
     \/ Conclude
     \/ AnnounceFinish
     \/ Fall
  /\ UNCHANGED <<server, wire, client, drops, deaths>>

(* The connection and what was on it go with the process.                  *)
ServerDies ==
  /\ deaths < MaxDeaths
  /\ Die
  /\ deaths' = deaths + 1
  /\ phase' = "off" /\ wire' = <<>>
  /\ IF mode = "reading"
     THEN mode' = "waiting" /\ retries' = retries + 1
     ELSE UNCHANGED <<mode, retries>>
  /\ UNCHANGED <<cursor, batch, lastId, shown, finished, drops>>

ServerRecovers ==
  /\ Recover
  /\ UNCHANGED <<server, wire, client, drops, deaths>>

-----------------------------------------------------------------------------
(* stream(), main.py 506-525.                                              *)

ReadEvents ==
  /\ phase = "read"
  /\ batch' = [i \in 1..(Len(log) - cursor) |-> cursor + i]
  /\ phase' = IF cursor < Len(log) THEN "send" ELSE "check"
  /\ UNCHANGED <<logVars, cursor, wire, client, drops, deaths>>

Yield(id, fin) == wire' = Append(wire, [id |-> id, fin |-> fin])

(* One yield; the stream returns after run_finished.                       *)
SendEvent ==
  /\ phase = "send"
  /\ LET id == Head(batch) IN
       /\ cursor' = id
       /\ batch' = Tail(batch)
       /\ Yield(id, log[id])
       /\ phase' = IF log[id] THEN "off"
                   ELSE IF batch' = <<>> THEN "sleep" ELSE "send"
  /\ UNCHANGED <<logVars, client, drops, deaths>>

EndingId == cursor

(* Nothing new: an ending is made up for a run that is over, under the id  *)
(* of the last event sent.                                                 *)
CheckStatus ==
  /\ phase = "check"
  /\ IF status = "final"
     THEN Yield(EndingId, TRUE) /\ phase' = "off"
     ELSE UNCHANGED wire /\ phase' = "sleep"
  /\ UNCHANGED <<logVars, cursor, batch, client, drops, deaths>>

WakeUp ==
  /\ phase = "sleep" /\ phase' = "read"
  /\ UNCHANGED <<logVars, cursor, batch, wire, client, drops, deaths>>

-----------------------------------------------------------------------------
(* useRunStream.ts 40-70.                                                  *)

(* The loop condition holds, the delay is over, and the server answers.    *)
Connect ==
  /\ mode = "waiting" /\ ~finished /\ retries <= MaxRetries /\ alive
  /\ mode' = "reading"
  /\ phase' = "read" /\ cursor' = lastId /\ batch' = <<>> /\ wire' = <<>>
  /\ UNCHANGED <<logVars, lastId, shown, finished, retries, drops, deaths>>

(* The server is down, so fetch rejects.                                   *)
ConnectFails ==
  /\ mode = "waiting" /\ ~finished /\ retries <= MaxRetries /\ ~alive
  /\ retries' = retries + 1
  /\ UNCHANGED <<logVars, server, wire, mode, lastId, shown, finished, drops, deaths>>

IsNotOlder(message) == message.id >= lastId     \* slip: repeats are taken

IsNew(message) == message.id > lastId

EndsStale(message) == FALSE     \* slip: reads the state its effect captured

Ends(message) == message.fin

(* onEvent: an event that was already taken is dropped.                    *)
Receive ==
  /\ mode = "reading" /\ wire # <<>>
  /\ wire' = Tail(wire)
  /\ IF IsNew(Head(wire))
     THEN /\ lastId' = Head(wire).id
          /\ shown' = Append(shown, Head(wire))
          /\ finished' = (finished \/ Ends(Head(wire)))
          /\ retries' = 0
     ELSE UNCHANGED <<lastId, shown, finished, retries>>
  /\ UNCHANGED <<logVars, server, mode, drops, deaths>>

(* The response ended: streamRunEvents resolves, which is no retry.        *)
StreamEnds ==
  /\ mode = "reading" /\ wire = <<>> /\ phase = "off"
  /\ mode' = "waiting"
  /\ UNCHANGED <<logVars, server, wire, lastId, shown, finished, retries, drops, deaths>>

(* The connection is lost with whatever it carried.                        *)
Drop ==
  /\ mode = "reading" /\ drops < MaxDrops
  /\ drops' = drops + 1
  /\ mode' = "waiting" /\ retries' = retries + 1
  /\ wire' = <<>> /\ phase' = "off"
  /\ UNCHANGED <<logVars, cursor, batch, lastId, shown, finished, deaths>>

Stop ==
  /\ mode = "waiting" /\ (finished \/ retries > MaxRetries)
  /\ mode' = "over"
  /\ UNCHANGED <<logVars, server, wire, lastId, shown, finished, retries, drops, deaths>>

Server == ReadEvents \/ SendEvent \/ CheckStatus \/ WakeUp
Client == Connect \/ ConnectFails \/ Receive \/ StreamEnds \/ Stop

StreamNext ==
  Writer \/ ServerDies \/ ServerRecovers \/ Server \/ Client \/ Drop

StreamSpec == StreamInit /\ [][StreamNext]_streamVars

(* The worker runs to its end, docker-compose restarts the server, the     *)
(* event loop and the browser keep running.  Nothing makes a fault happen. *)
FairStreamSpec ==
  /\ StreamSpec
  /\ WF_streamVars(Writer) /\ WF_streamVars(ServerRecovers)
  /\ WF_streamVars(Server) /\ WF_streamVars(Client)

-----------------------------------------------------------------------------
(* Properties.                                                             *)

(* useRunStream.ts 17-18: "nothing is lost or duplicated".  What is shown  *)
(* is a prefix of the run's events, each as it was written, whatever was   *)
(* dropped, resent or appended between the two reads of a poll; and when   *)
(* the page says "finished", the status of the run is final and what is    *)
(* shown is every event there will ever be.                                *)
ShownIsPrefix ==
  /\ Len(shown) <= Len(log)
  /\ \A i \in DOMAIN shown : shown[i] = [id |-> i, fin |-> log[i]]
  /\ finished => status = "final" /\ Len(shown) = Len(log)

(* A run whose run_finished was recorded ends on the page too, unless the  *)
(* client gives up after MAX_RETRIES failures in a row.                    *)
RecordedEndIsShown ==
  (log # <<>> /\ log[Len(log)]) ~> (finished \/ retries > MaxRetries)

=============================================================================
