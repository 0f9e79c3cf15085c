---------------------------- MODULE ClientProofs ----------------------------
(***************************************************************************)
(* What a client of the API may rely on: the page that follows a run, over *)
(* connections that break and a server that dies; and what is promised to  *)
(* whoever asks for runs, by the limiter and by the daily budget.          *)
(***************************************************************************)
EXTENDS EventStream, Admission, FiniteSetTheorems, SequenceTheorems, TLAPS

-----------------------------------------------------------------------------
(* The live view.                                                          *)

Messages == [id : Nat, fin : BOOLEAN]

StreamTyped ==
  /\ log \in Seq(BOOLEAN) /\ batch \in Seq(Nat)
  /\ wire \in Seq(Messages) /\ shown \in Seq(Messages)
  /\ cursor \in Nat /\ lastId \in Nat /\ finished \in BOOLEAN
  /\ phase \in {"off", "read", "send", "check", "sleep"}
  /\ mode \in {"waiting", "reading", "over"}

(* The end comes last in the log, and only of a run whose status is final. *)
LogInv ==
  /\ \A i \in DOMAIN log : log[i] => i = Len(log) /\ writer = "closed" /\ status = "final"
  /\ writer = "closing" => status = "final"

(* The page shows the events up to lastId, as they are in the log.         *)
ShownInv ==
  /\ lastId = Len(shown) /\ lastId <= Len(log)
  /\ \A i \in DOMAIN shown : shown[i] = [id |-> i, fin |-> log[i]]
  /\ finished => lastId > 0 /\ log[lastId]

(* What was read and not yet sent comes right after what was sent.         *)
BatchInv ==
  phase = "send" =>
    /\ batch # <<>> /\ cursor + Len(batch) <= Len(log)
    /\ \A i \in DOMAIN batch : batch[i] = cursor + i

(* On the wire are the events between lastId and cursor, in their order.   *)
(* The made-up ending may come after them; its id is no news.              *)
WireInv ==
  /\ phase # "off" => mode = "reading" /\ Len(wire) = cursor - lastId
  /\ mode = "reading" =>
       /\ lastId <= cursor /\ cursor <= Len(log)
       /\ \A i \in 1..(cursor - lastId) :
            i \in DOMAIN wire /\ wire[i] = [id |-> lastId + i, fin |-> log[lastId + i]]
       /\ \A i \in DOMAIN wire : i > cursor - lastId => wire[i].id <= cursor

StreamInv == StreamTyped /\ LogInv /\ ShownInv /\ BatchInv /\ WireInv

(* The log only grows at its end: what was read of it stays true.          *)
LEMMA LogGrows ==
  ASSUME StreamInv, NEW fin \in BOOLEAN, log' = Append(log, fin)
  PROVE  /\ log' \in Seq(BOOLEAN) /\ Len(log') = Len(log) + 1 /\ Len(log) \in Nat
         /\ \A i \in 1..Len(log) : log'[i] = log[i]
         /\ log'[Len(log) + 1] = fin
BY AppendProperties DEF StreamInv, StreamTyped

(* Nothing of the connection depends on more of the log than is known.     *)
LEMMA FollowerUnmoved ==
  ASSUME StreamInv, UNCHANGED <<server, wire, client>>,
         log' \in Seq(BOOLEAN), Len(log) <= Len(log'),
         \A i \in 1..Len(log) : log'[i] = log[i]
  PROVE  StreamTyped' /\ ShownInv' /\ BatchInv' /\ WireInv'
<1> USE DEF StreamInv, StreamTyped, server, client
<1>1. StreamTyped'
  OBVIOUS
<1>2. Len(log) \in Nat /\ Len(log') \in Nat /\ Len(shown) \in Nat /\ Len(batch) \in Nat
        /\ Len(wire) \in Nat
  BY LenProperties
<1>3. ShownInv'
  BY <1>2 DEF ShownInv
<1>4. BatchInv'
  BY <1>2 DEF BatchInv
<1>5. WireInv'
  <2>1. \A i \in 1..(cursor - lastId) : mode = "reading" => lastId + i \in 1..Len(log)
    BY <1>2 DEF WireInv
  <2> QED
    BY <1>2, <2>1 DEF WireInv
<1> QED
  BY <1>1, <1>3, <1>4, <1>5

(* A step of the run beside it.                                            *)
LEMMA LogStep ==
  ASSUME StreamInv, Writer \/ ServerRecovers
  PROVE  StreamInv'
<1> USE DEF logVars
<1>0. log \in Seq(BOOLEAN) /\ Len(log) \in Nat
  BY LenProperties DEF StreamInv, StreamTyped
<1>u. UNCHANGED <<server, wire, client>>
  BY DEF Writer, ServerRecovers
<1>1. CASE Announce \/ AnnounceFinish
  <2>1. PICK fin \in BOOLEAN : /\ log' = Append(log, fin)
                               /\ fin => writer = "closing" /\ writer' = "closed"
                               /\ ~fin => writer = "open" /\ UNCHANGED writer
                               /\ UNCHANGED status
    BY <1>1 DEF Announce, AnnounceFinish
  <2>2. /\ log' \in Seq(BOOLEAN) /\ Len(log') = Len(log) + 1
        /\ \A i \in 1..Len(log) : log'[i] = log[i]
        /\ log'[Len(log) + 1] = fin
    BY <2>1, LogGrows
  <2>3. LogInv'
    <3>1. \A i \in DOMAIN log : ~log[i]
      BY <2>1 DEF StreamInv, LogInv
    <3>2. \A i \in DOMAIN log' : log'[i] => i = Len(log') /\ fin
      BY <1>0, <2>2, <3>1
    <3> QED
      BY <2>1, <3>2 DEF StreamInv, LogInv
  <2> QED
    BY <1>0, <1>u, <2>2, <2>3, FollowerUnmoved DEF StreamInv
<1>2. CASE Conclude \/ Fall \/ Recover
  <2>1. UNCHANGED log
    BY <1>2 DEF Conclude, Fall, Recover
  <2>2. LogInv'
    BY <1>2 DEF Conclude, Fall, Recover, StreamInv, LogInv
  <2> QED
    BY <1>0, <1>u, <2>1, <2>2, FollowerUnmoved DEF StreamInv
<1> QED
  BY <1>1, <1>2 DEF Writer, ServerRecovers

(* What one query returns: the numbers after the cursor, in their order.   *)
LEMMA CountingUp ==
  ASSUME NEW n \in Nat, NEW c \in Nat
  PROVE  LET s == [i \in 1..n |-> c + i]
         IN  /\ s \in Seq(Nat) /\ Len(s) = n
             /\ \A i \in DOMAIN s : s[i] = c + i
<1> DEFINE s == [i \in 1..n |-> c + i]
<1>1. s \in Seq(Nat)
  BY SeqDef
<1>2. Len(s) \in Nat /\ DOMAIN s = 1..Len(s) /\ DOMAIN s = 1..n
  BY <1>1, LenProperties
<1> HIDE DEF s
<1>3. \A m \in Nat : 1..m = 1..n => m = n
  <2> SUFFICES ASSUME NEW m \in Nat, 1..m = 1..n PROVE m = n
    OBVIOUS
  <2>1. (m > 0 => m \in 1..n) /\ (n > 0 => n \in 1..m)
    OBVIOUS
  <2> QED
    BY <2>1
<1>4. Len(s) = n
  BY <1>2, <1>3
<1> QED
  BY <1>1, <1>4 DEF s

(* A step of the generator: it reads, sends one event, or looks at the     *)
(* status.  Only sending and the made-up ending put something on the wire. *)
LEMMA ReadStep ==
  ASSUME StreamInv, ReadEvents
  PROVE  StreamInv'
<1> USE DEF ReadEvents, StreamInv, StreamTyped, logVars, client
<1>1. Len(log) \in Nat /\ Len(wire) \in Nat /\ Len(shown) \in Nat
  BY LenProperties
<1>2. mode = "reading" /\ cursor <= Len(log)
  BY DEF WireInv
<1>3. Len(log) - cursor \in Nat
  BY <1>1, <1>2
<1>4. /\ batch' \in Seq(Nat) /\ Len(batch') = Len(log) - cursor
      /\ \A i \in DOMAIN batch' : batch'[i] = cursor + i
  BY <1>3, CountingUp
<1>5. StreamTyped'
  BY <1>4
<1>6. BatchInv'
  <2>1. phase' = "send" => cursor < Len(log)
    OBVIOUS
  <2>2. batch' = <<>> => Len(batch') = 0
    OBVIOUS
  <2> QED
    BY <1>1, <1>4, <2>1, <2>2 DEF BatchInv
<1> QED
  BY <1>2, <1>5, <1>6 DEF LogInv, ShownInv, WireInv

LEMMA SendStep ==
  ASSUME StreamInv, SendEvent
  PROVE  StreamInv'
<1> USE DEF StreamInv, StreamTyped, logVars, client
<1> DEFINE message == [id |-> cursor + 1, fin |-> log[cursor + 1]]
<1>1. /\ Len(log) \in Nat /\ Len(wire) \in Nat /\ Len(batch) \in Nat
      /\ batch # <<>> /\ mode = "reading" /\ Len(wire) = cursor - lastId
      /\ lastId <= cursor /\ phase = "send"
  BY LenProperties DEF SendEvent, BatchInv, WireInv
<1>2. Len(batch) > 0 /\ Head(batch) = cursor + 1 /\ cursor + 1 <= Len(log)
  <2>1. Len(batch) > 0 /\ Head(batch) = batch[1]
    BY <1>1, EmptySeq, HeadTailProperties
  <2> QED
    BY <1>1, <2>1 DEF BatchInv
<1>3. /\ cursor' = cursor + 1 /\ batch' = Tail(batch) /\ wire' = Append(wire, message)
      /\ phase' \in {"off", "send", "sleep"} /\ (phase' = "send" => batch' # <<>>)
      /\ UNCHANGED <<log, status, writer, mode, lastId, shown, finished>>
  BY <1>2 DEF SendEvent, Yield
<1>4. message \in Messages /\ message.id = cursor + 1 /\ message.fin = log[cursor + 1]
  BY <1>1, <1>2 DEF Messages
<1> HIDE DEF message
<1>5. /\ wire' \in Seq(Messages) /\ Len(wire') = Len(wire) + 1
      /\ \A i \in 1..Len(wire) : wire'[i] = wire[i]
      /\ wire'[Len(wire) + 1] = message
      /\ DOMAIN wire' = 1..(Len(wire) + 1)
  BY <1>1, <1>3, <1>4, AppendProperties
<1>6. /\ batch' \in Seq(Nat) /\ Len(batch') = Len(batch) - 1
      /\ \A i \in 1..Len(batch') : batch'[i] = batch[i + 1]
  BY <1>1, <1>2, <1>3, HeadTailProperties
<1>7. StreamTyped'
  BY <1>3, <1>5, <1>6
<1>8. BatchInv'
  <2>1. \A i \in DOMAIN batch' : batch'[i] = cursor' + i
    <3>1. DOMAIN batch' = 1..(Len(batch) - 1) /\ DOMAIN batch = 1..Len(batch)
      BY <1>6, LenProperties
    <3>2. \A i \in 1..(Len(batch) - 1) : i + 1 \in 1..Len(batch) /\ batch'[i] = batch[i + 1]
      BY <1>1, <1>6
    <3>3. \A i \in 1..Len(batch) : batch[i] = cursor + i
      BY <1>1, <3>1 DEF BatchInv
    <3> SUFFICES ASSUME NEW i \in 1..(Len(batch) - 1)
                 PROVE  batch'[i] = cursor' + i
      BY <3>1
    <3>4. batch'[i] = cursor + (i + 1)
      BY <3>2, <3>3
    <3>5. cursor + (i + 1) = cursor' + i
      BY <1>3
    <3> QED
      BY <3>4, <3>5
  <2>2. cursor' + Len(batch') <= Len(log')
    BY <1>1, <1>3, <1>6 DEF BatchInv
  <2> QED
    BY <1>3, <2>1, <2>2 DEF BatchInv
<1>9. WireInv'
  <2>1. ASSUME NEW i \in 1..(cursor' - lastId')
        PROVE  i \in DOMAIN wire' /\ wire'[i] = [id |-> lastId' + i, fin |-> log'[lastId' + i]]
    <3>1. i \in 1..(Len(wire) + 1) /\ lastId' + Len(wire) + 1 = cursor + 1
      BY <1>1, <1>3
    <3>2. CASE i = Len(wire) + 1
      BY <1>1, <1>3, <1>4, <1>5, <3>1, <3>2 DEF message
    <3>3. CASE i \in 1..Len(wire)
      BY <1>1, <1>3, <1>5, <3>1, <3>3 DEF WireInv
    <3> QED
      BY <1>1, <3>1, <3>2, <3>3
  <2>2. Len(wire') = cursor' - lastId' /\ lastId' <= cursor' /\ cursor' <= Len(log')
    BY <1>1, <1>2, <1>3, <1>5
  <2>3. \A i \in DOMAIN wire' : ~(i > cursor' - lastId')
    BY <1>1, <1>3, <1>5
  <2> QED
    BY <1>1, <1>3, <2>1, <2>2, <2>3 DEF WireInv
<1> QED
  BY <1>3, <1>7, <1>8, <1>9 DEF LogInv, ShownInv

LEMMA CheckStep ==
  ASSUME StreamInv, CheckStatus
  PROVE  StreamInv'
<1> USE DEF StreamInv, StreamTyped, logVars, client
<1> DEFINE message == [id |-> cursor, fin |-> TRUE]
<1>1. /\ Len(log) \in Nat /\ Len(wire) \in Nat /\ mode = "reading"
      /\ Len(wire) = cursor - lastId /\ lastId <= cursor
      /\ UNCHANGED <<log, status, writer, cursor, batch, mode, lastId, shown, finished>>
  BY LenProperties DEF CheckStatus, WireInv
<1>2. CASE UNCHANGED wire /\ phase' = "sleep"
  BY <1>1, <1>2 DEF LogInv, ShownInv, BatchInv, WireInv
<1>3. CASE wire' = Append(wire, message) /\ phase' = "off"
  <2>1. message \in Messages /\ message.id = cursor
    BY DEF Messages
  <2> HIDE DEF message
  <2>2. /\ wire' \in Seq(Messages) /\ Len(wire') = Len(wire) + 1
        /\ \A i \in 1..Len(wire) : wire'[i] = wire[i]
        /\ wire'[Len(wire) + 1] = message
    BY <1>1, <1>3, <2>1, AppendProperties
  <2>d. DOMAIN wire' = 1..(Len(wire) + 1)
    BY <2>2, LenProperties
  <2>3. WireInv'
    BY <1>1, <1>3, <2>1, <2>2, <2>d DEF WireInv
  <2> QED
    BY <1>1, <1>3, <2>2, <2>3 DEF LogInv, ShownInv, BatchInv
<1> QED
  BY <1>2, <1>3 DEF CheckStatus, Yield, EndingId

(* The client takes the first message: the next event, or nothing new.     *)
LEMMA ReceiveStep ==
  ASSUME StreamInv, Receive
  PROVE  StreamInv'
<1> USE DEF StreamInv, StreamTyped, logVars, server
<1> DEFINE first == Head(wire)
<1>1. /\ Len(log) \in Nat /\ Len(wire) \in Nat /\ Len(shown) \in Nat /\ mode = "reading"
      /\ lastId <= cursor /\ cursor <= Len(log) /\ wire # <<>>
      /\ UNCHANGED <<log, status, writer, phase, cursor, batch, mode>>
  BY LenProperties DEF Receive, WireInv
<1>2. /\ Len(wire) > 0 /\ first = wire[1] /\ first \in Messages /\ 1 \in DOMAIN wire
      /\ wire' = Tail(wire) /\ wire' \in Seq(Messages) /\ Len(wire') = Len(wire) - 1
      /\ \A i \in 1..Len(wire') : wire'[i] = wire[i + 1]
      /\ DOMAIN wire' = 1..(Len(wire) - 1)
  BY <1>1, EmptySeq, HeadTailProperties, LenProperties DEF Receive
<1>i. first.id \in Nat /\ DOMAIN wire = 1..Len(wire)
  BY <1>2, LenProperties DEF Messages
<1>v. lastId < cursor => first = [id |-> lastId + 1, fin |-> log[lastId + 1]]
  <2>1. \A i \in 1..(cursor - lastId) :
          wire[i] = [id |-> lastId + i, fin |-> log[lastId + i]]
    BY <1>1 DEF WireInv
  <2>2. lastId < cursor => 1 \in 1..(cursor - lastId)
    BY <1>1
  <2> QED
    BY <1>2, <2>1, <2>2
<1>w. 1 > cursor - lastId => first.id <= cursor
  BY <1>1, <1>2 DEF WireInv
<1>3. CASE IsNew(first)
  <2>1. lastId < cursor /\ first = [id |-> lastId + 1, fin |-> log[lastId + 1]]
    <3>1. lastId < cursor
      BY <1>1, <1>3, <1>i, <1>w DEF IsNew
    <3> QED
      BY <1>v, <3>1
  <2>2. /\ lastId' = lastId + 1 /\ shown' = Append(shown, first)
        /\ finished' = (finished \/ first.fin)
    BY <1>3, <2>1 DEF Receive, Ends
  <2>3. /\ shown' \in Seq(Messages) /\ Len(shown') = Len(shown) + 1
        /\ DOMAIN shown' = 1..(Len(shown) + 1)
        /\ \A i \in 1..Len(shown) : shown'[i] = shown[i]
        /\ shown'[Len(shown) + 1] = first
    BY <1>1, <1>2, <2>2, AppendProperties
  <2> HIDE DEF first
  <2>4. first.fin = log[lastId + 1] /\ first.fin \in BOOLEAN
    BY <1>2, <2>1 DEF Messages
  <2>5. StreamTyped'
    BY <1>1, <1>2, <2>2, <2>3, <2>4
  <2>6. ShownInv'
    <3>1. finished => lastId = Len(log)
      BY <1>1 DEF ShownInv, LogInv
    <3>2. finished' => log[lastId + 1]
      BY <1>1, <2>1, <2>2, <2>4, <3>1
    <3> QED
      BY <1>1, <2>1, <2>2, <2>3, <3>2 DEF ShownInv
  <2>7. WireInv'
    BY <1>1, <1>2, <2>1, <2>2 DEF WireInv
  <2> QED
    BY <1>1, <2>5, <2>6, <2>7 DEF LogInv, BatchInv
<1>4. CASE ~IsNew(first)
  <2>1. UNCHANGED <<lastId, shown, finished>>
    BY <1>4 DEF Receive
  <2>2. lastId = cursor
    <3>1. ASSUME lastId < cursor PROVE FALSE
      <4>1. first.id = lastId + 1
        BY <1>v, <3>1
      <4> QED
        BY <1>4, <4>1 DEF IsNew
    <3> QED
      BY <1>1, <3>1
  <2>3. phase = "off"
    BY <1>1, <1>2, <2>2 DEF WireInv
  <2> QED
    BY <1>1, <1>2, <2>1, <2>2, <2>3 DEF LogInv, ShownInv, BatchInv, WireInv
<1> QED
  BY <1>3, <1>4

(* The connection: each new one starts at lastId with an empty wire.       *)
LEMMA ConnectionStep ==
  ASSUME StreamInv,
         Connect \/ ConnectFails \/ StreamEnds \/ Drop \/ Stop \/ ServerDies
  PROVE  StreamInv'
<1> USE DEF StreamInv, StreamTyped, logVars, server
<1>1. UNCHANGED <<log, lastId, shown, finished>>
  BY DEF Connect, ConnectFails, StreamEnds, Drop, Stop, ServerDies, Die
<1>2. LogInv'
  BY <1>1 DEF LogInv, Connect, ConnectFails, StreamEnds, Drop, Stop, ServerDies, Die
<1>3. ShownInv'
  BY <1>1 DEF ShownInv
<1>4. Len(wire) \in Nat /\ Len(log) \in Nat /\ Len(shown) \in Nat
  BY LenProperties
<1>5. CASE Connect
  <2>1. /\ mode' = "reading" /\ phase' = "read" /\ cursor' = lastId
        /\ batch' = <<>> /\ wire' = <<>>
    BY <1>5 DEF Connect
  <2>2. WireInv'
    BY <1>1, <1>4, <2>1 DEF WireInv, ShownInv
  <2> QED
    BY <1>1, <1>2, <1>3, <2>1, <2>2 DEF BatchInv
<1>6. CASE ~Connect
  <2>1. /\ UNCHANGED <<cursor, batch>>
        /\ \/ UNCHANGED <<phase, mode, wire>>
           \/ /\ phase' = "off" /\ mode' \in {"waiting", "over"}
              /\ wire' = wire \/ wire' = <<>>
    BY <1>6 DEF ConnectFails, StreamEnds, Drop, Stop, ServerDies, WireInv
  <2>2. wire' \in Seq(Messages) /\ (wire' = wire \/ mode' # "reading")
    <3>1. <<>> \in Seq(Messages)
      BY EmptySeq
    <3> QED
      BY <2>1, <3>1
  <2>3. WireInv'
    BY <1>1, <2>1 DEF WireInv
  <2>4. BatchInv'
    BY <1>1, <2>1 DEF BatchInv
  <2> QED
    BY <1>1, <1>2, <1>3, <2>1, <2>2, <2>3, <2>4
<1> QED
  BY <1>5, <1>6

LEMMA StreamInvKept ==
  ASSUME StreamInv, [StreamNext]_streamVars
  PROVE  StreamInv'
<1>1. CASE UNCHANGED streamVars
  BY <1>1 DEF streamVars, logVars, server, client, StreamInv, StreamTyped, LogInv,
     ShownInv, BatchInv, WireInv
<1>2. CASE WakeUp
  BY <1>2 DEF WakeUp, logVars, client, StreamInv, StreamTyped, LogInv, ShownInv,
     BatchInv, WireInv
<1> QED
  BY <1>1, <1>2, LogStep, ReadStep, SendStep, CheckStep, ReceiveStep, ConnectionStep
     DEF StreamNext, Server, Client

(* useRunStream.ts 17-18: "nothing is lost or duplicated".  However often  *)
(* the connection is lost with what is on it, the server dies and the run  *)
(* goes on meanwhile, the page shows a prefix of the run's events, each    *)
(* once and as written, and all of them when it says "finished".           *)
THEOREM NothingLostOrRepeated == StreamSpec => []ShownIsPrefix
<1>1. StreamInit => StreamInv
  <2> SUFFICES ASSUME StreamInit PROVE StreamInv
    OBVIOUS
  <2>1. StreamTyped
    BY EmptySeq DEF StreamInit, LogInit, StreamTyped
  <2>2. Len(shown) = 0 /\ DOMAIN log = {} /\ DOMAIN shown = {} /\ Len(log) = 0
    BY DEF StreamInit, LogInit
  <2> QED
    BY <2>1, <2>2 DEF StreamInit, LogInit, StreamInv, LogInv, ShownInv, BatchInv, WireInv
<1>2. StreamInv /\ [StreamNext]_streamVars => StreamInv'
  BY StreamInvKept
<1>3. StreamInv => ShownIsPrefix
  BY DEF StreamInv, LogInv, ShownInv, ShownIsPrefix, StreamTyped
<1> QED
  BY <1>1, <1>2, <1>3, PTL DEF StreamSpec

-----------------------------------------------------------------------------
(* What a request passes before its runs are made.                         *)

Steps == {"idle", "clock", "lock", "budget", "create", "limited", "denied", "spent",
          "accepted", "cut"}

AdmissionTyped ==
  /\ setup \in Setups /\ clock \in Nat /\ day \in Days
  /\ at \in [Requests -> Steps] /\ key \in [Requests -> Keys \cup {NoKey}]
  /\ workspace \in [Requests -> Workspaces]
  /\ now \in [Requests -> Nat] /\ left \in [Requests -> Nat]
  /\ hits \in [Clients -> Seq(Nat)] /\ admitted \in [Clients -> Seq(Nat)]
  /\ promise \in [Requests -> [due : Nat, seen : Nat]]
  /\ flight \in [Workspaces -> [Days -> Nat]] /\ recorded \in [Workspaces -> [Days -> Nat]]
  /\ peak \in [Workspaces -> Nat]

(* Only a limiter that is on reads the clock, and the lock is not far.     *)
ClockInv ==
  \A q \in Requests :
    /\ at[q] \in {"clock", "lock", "limited"} => setup.limit > 0
    /\ at[q] = "lock" => now[q] <= clock /\ clock <= now[q] + Stall

(* The limiter remembers the latest admissions, at most `limit` of them;   *)
(* what it forgot is out of the window.                                    *)
Remembers(h, a) ==
  /\ Len(h) <= Len(a) /\ Len(h) <= setup.limit
  /\ \A i \in 1..Len(h) : h[i] = a[Len(a) - Len(h) + i]
  /\ \A i \in 1..Len(a) : a[i] <= clock
  /\ \A i \in 1..(Len(a) - Len(h)) : clock - a[i] > Window

WindowInv == \A k \in Clients : Remembers(hits[k], admitted[k])

(* Until somebody else is admitted as that client there is room, or will   *)
(* be by the time the refused one was told.                                *)
PromiseInv ==
  \A q \in Requests :
    LET k == ClientOf(q) IN
    at[q] = "limited" =>
      /\ promise[q].seen <= Len(admitted[k])
      /\ Len(admitted[k]) = promise[q].seen =>
           \/ Room(hits[k])
           \/ Len(hits[k]) > 0 /\ hits[k][1] + Window < promise[q].due

LimiterInv == AdmissionTyped /\ ClockInv /\ WindowInv

(* Only a request that creates runs has some left to make.                 *)
LeftInv ==
  \A q \in Requests : IF at[q] = "create" THEN left[q] > 0 ELSE left[q] = 0

(* Without a budget nothing is spent that anybody counts.                  *)
UncountedInv ==
  setup.budget = 0 =>
    /\ \A q \in Requests : at[q] # "create"
    /\ \A w \in Workspaces : \A d \in Days : flight[w][d] = 0 /\ recorded[w][d] = 0

(* What the runs of a day have recorded and may still record stays below   *)
(* the budget and what the peak may spend; those still to be made will be  *)
(* dated today.                                                            *)
WithinPeak(w) ==
  LET bound == setup.budget + MaxTokens * peak[w] IN
  /\ Waiting(w) + Total(flight[w], Days) <= peak[w]
  /\ \A d \in Days :
       /\ d < day => recorded[w][d] + MaxTokens * flight[w][d] < bound
       /\ d = day => recorded[w][d] + MaxTokens * (flight[w][d] + Waiting(w)) < bound
       /\ d > day => flight[w][d] = 0 /\ recorded[w][d] = 0

SpendInv == setup.budget > 0 => \A w \in Workspaces : WithinPeak(w)

BudgetInv == AdmissionTyped /\ LeftInv /\ UncountedInv /\ SpendInv

-----------------------------------------------------------------------------
(* Lemmas: numbers, the purged window, and sums counted out.               *)

(* Every nonempty set of natural numbers has a least one.                  *)
LEMMA LeastElement ==
  ASSUME NEW T, T \subseteq Nat, T # {}
  PROVE  \E n \in T : \A m \in T : n <= m
<1> DEFINE Below == {0..n : n \in T}
           Order == StrictSubsetOrdering(Nat)
<1>1. IsWellFoundedOn(Order, FiniteSubsetsOf(Nat))
  BY FS_StrictSubsetOrderingWellFounded
<1>2. Below \subseteq FiniteSubsetsOf(Nat) /\ Below # {}
  <2>1. \A n \in T : 0..n \subseteq Nat /\ IsFiniteSet(0..n)
    BY FS_Interval
  <2> QED
    BY <2>1 DEF FiniteSubsetsOf
<1> HIDE DEF Order, Below
<1>3. PICK B \in Below : \A C \in Below : <<C, B>> \notin Order
  BY <1>1, <1>2, WFMin, Zenon
<1>4. PICK n \in T : B = 0..n
  BY DEF Below
<1>5. ASSUME NEW m \in T, ~(n <= m)
      PROVE  FALSE
  <2>1. 0..m \in Below
    BY DEF Below
  <2>2. 0..m \subseteq 0..n /\ 0..m # 0..n /\ 0..m \subseteq Nat /\ 0..n \subseteq Nat
    <3>1. n \in 0..n /\ n \notin 0..m
      BY <1>5
    <3> QED
      BY <1>5, <3>1
  <2>3. <<0..m, B>> \in Order
    BY <1>4, <2>2 DEF Order, StrictSubsetOrdering
  <2> QED
    BY <1>3, <2>1, <2>3
<1> QED
  BY <1>5

(* And every nonempty set of indices has a greatest one.                   *)
LEMMA GreatestIndex ==
  ASSUME NEW n \in Nat, NEW T, T \subseteq 1..n, T # {}
  PROVE  \E i \in T : \A j \in T : j <= i
<1> DEFINE R == {n - i : i \in T}
<1>1. PICK r \in R : \A x \in R : r <= x
  <2>1. R \subseteq Nat /\ R # {}
    <3>1. \A i \in T : n - i \in Nat
      OBVIOUS
    <3> QED
      BY <3>1
  <2> HIDE DEF R
  <2> QED
    BY <2>1, LeastElement
<1>2. PICK i \in T : r = n - i
  OBVIOUS
<1>3. \A j \in T : n - i <= n - j
  BY <1>1, <1>2
<1>4. \A j \in T : j <= i
  <2>1. \A j \in T : j \in Nat
    OBVIOUS
  <2> HIDE DEF R
  <2> QED
    BY <1>3, <2>1
<1> QED
  BY <1>4

(* Purging drops expired readings from the front, and no others.           *)
LEMMA PurgedDrops ==
  ASSUME NEW h \in Seq(Nat), NEW t \in Nat
  PROVE  /\ Purged(h, t) \in Seq(Nat) /\ Len(Purged(h, t)) <= Len(h)
         /\ Len(Purged(h, t)) \in Nat /\ Len(h) \in Nat
         /\ \A i \in 1..Len(Purged(h, t)) :
              Purged(h, t)[i] = h[Len(h) - Len(Purged(h, t)) + i]
         /\ \A i \in 1..(Len(h) - Len(Purged(h, t))) : t - h[i] > Window
         /\ Len(Purged(h, t)) > 0 => t - Purged(h, t)[1] <= Window
<1> DEFINE kept == {i \in DOMAIN h : t - h[i] <= Window}
<1>0. /\ Len(h) \in Nat /\ DOMAIN h = 1..Len(h) /\ Window \in Nat
      /\ \A i \in 1..Len(h) : h[i] \in Nat
  BY LenProperties, AdmissionAssumption
<1>1. CASE kept = {}
  <2>1. Purged(h, t) = <<>>
    BY <1>1 DEF Purged
  <2>2. \A i \in 1..Len(h) : t - h[i] > Window
    BY <1>0, <1>1
  <2>3. <<>> \in Seq(Nat) /\ Len(<<>>) = 0
    BY EmptySeq
  <2> QED
    BY <1>0, <2>1, <2>2, <2>3
<1>2. CASE kept # {}
  <2> DEFINE first == CHOOSE i \in kept : \A j \in kept : i <= j
             p == SubSeq(h, first, Len(h))
  <2>1. first \in kept /\ \A j \in kept : first <= j
    <3>1. kept \subseteq Nat
      BY <1>0
    <3> HIDE DEF kept
    <3>2. \E i \in kept : \A j \in kept : i <= j
      BY <1>2, <3>1, LeastElement
    <3> QED
      BY <3>2
  <2>2. Purged(h, t) = p
    BY <1>2 DEF Purged
  <2>3. first \in 1..Len(h) /\ t - h[first] <= Window
    BY <1>0, <2>1
  <2>4. \A i \in 1..(first - 1) : t - h[i] > Window
    <3> SUFFICES ASSUME NEW i \in 1..(first - 1) PROVE t - h[i] > Window
      OBVIOUS
    <3>1. i \in 1..Len(h) /\ ~(first <= i)
      <4>1. first \in Nat /\ Len(h) \in Nat /\ first <= Len(h)
        BY <1>0, <2>3
      <4> HIDE DEF first
      <4> QED
        BY <4>1
    <3>2. i \notin kept
      BY <2>1, <3>1
    <3> QED
      BY <1>0, <3>1, <3>2
  <2> HIDE DEF kept, first
  <2>5. /\ p \in Seq(Nat) /\ Len(p) = Len(h) - first + 1
        /\ \A i \in 1..(Len(h) - first + 1) : p[i] = h[first + i - 1]
    <3>1. /\ first \in Int /\ Len(h) \in Int /\ first <= Len(h)
          /\ \A i \in first..Len(h) : h[i] \in Nat
      BY <1>0, <2>3
    <3>2. /\ p \in Seq(Nat)
          /\ Len(p) = IF first <= Len(h) THEN Len(h) - first + 1 ELSE 0
          /\ \A i \in 1..(Len(h) - first + 1) : p[i] = h[first + i - 1]
      BY <3>1, SubSeqProperties
    <3> QED
      BY <3>1, <3>2
  <2> HIDE DEF p
  <2>6. p[1] = h[first]
    <3>1. 1 \in 1..(Len(h) - first + 1) /\ first + 1 - 1 = first
      BY <1>0, <2>3
    <3>2. p[1] = h[first + 1 - 1]
      BY <2>5, <3>1
    <3> QED
      BY <3>1, <3>2
  <2>7. \A i \in 1..Len(p) : p[i] = h[Len(h) - Len(p) + i]
    BY <1>0, <2>3, <2>5
  <2>8. Len(h) - Len(p) = first - 1
    BY <1>0, <2>3, <2>5
  <2> QED
    BY <1>0, <2>2, <2>3, <2>4, <2>5, <2>6, <2>7, <2>8
<1> QED
  BY <1>1, <1>2

(* Cut to whole units, a time falls short by less than one unit.           *)
LEMMA Cut ==
  ASSUME NEW x \in Nat, NEW s \in Nat, s > 0
  PROVE  x \div s \in Nat /\ x < (x \div s + 1) * s
  OBVIOUS

LEMMA Monotone ==
  ASSUME NEW m \in Nat, NEW a \in Nat, NEW b \in Nat, a <= b
  PROVE  m * a <= m * b /\ m * a \in Nat
  OBVIOUS

(* How many numbers an interval holds, and a block of it tagged with x.    *)
LEMMA IntervalSize ==
  ASSUME NEW a \in Int, NEW b \in Int, a <= b + 1
  PROVE  IsFiniteSet(a..b) /\ Cardinality(a..b) = b + 1 - a
<1>1. IsFiniteSet(a..b) /\ Cardinality(a..b) = IF a > b THEN 0 ELSE b - a + 1
  BY FS_Interval
<1> QED
  BY <1>1

LEMMA Block ==
  ASSUME NEW x, NEW a \in Int, NEW b \in Int, a <= b + 1
  PROVE  IsFiniteSet({x} \X (a..b)) /\ Cardinality({x} \X (a..b)) = b + 1 - a
<1>1. /\ IsFiniteSet({x}) /\ Cardinality({x}) = 1
      /\ IsFiniteSet(a..b) /\ Cardinality(a..b) = b + 1 - a
  BY FS_Singleton, IntervalSize
<1>2. /\ IsFiniteSet({x} \X (a..b))
      /\ Cardinality({x} \X (a..b)) = Cardinality({x}) * Cardinality(a..b)
  BY <1>1, FS_Product
<1> QED
  BY <1>1, <1>2

(* Units(n, S): what Total counts.                                         *)
Units(n, S) == UNION {{x} \X (1..n[x]) : x \in S}

LEMMA UnitsFinite ==
  ASSUME NEW S, IsFiniteSet(S), NEW n, \A x \in S : n[x] \in Nat
  PROVE  IsFiniteSet(Units(n, S)) /\ Total(n, S) = Cardinality(Units(n, S)) /\ Total(n, S) \in Nat
<1> DEFINE U == {{x} \X (1..n[x]) : x \in S}
           f == [x \in S |-> {x} \X (1..n[x])]
<1>1. f \in Surjection(S, U)
  BY DEF Surjection
<1>2. IsFiniteSet(U)
  BY <1>1, FS_Surjection
<1>3. \A x \in S : IsFiniteSet({x} \X (1..n[x]))
  <2> SUFFICES ASSUME NEW x \in S PROVE IsFiniteSet({x} \X (1..n[x]))
    OBVIOUS
  <2>1. n[x] \in Nat
    OBVIOUS
  <2>2. 1 \in Int /\ n[x] \in Int /\ 1 <= n[x] + 1
    BY <2>1
  <2> QED
    BY <2>2, Block, Zenon
<1>4. \A T \in U : IsFiniteSet(T)
  BY <1>3
<1> HIDE DEF U
<1>5. IsFiniteSet(UNION U)
  BY <1>2, <1>4, FS_UNION
<1> QED
  BY <1>5, FS_CardinalityType DEF Units, Total, U

(* One member counts k more, the others as before.                         *)
LEMMA TotalGrows ==
  ASSUME NEW S, IsFiniteSet(S), NEW n, NEW m, \A x \in S : n[x] \in Nat,
         NEW y \in S, NEW k \in Nat, m[y] = n[y] + k,
         \A x \in S \ {y} : m[x] = n[x]
  PROVE  Total(m, S) = Total(n, S) + k
<1> DEFINE more == {y} \X ((n[y] + 1)..(n[y] + k))
<1>1. IsFiniteSet(more) /\ Cardinality(more) = k
  <2>1. n[y] \in Nat
    OBVIOUS
  <2>2. /\ n[y] + 1 \in Int /\ n[y] + k \in Int /\ n[y] + 1 <= n[y] + k + 1
        /\ n[y] + k + 1 - (n[y] + 1) = k
    BY <2>1
  <2>3. IsFiniteSet(more) /\ Cardinality(more) = n[y] + k + 1 - (n[y] + 1)
    BY <2>2, Block, Zenon
  <2> QED
    BY <2>2, <2>3
<1>2. IsFiniteSet(Units(n, S)) /\ Total(n, S) = Cardinality(Units(n, S))
  BY UnitsFinite
<1>3. Units(m, S) = Units(n, S) \cup more
  <2>1. \A u : u \in Units(m, S) <=> \E x \in S : u \in {x} \X (1..m[x])
    BY DEF Units
  <2>2. \A u : u \in Units(n, S) <=> \E x \in S : u \in {x} \X (1..n[x])
    BY DEF Units
  <2>3. 1..m[y] = (1..n[y]) \cup ((n[y] + 1)..(n[y] + k))
    OBVIOUS
  <2>4. {y} \X (1..m[y]) = ({y} \X (1..n[y])) \cup more
    BY <2>3
  <2> QED
    BY <2>1, <2>2, <2>4
<1>4. Units(n, S) \cap more = {}
  <2>1. (1..n[y]) \cap ((n[y] + 1)..(n[y] + k)) = {}
    OBVIOUS
  <2> QED
    BY <2>1 DEF Units
<1>5. Cardinality(Units(n, S) \cup more) = Cardinality(Units(n, S)) + k - 0
  <2> HIDE DEF more
  <2>1. Cardinality(Units(n, S) \cup more)
          = Cardinality(Units(n, S)) + Cardinality(more) - Cardinality(Units(n, S) \cap more)
    BY <1>1, <1>2, FS_Union
  <2>2. Cardinality(Units(n, S) \cap more) = 0
    BY <1>4, FS_EmptySet
  <2> QED
    BY <1>1, <2>1, <2>2
<1>6. Total(n, S) \in Nat
  BY UnitsFinite
<1> QED
  BY <1>2, <1>3, <1>5, <1>6 DEF Units, Total

(* What is counted alike has one total; nothing counted makes 0.           *)
LEMMA TotalSame ==
  ASSUME NEW S, NEW n, NEW m, \A x \in S : m[x] = n[x]
  PROVE  Total(m, S) = Total(n, S)
BY DEF Total

LEMMA TotalZero ==
  ASSUME NEW S, NEW n, \A x \in S : n[x] = 0
  PROVE  Total(n, S) = 0
<1>1. UNION {{x} \X (1..n[x]) : x \in S} = {}
  OBVIOUS
<1> QED
  BY <1>1, FS_EmptySet DEF Total

LEMMA TotalMember ==
  ASSUME NEW S, IsFiniteSet(S), NEW n, \A x \in S : n[x] \in Nat, NEW y \in S
  PROVE  n[y] <= Total(n, S)
<1> DEFINE own == {y} \X (1..n[y])
<1>0. 1 \in Int /\ n[y] \in Int /\ 1 <= n[y] + 1 /\ n[y] + 1 - 1 = n[y]
  <2>1. n[y] \in Nat
    OBVIOUS
  <2> QED
    BY <2>1
<1>1. IsFiniteSet(own) /\ Cardinality(own) = n[y] + 1 - 1
  BY <1>0, Block, Zenon
<1>2. own \subseteq Units(n, S)
  BY DEF Units
<1>3. IsFiniteSet(Units(n, S)) /\ Total(n, S) = Cardinality(Units(n, S))
  BY UnitsFinite
<1> HIDE DEF own
<1>4. Cardinality(own) <= Cardinality(Units(n, S))
  BY <1>2, <1>3, FS_Subset
<1> QED
  BY <1>0, <1>1, <1>3, <1>4

-----------------------------------------------------------------------------
(* Types.                                                                  *)

LEMMA WorkspaceOfKey ==
  ASSUME setup \in Setups, NEW k \in DOMAIN WorkspaceKeys
  PROVE  WorkspaceKeys[k] \in Workspaces
<1> DEFINE entries == setup.entries
           own == {i \in DOMAIN entries : entries[i].key = k}
           last == CHOOSE i \in DOMAIN entries :
                     entries[i].key = k /\ \A j \in DOMAIN entries : entries[j].key = k => j <= i
<1>1. own # {} /\ WorkspaceKeys[k] = entries[last].name
  BY DEF WorkspaceKeys
<1>2. DOMAIN entries = 1..Len(entries) /\ Len(entries) \in Nat
  BY AdmissionAssumption, LenProperties
<1>3. own \subseteq 1..Len(entries)
  BY <1>2
<1>4. \E i \in own : \A j \in own : j <= i
  <2> HIDE DEF own
  <2> QED
    BY <1>1, <1>2, <1>3, GreatestIndex
<1>5. last \in DOMAIN entries
  <2>1. \E i \in DOMAIN entries :
          entries[i].key = k /\ \A j \in DOMAIN entries : entries[j].key = k => j <= i
    BY <1>4
  <2> QED
    BY <2>1
<1> HIDE DEF last
<1>6. entries[last].name \in UNION {{s.entries[i].name : i \in DOMAIN s.entries} : s \in Setups}
  BY <1>5
<1> QED
  BY <1>1, <1>6 DEF Workspaces

LEMMA ClientTyped ==
  ASSUME AdmissionTyped, NEW q \in Requests
  PROVE  ClientOf(q) \in Clients
BY DEF AdmissionTyped, ClientOf, Clients

LEMMA TodayTyped == AdmissionTyped => day \in Nat /\ day \in 1..MaxDay
BY AdmissionAssumption DEF AdmissionTyped, Days

LEMMA UnderwayTyped ==
  ASSUME AdmissionTyped, NEW w \in Workspaces
  PROVE  Waiting(w) \in Nat /\ Total(flight[w], Days) \in Nat /\ Underway(w) \in Nat
<1> DEFINE S == {q \in Requests : workspace[q] = w}
<1>1. IsFiniteSet(S) /\ \A q \in S : left[q] \in Nat
  BY AdmissionAssumption, FS_Subset DEF AdmissionTyped
<1>2. IsFiniteSet(Days) /\ \A d \in Days : flight[w][d] \in Nat
  <2>1. 1 \in Int /\ MaxDay \in Int
    BY AdmissionAssumption
  <2> QED
    BY <2>1, FS_Interval DEF AdmissionTyped, Days
<1> HIDE DEF S
<1>3. Total(left, S) \in Nat /\ Total(flight[w], Days) \in Nat
  BY <1>1, <1>2, UnitsFinite
<1> QED
  BY <1>3 DEF Waiting, Underway, S

LEMMA TypedVerify ==
  ASSUME AdmissionTyped, NEW q \in Requests, Verify(q)
  PROVE  AdmissionTyped'
<1>1. \A k \in DOMAIN WorkspaceKeys : WorkspaceKeys[k] \in Workspaces
  BY WorkspaceOfKey DEF AdmissionTyped
<1> QED
  BY <1>1 DEF AdmissionTyped, Verify, Go, Steps, time, limiter, spend, Clients, Workspaces, Days

(* Why a request is refused, and that what it is told suffices.            *)
LEMMA Refusal ==
  ASSUME AdmissionTyped, ClockInv, NEW q \in Requests, at[q] = "lock",
         NEW h \in Seq(Nat), Len(h) > 0 => now[q] - h[1] <= Window, ~Room(h)
  PROVE  LET due == now[q] + (RetryAfter(h, now[q]) + 1) * Second
         IN  Len(h) > 0 /\ h[1] + Window < due /\ due \in Nat
<1>1. Len(h) > 0 /\ h[1] \in Nat /\ now[q] \in Nat /\ now[q] - h[1] <= Window
  <2>1. setup.limit \in Nat /\ setup.limit > 0
    BY AdmissionAssumption DEF AdmissionTyped, ClockInv
  <2>2. Len(h) \in Nat /\ Len(h) > 0
    BY <2>1, LenProperties DEF Room
  <2> QED
    BY <2>2, LenProperties DEF AdmissionTyped
<1> DEFINE x == Window - (now[q] - h[1])
           n == x \div Second
           r == RetryAfter(h, now[q])
<1>2. Window \in Nat /\ Second \in Nat /\ Second > 0 /\ x \in Nat
  BY <1>1, AdmissionAssumption
<1>3. n \in Nat /\ x < (n + 1) * Second
  <2> HIDE DEF x
  <2> QED
    BY <1>2, Cut
<1>4. r = IF n < 1 THEN 1 ELSE n
  BY DEF RetryAfter
<1> HIDE DEF n, r
<1>5. r \in Nat /\ n + 1 <= r + 1
  BY <1>3, <1>4
<1>6. Second * (n + 1) <= Second * (r + 1) /\ Second * (r + 1) \in Nat
  BY <1>2, <1>3, <1>5, Monotone
<1>7. x < (r + 1) * Second /\ (r + 1) * Second \in Nat
  BY <1>2, <1>3, <1>5, <1>6
<1>8. h[1] + Window = now[q] + x
  BY <1>1, <1>2
<1> HIDE DEF x
<1> QED
  BY <1>1, <1>2, <1>7, <1>8 DEF r

LEMMA TypedCheck ==
  ASSUME AdmissionTyped, ClockInv, NEW q \in Requests, Check(q)
  PROVE  AdmissionTyped'
<1> DEFINE k == ClientOf(q)
           h == Purged(hits[k], now[q])
           due == now[q] + (RetryAfter(h, now[q]) + 1) * Second
<1>1. /\ k \in Clients /\ hits[k] \in Seq(Nat) /\ admitted[k] \in Seq(Nat)
      /\ now[q] \in Nat /\ at[q] = "lock"
  BY ClientTyped DEF AdmissionTyped, Check, Go
<1>2. /\ h \in Seq(Nat) /\ Len(admitted[k]) \in Nat
      /\ Len(h) > 0 => now[q] - h[1] <= Window
  BY <1>1, PurgedDrops, LenProperties
<1>3. Append(h, now[q]) \in Seq(Nat) /\ Append(admitted[k], now[q]) \in Seq(Nat)
  <2> HIDE DEF k, h
  <2> QED
    BY <1>1, <1>2, AppendProperties
<1>4. CASE Room(h)
  <2>1. /\ hits' = [hits EXCEPT ![k] = Append(h, now[q])]
        /\ admitted' = [admitted EXCEPT ![k] = Append(admitted[k], now[q])]
        /\ at' = [at EXCEPT ![q] = "budget"] /\ UNCHANGED promise
    BY <1>4 DEF Check, Go
  <2> HIDE DEF k, h
  <2> QED
    BY <1>1, <1>3, <2>1 DEF Check, AdmissionTyped, Steps, time, spend, Clients, Workspaces, Days
<1>5. CASE ~Room(h)
  <2>1. due \in Nat
    <3> HIDE DEF k, h
    <3> QED
      BY <1>1, <1>2, <1>5, Refusal DEF due
  <2>2. /\ hits' = [hits EXCEPT ![k] = h] /\ UNCHANGED admitted
        /\ at' = [at EXCEPT ![q] = "limited"]
        /\ promise' = [promise EXCEPT ![q] = [due |-> due, seen |-> Len(admitted[k])]]
    BY <1>5 DEF Check, Go
  <2>3. UNCHANGED <<setup, time, key, workspace, now, left, spend, restarts>>
    BY DEF Check
  <2> HIDE DEF k, h, due
  <2>4. [due |-> due, seen |-> Len(admitted[k])] \in [due : Nat, seen : Nat]
    BY <1>2, <2>1
  <2> QED
    BY <1>1, <1>2, <2>1, <2>2, <2>3, <2>4 DEF AdmissionTyped, Steps, time, spend, Clients, Workspaces, Days
<1> QED
  BY <1>4, <1>5

LEMMA TypedBudget ==
  ASSUME AdmissionTyped, NEW q \in Requests, CheckBudget(q)
  PROVE  AdmissionTyped'
<1>1. /\ UNCHANGED <<setup, time, key, workspace, now, limiter, flight, recorded, restarts>>
      /\ at' \in [Requests -> Steps]
  BY DEF CheckBudget, Go, AdmissionTyped, Steps
<1>2. left' \in [Requests -> Nat] /\ peak' \in [Workspaces -> Nat]
  <2>1. CASE UNCHANGED <<left, peak>>
    BY <2>1 DEF AdmissionTyped
  <2>2. ASSUME NEW n \in {1, Batch}, left' = [left EXCEPT ![q] = n],
               LET u == Underway(workspace[q]) + n
               IN  peak' = [peak EXCEPT ![workspace[q]] = IF @ < u THEN u ELSE @]
        PROVE  left' \in [Requests -> Nat] /\ peak' \in [Workspaces -> Nat]
    <3>1. workspace[q] \in Workspaces
      BY DEF AdmissionTyped
    <3>2. n \in Nat /\ Underway(workspace[q]) + n \in Nat
      BY <3>1, UnderwayTyped, AdmissionAssumption
    <3> QED
      BY <2>2, <3>1, <3>2 DEF AdmissionTyped
  <2> QED
    BY <2>1, <2>2 DEF CheckBudget
<1> QED
  BY <1>1, <1>2 DEF AdmissionTyped, time, limiter

LEMMA TypedSpending ==
  ASSUME AdmissionTyped, LeftInv, NEW q \in Requests, CreateRun(q)
  PROVE  AdmissionTyped'
<1>1. left[q] \in Nat /\ left[q] > 0 /\ workspace[q] \in Workspaces /\ day \in Days
  BY DEF CreateRun, Go, LeftInv, AdmissionTyped
<1> QED
  BY <1>1 DEF CreateRun, Go, AdmissionTyped, Steps, time, limiter

LEMMA TypedEndRun ==
  ASSUME AdmissionTyped, EndRun
  PROVE  AdmissionTyped'
<1>1. PICK w \in Workspaces, d \in Days, t \in 0..MaxTokens :
        /\ flight[w][d] > 0
        /\ flight' = [flight EXCEPT ![w][d] = @ - 1]
        /\ recorded' = [recorded EXCEPT ![w][d] = @ + t]
  BY DEF EndRun
<1>2. flight[w][d] - 1 \in Nat /\ recorded[w][d] + t \in Nat
  BY <1>1, AdmissionAssumption DEF AdmissionTyped
<1> QED
  BY <1>1, <1>2 DEF EndRun, AdmissionTyped, time, request, limiter

LEMMA TypedOther ==
  ASSUME AdmissionTyped,
         \/ \E q \in Requests : ReadClock(q)
         \/ Tick \/ Midnight \/ Restart \/ UNCHANGED admissionVars
  PROVE  AdmissionTyped'
<1>1. ASSUME NEW q \in Requests, ReadClock(q) PROVE AdmissionTyped'
  BY <1>1 DEF ReadClock, Go, AdmissionTyped, Steps, time, limiter, spend
<1>2. CASE Tick \/ UNCHANGED admissionVars
  BY <1>2 DEF Tick, AdmissionTyped, admissionVars, time, request, limiter, spend
<1>3. CASE Midnight
  <2>1. day + 1 \in Days
    BY <1>3, TodayTyped, AdmissionAssumption DEF Midnight, Days
  <2> QED
    BY <1>3, <2>1 DEF Midnight, AdmissionTyped, request, limiter, spend
<1>4. CASE Restart
  <2>1. <<>> \in Seq(Nat)
    BY EmptySeq
  <2> QED
    BY <1>4, <2>1 DEF Restart, AdmissionTyped, Steps, time
<1> QED
  BY <1>1, <1>2, <1>3, <1>4

LEMMA TypedKept ==
  ASSUME AdmissionTyped, ClockInv, LeftInv, [AdmissionNext]_admissionVars
  PROVE  AdmissionTyped'
BY TypedVerify, TypedCheck, TypedBudget, TypedSpending, TypedEndRun, TypedOther
   DEF AdmissionNext

-----------------------------------------------------------------------------
(* The limiter.                                                            *)

LEMMA ClockKept ==
  ASSUME AdmissionTyped, ClockInv, [AdmissionNext]_admissionVars
  PROVE  ClockInv'
<1>0. Stall \in Nat /\ clock \in Nat
  BY AdmissionAssumption DEF AdmissionTyped
<1>1. ASSUME NEW q \in Requests, Verify(q) PROVE ClockInv'
  BY <1>1 DEF Verify, Go, time, AdmissionTyped, ClockInv
<1>2. ASSUME NEW q \in Requests, ReadClock(q) PROVE ClockInv'
  BY <1>0, <1>2 DEF ReadClock, Go, time, AdmissionTyped, ClockInv
<1>3. ASSUME NEW q \in Requests, Check(q) \/ CheckBudget(q) \/ CreateRun(q) PROVE ClockInv'
  <2>1. /\ UNCHANGED <<setup, time, now>>
        /\ \E to \in Steps \ {"clock", "lock"} :
             at' = [at EXCEPT ![q] = to] /\ (to = "limited" => at[q] = "lock")
    BY <1>3 DEF Check, CheckBudget, CreateRun, Go, Steps
  <2> QED
    BY <2>1 DEF time, AdmissionTyped, ClockInv
<1>4. CASE EndRun \/ Midnight \/ UNCHANGED admissionVars
  BY <1>4 DEF EndRun, Midnight, admissionVars, time, request, ClockInv
<1>5. CASE Tick
  <2>1. \A q \in Requests : at[q] = "lock" => clock + 1 <= now[q] + Stall
    BY <1>0, <1>5 DEF Tick, AdmissionTyped
  <2> QED
    BY <1>0, <1>5, <2>1 DEF Tick, request, AdmissionTyped, ClockInv
<1>6. CASE Restart
  BY <1>6 DEF Restart, time, AdmissionTyped, ClockInv
<1> QED
  BY <1>1, <1>2, <1>3, <1>4, <1>5, <1>6 DEF AdmissionNext

(* A reading that was admitted and is still in the window is remembered.   *)
LEMMA StillThere ==
  ASSUME NEW h \in Seq(Nat), NEW a \in Seq(Nat), clock \in Nat, setup.limit \in Nat,
         Remembers(h, a), NEW t \in Nat, t <= clock,
         NEW j \in 1..Len(a), clock - a[j] <= Window,
         t - a[j] <= Window
  PROVE  j > Len(a) - Len(Purged(h, t))
<1> DEFINE p == Purged(h, t)
<1>1. /\ Len(h) \in Nat /\ Len(p) \in Nat /\ Len(p) <= Len(h) /\ Len(a) \in Nat
      /\ \A i \in 1..(Len(h) - Len(p)) : t - h[i] > Window
  BY PurgedDrops, LenProperties
<1>2. Window \in Nat /\ a[j] \in Nat
  BY LenProperties, AdmissionAssumption
<1> HIDE DEF p
<1> SUFFICES ASSUME j <= Len(a) - Len(p) PROVE FALSE
  BY <1>1 DEF p
<1>3. j > Len(a) - Len(h)
  <2>1. j \notin 1..(Len(a) - Len(h))
    BY <1>2 DEF Remembers
  <2> QED
    BY <1>1, <2>1
<1> DEFINE i == j - (Len(a) - Len(h))
<1>4. i \in 1..Len(h) /\ i \in 1..(Len(h) - Len(p)) /\ Len(a) - Len(h) + i = j
  BY <1>1, <1>3
<1> HIDE DEF i
<1>5. h[i] = a[j]
  BY <1>4 DEF Remembers
<1>6. t - h[i] > Window
  BY <1>1, <1>4
<1>7. t - a[j] > Window
  BY <1>5, <1>6
<1> QED
  BY <1>2, <1>7

(* Purging forgets nothing that counts.                                    *)
LEMMA PurgedRemembers ==
  ASSUME NEW h \in Seq(Nat), NEW a \in Seq(Nat), clock \in Nat, setup.limit \in Nat,
         Remembers(h, a), NEW t \in Nat, t <= clock
  PROVE  Remembers(Purged(h, t), a)
<1> DEFINE p == Purged(h, t)
<1>1. /\ Len(h) \in Nat /\ Len(p) \in Nat /\ Len(p) <= Len(h) /\ Len(a) \in Nat
      /\ \A i \in 1..Len(p) : p[i] = h[Len(h) - Len(p) + i]
      /\ \A i \in 1..Len(a) : a[i] \in Nat
      /\ Window \in Nat
  BY PurgedDrops, LenProperties, AdmissionAssumption
<1>2. \A i \in 1..(Len(a) - Len(p)) : clock - a[i] > Window
  <2> SUFFICES ASSUME NEW i \in 1..(Len(a) - Len(p)), clock - a[i] <= Window PROVE FALSE
    BY <1>1
  <2>1. i \in 1..Len(a) /\ a[i] \in Nat /\ ~(i > Len(a) - Len(p))
    BY <1>1
  <2>2. t - a[i] <= Window
    BY <1>1, <2>1
  <2> QED
    BY <2>1, <2>2, StillThere
<1> HIDE DEF p
<1>3. \A i \in 1..Len(p) : p[i] = a[Len(a) - Len(p) + i]
  <2> SUFFICES ASSUME NEW i \in 1..Len(p) PROVE p[i] = a[Len(a) - Len(p) + i]
    OBVIOUS
  <2> DEFINE n == Len(h) - Len(p) + i
  <2>1. n \in 1..Len(h) /\ Len(a) - Len(h) + n = Len(a) - Len(p) + i
    BY <1>1
  <2>2. p[i] = h[n]
    BY <1>1
  <2> HIDE DEF n
  <2> QED
    BY <2>1, <2>2 DEF Remembers
<1> QED
  BY <1>1, <1>2, <1>3 DEF Remembers, p

(* What Check does to the memory of the one client it is about.            *)
LEMMA CheckedClient ==
  ASSUME AdmissionTyped, ClockInv, WindowInv, NEW q \in Requests, Check(q)
  PROVE  LET k == ClientOf(q)
             h == Purged(hits[k], now[q])
         IN  /\ k \in Clients /\ at[q] = "lock" /\ now[q] \in Nat /\ clock \in Nat
             /\ now[q] <= clock /\ clock <= now[q] + Stall /\ setup.limit \in Nat
             /\ hits[k] \in Seq(Nat) /\ admitted[k] \in Seq(Nat) /\ h \in Seq(Nat)
             /\ Remembers(hits[k], admitted[k]) /\ Remembers(h, admitted[k])
             /\ UNCHANGED <<setup, clock>>
<1> DEFINE k == ClientOf(q)
<1>1. /\ k \in Clients /\ hits[k] \in Seq(Nat) /\ admitted[k] \in Seq(Nat)
      /\ now[q] \in Nat /\ clock \in Nat /\ at[q] = "lock"
      /\ Remembers(hits[k], admitted[k])
  BY ClientTyped DEF AdmissionTyped, Check, Go, WindowInv
<1>2. now[q] <= clock /\ clock <= now[q] + Stall
  BY <1>1 DEF ClockInv
<1>3. setup.limit \in Nat /\ UNCHANGED <<setup, clock>>
  BY AdmissionAssumption DEF AdmissionTyped, Check, time
<1> HIDE DEF k
<1>4. Purged(hits[k], now[q]) \in Seq(Nat) /\ Remembers(Purged(hits[k], now[q]), admitted[k])
  BY <1>1, <1>2, <1>3, PurgedDrops, PurgedRemembers
<1> QED
  BY <1>1, <1>2, <1>3, <1>4 DEF k

LEMMA WindowKept ==
  ASSUME AdmissionTyped, ClockInv, WindowInv, [AdmissionNext]_admissionVars
  PROVE  WindowInv'
<1>1. ASSUME NEW q \in Requests, Check(q) PROVE WindowInv'
  <2> DEFINE k == ClientOf(q)
             h == Purged(hits[k], now[q])
             a == admitted[k]
  <2>1. /\ k \in Clients /\ now[q] \in Nat /\ clock \in Nat /\ now[q] <= clock
        /\ setup.limit \in Nat /\ a \in Seq(Nat) /\ h \in Seq(Nat)
        /\ Remembers(h, a) /\ UNCHANGED <<setup, clock>>
    BY <1>1, CheckedClient
  <2>2. /\ IF Room(h) THEN /\ hits' = [hits EXCEPT ![k] = Append(h, now[q])]
                          /\ admitted' = [admitted EXCEPT ![k] = Append(a, now[q])]
                     ELSE hits' = [hits EXCEPT ![k] = h] /\ UNCHANGED admitted
    BY <1>1 DEF Check
  <2> HIDE DEF k, h, a
  <2>3. Room(h) => Remembers(Append(h, now[q]), Append(a, now[q]))
    <3> SUFFICES ASSUME Room(h) PROVE Remembers(Append(h, now[q]), Append(a, now[q]))
      OBVIOUS
    <3> DEFINE g == Append(h, now[q])
               b == Append(a, now[q])
    <3>1. /\ Len(h) \in Nat /\ Len(a) \in Nat /\ Len(g) = Len(h) + 1 /\ Len(b) = Len(a) + 1
          /\ \A i \in 1..Len(h) : g[i] = h[i]
          /\ \A i \in 1..Len(a) : b[i] = a[i]
          /\ g[Len(h) + 1] = now[q] /\ b[Len(a) + 1] = now[q]
      BY <2>1, AppendProperties, LenProperties
    <3> HIDE DEF g, b
    <3>2. \A i \in 1..Len(g) : g[i] = b[Len(b) - Len(g) + i]
      <4> SUFFICES ASSUME NEW i \in 1..Len(g) PROVE g[i] = b[Len(b) - Len(g) + i]
        OBVIOUS
      <4>1. CASE i = Len(h) + 1
        BY <3>1, <4>1
      <4>2. CASE i \in 1..Len(h)
        <5>1. /\ Len(a) - Len(h) + i \in 1..Len(a)
              /\ Len(b) - Len(g) + i = Len(a) - Len(h) + i
          BY <2>1, <3>1, <4>2 DEF Remembers
        <5>2. h[i] = a[Len(a) - Len(h) + i]
          BY <2>1, <4>2 DEF Remembers
        <5> QED
          BY <3>1, <4>2, <5>1, <5>2
      <4> QED
        BY <3>1, <4>1, <4>2
    <3>3. \A i \in 1..Len(b) : b[i] <= clock
      <4>1. \A i \in 1..Len(b) : i \in 1..Len(a) \/ i = Len(a) + 1
        BY <3>1
      <4> QED
        BY <2>1, <3>1, <4>1 DEF Remembers
    <3>4. \A i \in 1..(Len(b) - Len(g)) : clock - b[i] > Window
      <4>1. \A i \in 1..(Len(b) - Len(g)) : i \in 1..(Len(a) - Len(h)) /\ i \in 1..Len(a)
        BY <2>1, <3>1 DEF Remembers
      <4> QED
        BY <2>1, <3>1, <4>1 DEF Remembers
    <3>5. Len(g) <= Len(b) /\ Len(g) <= setup.limit
      BY <2>1, <3>1 DEF Remembers, Room
    <3> QED
      BY <3>2, <3>3, <3>4, <3>5 DEF Remembers, g, b
  <2>4. Remembers(hits'[k], admitted'[k])
    BY <2>1, <2>2, <2>3 DEF AdmissionTyped, a
  <2>5. \A c \in Clients \ {k} : hits'[c] = hits[c] /\ admitted'[c] = admitted[c]
    BY <2>2 DEF AdmissionTyped
  <2>6. \A c \in Clients : Remembers(hits'[c], admitted'[c])
    BY <2>4, <2>5 DEF WindowInv
  <2> QED
    BY <2>1, <2>6 DEF WindowInv, Remembers
<1>2. CASE Tick
  <2> SUFFICES ASSUME NEW c \in Clients PROVE Remembers(hits[c], admitted[c])'
    BY <1>2 DEF WindowInv, Tick, Clients
  <2>1. /\ UNCHANGED <<hits, admitted, setup>> /\ clock' = clock + 1
        /\ hits[c] \in Seq(Nat) /\ admitted[c] \in Seq(Nat) /\ clock \in Nat
    BY <1>2 DEF Tick, limiter, AdmissionTyped
  <2> DEFINE h == hits[c]
             a == admitted[c]
  <2>2. /\ Remembers(h, a) /\ Len(h) \in Nat /\ Len(a) \in Nat /\ Window \in Nat
        /\ \A i \in 1..Len(a) : a[i] \in Nat
    BY <2>1, LenProperties, AdmissionAssumption DEF WindowInv
  <2>3. h' = h /\ a' = a
    BY <2>1
  <2> HIDE DEF h, a
  <2>4. \A i \in 1..Len(a) : a[i] <= clock'
    BY <2>1, <2>2 DEF Remembers
  <2>5. \A i \in 1..(Len(a) - Len(h)) : clock' - a[i] > Window
    <3>1. \A i \in 1..(Len(a) - Len(h)) : i \in 1..Len(a)
      BY <2>2
    <3> QED
      BY <2>1, <2>2, <3>1 DEF Remembers
  <2> QED
    BY <2>1, <2>2, <2>3, <2>4, <2>5 DEF Remembers, h, a
<1>3. CASE Restart
  <2>1. \A c \in Clients : hits'[c] = <<>> /\ admitted'[c] = <<>>
    BY <1>3 DEF Restart
  <2>2. setup' = setup /\ setup.limit \in Nat
    BY <1>3, AdmissionAssumption DEF Restart, AdmissionTyped
  <2>3. \A c \in Clients : Len(hits'[c]) = 0 /\ Len(admitted'[c]) = 0
    BY <2>1
  <2>4. \A c \in Clients : Remembers(hits[c], admitted[c])'
    <3> SUFFICES ASSUME NEW c \in Clients PROVE Remembers(hits[c], admitted[c])'
      OBVIOUS
    <3>1. Len(hits'[c]) = 0 /\ Len(admitted'[c]) = 0 /\ 0 <= setup'.limit
      BY <2>2, <2>3
    <3>2. 1..0 = {} /\ 1..(0 - 0) = {}
      OBVIOUS
    <3> QED
      BY <3>1, <3>2 DEF Remembers
  <2> QED
    BY <2>4 DEF WindowInv
<1>4. ASSUME \/ UNCHANGED admissionVars \/ EndRun \/ Midnight
             \/ \E q \in Requests : Verify(q) \/ ReadClock(q) \/ CheckBudget(q) \/ CreateRun(q)
      PROVE  WindowInv'
  <2>1. UNCHANGED <<setup, clock, hits, admitted>>
    BY <1>4 DEF admissionVars, EndRun, Midnight, Verify, ReadClock, CheckBudget, CreateRun,
       time, limiter
  <2> QED
    BY <2>1 DEF WindowInv, Remembers
<1> QED
  BY <1>1, <1>2, <1>3, <1>4 DEF AdmissionNext

(* The window, once more admission.                                        *)
LEMMA OneMoreInWindow ==
  ASSUME NEW h \in Seq(Nat), NEW a \in Seq(Nat), clock \in Nat, setup.limit \in Nat,
         Remembers(h, a), NEW t \in Nat, t <= clock, clock <= t + Stall,
         Room(Purged(h, t)),
         \A i \in DOMAIN a :
           Cardinality({j \in DOMAIN a : a[j] - a[i] \in 0..(Window - Stall)}) <= setup.limit
  PROVE  LET b == Append(a, t)
         IN  \A i \in DOMAIN b :
               Cardinality({j \in DOMAIN b : b[j] - b[i] \in 0..(Window - Stall)}) <= setup.limit
<1> DEFINE b == Append(a, t)
           p == Purged(h, t)
           Near(s, i) == {j \in DOMAIN s : s[j] - s[i] \in 0..(Window - Stall)}
<1>1. /\ Len(a) \in Nat /\ DOMAIN a = 1..Len(a) /\ DOMAIN b = 1..(Len(a) + 1)
      /\ b[Len(a) + 1] = t /\ \A i \in 1..Len(a) : b[i] = a[i] /\ a[i] \in Nat
      /\ Window \in Nat /\ Stall \in Nat /\ Stall <= Window
      /\ Len(p) \in Nat
  BY AppendProperties, LenProperties, PurgedDrops, AdmissionAssumption
<1>2. Len(p) + 1 <= setup.limit
  BY <1>1 DEF Room
<1>3. \A j \in 1..Len(a) : clock - a[j] <= Window /\ t - a[j] <= Window => j > Len(a) - Len(p)
  BY StillThere
<1> HIDE DEF b, p
<1> SUFFICES ASSUME NEW i \in 1..(Len(a) + 1) PROVE Cardinality(Near(b, i)) <= setup.limit
  BY <1>1 DEF b
<1>4. CASE i \in 1..Len(a) /\ t - a[i] \notin 0..(Window - Stall)
  <2>1. Near(b, i) = Near(a, i)
    <3>1. \A j \in DOMAIN b : j \in DOMAIN a \/ j = Len(a) + 1
      BY <1>1
    <3>2. \A j \in DOMAIN a : j \in DOMAIN b /\ b[j] = a[j]
      BY <1>1
    <3>3. b[i] = a[i] /\ Len(a) + 1 \notin DOMAIN a
      BY <1>1, <1>4
    <3> QED
      BY <1>1, <1>4, <3>1, <3>2, <3>3
  <2> QED
    BY <1>1, <1>4, <2>1
<1>5. CASE i = Len(a) + 1 \/ t - a[i] \in 0..(Window - Stall)
  <2>1. b[i] \in Nat /\ t - b[i] <= Window - Stall
    <3>1. CASE i = Len(a) + 1
      BY <1>1, <3>1
    <3>2. CASE i \in 1..Len(a) /\ t - a[i] \in 0..(Window - Stall)
      BY <1>1, <3>2
    <3> QED
      BY <1>1, <1>5, <3>1, <3>2
  <2> DEFINE I == (Len(a) + 1 - Len(p))..(Len(a) + 1)
  <2>2. Near(b, i) \subseteq I
    <3> SUFFICES ASSUME NEW j \in 1..(Len(a) + 1), b[j] - b[i] \in 0..(Window - Stall)
                 PROVE  j \in I
      BY <1>1
    <3>1. CASE j = Len(a) + 1
      BY <1>1, <3>1
    <3>2. CASE j \in 1..Len(a)
      <4>1. a[j] \in Nat /\ a[j] - b[i] >= 0
        BY <1>1, <2>1, <3>2
      <4>2. clock - a[j] <= Window /\ t - a[j] <= Window
        <5>1. Window \in Nat /\ Stall \in Nat /\ Stall <= Window
          BY <1>1
        <5> HIDE DEF I, Near
        <5> QED
          BY <2>1, <4>1, <5>1
      <4>3. j > Len(a) - Len(p)
        BY <1>3, <3>2, <4>2
      <4> QED
        BY <1>1, <3>2, <4>3
    <3> QED
      BY <1>1, <3>1, <3>2
  <2>3. IsFiniteSet(I) /\ Cardinality(I) = Len(p) + 1
    <3>1. /\ Len(a) + 1 - Len(p) \in Int /\ Len(a) + 1 \in Int
          /\ Len(a) + 1 - Len(p) <= Len(a) + 1 + 1
          /\ Len(a) + 1 + 1 - (Len(a) + 1 - Len(p)) = Len(p) + 1
      BY <1>1
    <3>2. IsFiniteSet(I) /\ Cardinality(I) = Len(a) + 1 + 1 - (Len(a) + 1 - Len(p))
      BY <3>1, IntervalSize, Zenon
    <3> QED
      BY <3>1, <3>2
  <2> HIDE DEF I, Near
  <2>4. Cardinality(Near(b, i)) <= Cardinality(I) /\ IsFiniteSet(Near(b, i))
    BY <2>2, <2>3, FS_Subset
  <2>5. Cardinality(Near(b, i)) \in Nat
    BY <2>4, FS_CardinalityType
  <2> QED
    BY <1>1, <1>2, <2>3, <2>4, <2>5
<1> QED
  BY <1>1, <1>4, <1>5

LEMMA BoundKept ==
  ASSUME AdmissionTyped, ClockInv, WindowInv, WindowBounded, [AdmissionNext]_admissionVars
  PROVE  WindowBounded'
<1>1. ASSUME NEW q \in Requests, Check(q) PROVE WindowBounded'
  <2> DEFINE k == ClientOf(q)
             h == Purged(hits[k], now[q])
             Fits(a) == \A i \in DOMAIN a :
               Cardinality({j \in DOMAIN a : a[j] - a[i] \in 0..(Window - Stall)}) <= setup.limit
  <2>1. /\ k \in Clients /\ hits[k] \in Seq(Nat) /\ admitted[k] \in Seq(Nat)
        /\ now[q] \in Nat /\ clock \in Nat /\ now[q] <= clock /\ clock <= now[q] + Stall
        /\ setup.limit \in Nat /\ Remembers(hits[k], admitted[k]) /\ UNCHANGED setup
    BY <1>1, CheckedClient
  <2>2. \A c \in Clients : Fits(admitted[c])
    BY DEF WindowBounded
  <2>3. Room(h) => Fits(Append(admitted[k], now[q]))
    <3> HIDE DEF k
    <3> QED
      BY <2>1, <2>2, OneMoreInWindow
  <2>4. IF Room(h) THEN admitted' = [admitted EXCEPT ![k] = Append(admitted[k], now[q])]
                   ELSE UNCHANGED admitted
    BY <1>1 DEF Check
  <2> HIDE DEF k, h, Fits
  <2>5. \A c \in Clients : Fits(admitted'[c])
    BY <2>1, <2>2, <2>3, <2>4 DEF AdmissionTyped
  <2> QED
    BY <2>1, <2>5 DEF WindowBounded, Fits
<1>2. CASE Restart
  <2>1. \A c \in Clients : DOMAIN admitted'[c] = {}
    BY <1>2 DEF Restart
  <2> QED
    BY <2>1 DEF WindowBounded
<1>3. ASSUME \/ UNCHANGED admissionVars \/ EndRun \/ Midnight \/ Tick
             \/ \E q \in Requests : Verify(q) \/ ReadClock(q) \/ CheckBudget(q) \/ CreateRun(q)
      PROVE  WindowBounded'
  <2>1. UNCHANGED <<setup, admitted>>
    BY <1>3 DEF admissionVars, EndRun, Midnight, Tick, Verify, ReadClock, CheckBudget, CreateRun,
       limiter
  <2> QED
    BY <2>1 DEF WindowBounded
<1> QED
  BY <1>1, <1>2, <1>3 DEF AdmissionNext

(* A refusal promises, and whatever the limiter does next keeps it: it     *)
(* forgets, which makes room, or it admits somebody as the same client.    *)
LEMMA PromiseKept ==
  ASSUME AdmissionTyped, ClockInv, WindowInv, PromiseInv, [AdmissionNext]_admissionVars
  PROVE  PromiseInv'
<1> DEFINE Holds(h, a, p) ==
      /\ p.seen <= Len(a)
      /\ Len(a) = p.seen => Room(h) \/ (Len(h) > 0 /\ h[1] + Window < p.due)
<1>0. \A q \in Requests : at[q] = "limited" => Holds(hits[ClientOf(q)], admitted[ClientOf(q)], promise[q])
  BY DEF PromiseInv
<1>1. ASSUME NEW q \in Requests, Check(q) PROVE PromiseInv'
  <2> DEFINE k == ClientOf(q)
             g == hits[k]
             h == Purged(hits[k], now[q])
             a == admitted[k]
             due == now[q] + (RetryAfter(h, now[q]) + 1) * Second
  <2>1. /\ k \in Clients /\ at[q] = "lock" /\ now[q] \in Nat /\ setup.limit \in Nat
        /\ g \in Seq(Nat) /\ a \in Seq(Nat) /\ h \in Seq(Nat)
        /\ Remembers(g, a) /\ UNCHANGED setup
    BY <1>1, CheckedClient
  <2>2. /\ UNCHANGED <<key, setup>>
        /\ IF Room(h)
           THEN /\ at' = [at EXCEPT ![q] = "budget"]
                /\ hits' = [hits EXCEPT ![k] = Append(h, now[q])]
                /\ admitted' = [admitted EXCEPT ![k] = Append(a, now[q])]
                /\ UNCHANGED promise
           ELSE /\ at' = [at EXCEPT ![q] = "limited"]
                /\ hits' = [hits EXCEPT ![k] = h]
                /\ promise' = [promise EXCEPT ![q] = [due |-> due, seen |-> Len(a)]]
                /\ UNCHANGED admitted
    BY <1>1 DEF Check, Go
  <2>3. /\ Len(g) \in Nat /\ Len(h) \in Nat /\ Len(a) \in Nat /\ Len(h) <= Len(g)
        /\ \A i \in 1..Len(h) : h[i] = g[Len(g) - Len(h) + i]
        /\ Len(h) > 0 => now[q] - h[1] <= Window
    BY <2>1, PurgedDrops, LenProperties
  <2>4. \A c \in Requests : ClientOf(c)' = ClientOf(c)
    BY <2>2 DEF ClientOf
  <2>5. ~Room(h) => Len(h) > 0 /\ h[1] + Window < due /\ due \in Nat
    <3> HIDE DEF h
    <3> QED
      BY <2>1, <2>3, Refusal
  <2>6. Len(Append(a, now[q])) = Len(a) + 1
    BY <2>1, AppendProperties
  <2>7. Len(g) <= setup.limit
    BY <2>1 DEF Remembers
  <2>8. ASSUME NEW p \in [due : Nat, seen : Nat], Holds(g, a, p), ~Room(h)
        PROVE  Holds(h, a, p)
    <3>1. CASE Len(h) = Len(g)
      <4>1. Len(g) > 0 => h[1] = g[1]
        <5>1. Len(g) > 0 => 1 \in 1..Len(h) /\ Len(g) - Len(h) + 1 = 1
          BY <2>3, <3>1
        <5> QED
          BY <2>3, <5>1
      <4> HIDE DEF g, h, a
      <4> QED
        BY <2>3, <2>8, <3>1, <4>1 DEF Room
    <3>2. CASE Len(h) < Len(g)
      BY <2>1, <2>3, <2>7, <2>8, <3>2 DEF Room
    <3> QED
      BY <2>3, <3>1, <3>2
  <2> SUFFICES ASSUME NEW c \in Requests, at'[c] = "limited"
               PROVE  Holds(hits[ClientOf(c)], admitted[ClientOf(c)], promise[c])'
    BY DEF PromiseInv
  <2>c. ClientOf(c) \in Clients /\ promise[c] \in [due : Nat, seen : Nat]
    BY ClientTyped DEF AdmissionTyped
  <2>9. CASE c = q
    <3>1. ~Room(h)
      BY <2>2, <2>9 DEF AdmissionTyped
    <3>2. /\ hits'[ClientOf(c)] = h /\ admitted'[ClientOf(c)] = a
          /\ promise'[c] = [due |-> due, seen |-> Len(a)]
      <4> HIDE DEF g, h, a, due
      <4> QED
        BY <2>1, <2>2, <2>9, <3>1 DEF AdmissionTyped, a
    <3> HIDE DEF g, h, a, due
    <3> QED
      BY <2>1, <2>2, <2>3, <2>4, <2>5, <2>9, <3>1, <3>2
  <2>10. CASE c # q
    <3>1. /\ at[c] = "limited" /\ promise'[c] = promise[c]
          /\ Holds(hits[ClientOf(c)], admitted[ClientOf(c)], promise[c])
      BY <1>0, <2>2, <2>10 DEF AdmissionTyped
    <3>2. CASE ClientOf(c) # k
      <4>1. hits'[ClientOf(c)] = hits[ClientOf(c)] /\ admitted'[ClientOf(c)] = admitted[ClientOf(c)]
        BY <2>2, <2>c, <3>2 DEF AdmissionTyped
      <4> QED
        BY <2>2, <2>4, <3>1, <4>1 DEF Room
    <3>3. CASE ClientOf(c) = k /\ Room(h)
      <4>1. admitted'[k] = Append(a, now[q]) /\ promise[c].seen <= Len(a)
        <5> HIDE DEF h
        <5> QED
          BY <2>1, <2>2, <3>1, <3>3 DEF AdmissionTyped
      <4>2. promise[c].seen \in Nat
        BY <2>c
      <4> HIDE DEF g, h, a
      <4> QED
        BY <2>3, <2>4, <2>6, <3>1, <3>3, <4>1, <4>2
    <3>4. CASE ClientOf(c) = k /\ ~Room(h)
      <4>1. hits'[k] = h /\ admitted'[k] = a
        <5> HIDE DEF h
        <5> QED
          BY <2>1, <2>2, <3>4 DEF AdmissionTyped
      <4>2. Holds(h, a, promise[c])
        BY <2>8, <2>c, <3>1, <3>4
      <4> HIDE DEF g, h, a
      <4> QED
        BY <2>2, <2>4, <3>1, <3>4, <4>1, <4>2 DEF Room
    <3> QED
      BY <3>2, <3>3, <3>4
  <2> QED
    BY <2>9, <2>10
<1>2. CASE Restart
  <2> SUFFICES ASSUME NEW c \in Requests, at'[c] = "limited"
               PROVE  Holds(hits[ClientOf(c)], admitted[ClientOf(c)], promise[c])'
    BY DEF PromiseInv
  <2>1. /\ hits'[ClientOf(c)'] = <<>> /\ admitted'[ClientOf(c)'] = <<>>
        /\ promise'[c].seen = 0 /\ UNCHANGED setup /\ at[c] = "limited"
    <3>1. ClientOf(c)' = ClientOf(c)
      BY <1>2 DEF Restart, ClientOf
    <3> QED
      BY <1>2, <3>1, ClientTyped DEF Restart, AdmissionTyped
  <2>2. setup.limit > 0
    BY <2>1 DEF ClockInv
  <2> QED
    BY <2>1, <2>2 DEF Room
<1>3. ASSUME NEW q \in Requests, Verify(q) \/ ReadClock(q) \/ CheckBudget(q) \/ CreateRun(q)
      PROVE  PromiseInv'
  <2>1. /\ UNCHANGED <<setup, hits, admitted, promise>>
        /\ \E to \in Steps \ {"limited"} : at' = [at EXCEPT ![q] = to]
        /\ \A c \in Requests \ {q} : key'[c] = key[c]
        /\ UNCHANGED key \/ at[q] = "idle"
    BY <1>3 DEF Verify, ReadClock, CheckBudget, CreateRun, Go, Steps, limiter, AdmissionTyped
  <2>2. \A c \in Requests : at'[c] = "limited" => at[c] = "limited" /\ ClientOf(c)' = ClientOf(c)
    BY <2>1 DEF AdmissionTyped, ClientOf
  <2> QED
    BY <2>1, <2>2 DEF PromiseInv, Room
<1>4. CASE UNCHANGED admissionVars \/ EndRun \/ Midnight \/ Tick
  <2>1. UNCHANGED <<setup, hits, admitted, promise, at, key>>
    BY <1>4 DEF admissionVars, EndRun, Midnight, Tick, limiter, request
  <2> QED
    BY <2>1 DEF PromiseInv, Room, ClientOf
<1> QED
  BY <1>1, <1>2, <1>3, <1>4 DEF AdmissionNext

-----------------------------------------------------------------------------
(* The budget.                                                             *)

LEMMA LeftKept ==
  ASSUME AdmissionTyped, LeftInv, [AdmissionNext]_admissionVars
  PROVE  LeftInv'
<1>1. ASSUME NEW q \in Requests, Verify(q) \/ ReadClock(q) \/ Check(q) PROVE LeftInv'
  <2>1. /\ UNCHANGED left /\ at[q] # "create"
        /\ \E to \in Steps \ {"create"} : at' = [at EXCEPT ![q] = to]
    BY <1>1 DEF Verify, ReadClock, Check, Go, Steps
  <2> QED
    BY <2>1 DEF AdmissionTyped, LeftInv
<1>2. ASSUME NEW q \in Requests, CheckBudget(q) PROVE LeftInv'
  <2>1. \/ /\ UNCHANGED left /\ at[q] # "create"
           /\ \E to \in Steps \ {"create"} : at' = [at EXCEPT ![q] = to]
        \/ /\ at' = [at EXCEPT ![q] = "create"]
           /\ \E n \in {1, Batch} : left' = [left EXCEPT ![q] = n]
    BY <1>2 DEF CheckBudget, Go, Steps
  <2>2. \A n \in {1, Batch} : n > 0
    BY AdmissionAssumption
  <2> QED
    BY <2>1, <2>2 DEF AdmissionTyped, LeftInv
<1>3. ASSUME NEW q \in Requests, CreateRun(q) PROVE LeftInv'
  <2>1. left[q] \in Nat /\ left[q] > 0
    BY <1>3 DEF CreateRun, Go, AdmissionTyped, LeftInv
  <2> QED
    BY <1>3, <2>1 DEF CreateRun, Go, AdmissionTyped, LeftInv
<1>4. CASE Restart
  BY <1>4 DEF Restart, AdmissionTyped, LeftInv
<1>5. CASE UNCHANGED admissionVars \/ EndRun \/ Midnight \/ Tick
  BY <1>5 DEF admissionVars, EndRun, Midnight, Tick, request, LeftInv
<1> QED
  BY <1>1, <1>2, <1>3, <1>4, <1>5 DEF AdmissionNext

LEMMA UncountedKept ==
  ASSUME AdmissionTyped, UncountedInv, [AdmissionNext]_admissionVars
  PROVE  UncountedInv'
<1> SUFFICES ASSUME setup.budget = 0, UNCHANGED setup PROVE UncountedInv'
  BY DEF UncountedInv, AdmissionNext, admissionVars, Verify, ReadClock, Check, CheckBudget,
     CreateRun, EndRun, Tick, Midnight, Restart
<1>1. /\ \A q \in Requests : at[q] # "create"
      /\ \A w \in Workspaces : \A d \in Days : flight[w][d] = 0 /\ recorded[w][d] = 0
  BY DEF UncountedInv
<1>2. ASSUME NEW q \in Requests, Verify(q) \/ ReadClock(q) \/ Check(q) \/ CheckBudget(q)
      PROVE  UncountedInv'
  <2>1. /\ UNCHANGED <<flight, recorded>>
        /\ \E to \in Steps \ {"create"} : at' = [at EXCEPT ![q] = to]
    BY <1>2 DEF Verify, ReadClock, Check, CheckBudget, Go, Steps, spend
  <2> QED
    BY <1>1, <2>1 DEF AdmissionTyped, UncountedInv
<1>3. \A q \in Requests : ~CreateRun(q)
  BY <1>1 DEF CreateRun, Go
<1>4. ~EndRun
  BY <1>1 DEF EndRun
<1>5. CASE Restart
  BY <1>1, <1>5 DEF Restart, AdmissionTyped, UncountedInv
<1>6. CASE UNCHANGED admissionVars \/ Midnight \/ Tick
  BY <1>1, <1>6 DEF admissionVars, Midnight, Tick, request, spend, UncountedInv
<1> QED
  BY <1>2, <1>3, <1>4, <1>5, <1>6 DEF AdmissionNext

(* Of all that waits in S, k more of one request are k more if it is in S. *)
LEMMA WaitingGrows ==
  ASSUME NEW S, S \subseteq Requests, NEW f \in [Requests -> Nat], NEW g \in [Requests -> Nat],
         NEW q \in Requests, NEW k \in Nat, g[q] = f[q] + k,
         \A p \in Requests \ {q} : g[p] = f[p]
  PROVE  /\ q \in S => Total(g, S) = Total(f, S) + k
         /\ q \notin S => Total(g, S) = Total(f, S)
<1>1. IsFiniteSet(S)
  BY AdmissionAssumption, FS_Subset
<1>2. (\A x \in S : f[x] \in Nat) /\ (\A x \in S \ {q} : g[x] = f[x])
  OBVIOUS
<1>3. q \in S => Total(g, S) = Total(f, S) + k
  BY <1>1, <1>2, TotalGrows
<1>4. q \notin S => Total(g, S) = Total(f, S)
  BY <1>2, TotalSame
<1> QED
  BY <1>3, <1>4

LEMMA DaysFinite == IsFiniteSet(Days) /\ Days \subseteq Nat
<1>1. 1 \in Int /\ MaxDay \in Int
  BY AdmissionAssumption
<1> QED
  BY <1>1, FS_Interval DEF Days

(* The numbers a step about the workspace w is about.                      *)
LEMMA SpendTyped ==
  ASSUME AdmissionTyped, NEW w \in Workspaces
  PROVE  /\ setup.budget \in Nat /\ MaxTokens \in Nat /\ MaxTokens > 0 /\ peak[w] \in Nat
         /\ day \in Days /\ day \in Nat /\ Days \subseteq Nat
         /\ Waiting(w) \in Nat /\ Total(flight[w], Days) \in Nat
         /\ flight[w] \in [Days -> Nat]
         /\ \A d \in Days : /\ flight[w][d] \in Nat /\ recorded[w][d] \in Nat
                            /\ flight[w][d] <= Total(flight[w], Days)
<1>1. /\ setup.budget \in Nat /\ MaxTokens \in Nat /\ MaxTokens > 0 /\ peak[w] \in Nat
      /\ day \in Days /\ day \in Nat /\ Days \subseteq Nat
      /\ Waiting(w) \in Nat /\ Total(flight[w], Days) \in Nat
      /\ flight[w] \in [Days -> Nat]
  <2>1. setup.budget \in Nat /\ MaxTokens \in Nat /\ MaxTokens > 0
    BY AdmissionAssumption DEF AdmissionTyped
  <2>2. day \in Days /\ day \in Nat /\ Days \subseteq Nat
    BY TodayTyped, DaysFinite DEF AdmissionTyped
  <2> QED
    BY <2>1, <2>2, UnderwayTyped DEF AdmissionTyped
<1>2. \A x \in Days : flight[w][x] \in Nat /\ recorded[w][x] \in Nat
  BY DEF AdmissionTyped
<1>3. \A d \in Days : flight[w][d] <= Total(flight[w], Days)
  BY <1>2, DaysFinite, TotalMember
<1> QED
  BY <1>1, <1>2, <1>3

(* A request that passes the check puts n runs before its workspace.       *)
LEMMA SpendChecked ==
  ASSUME BudgetInv, AdmissionTyped', setup.budget > 0, NEW w \in Workspaces, WithinPeak(w),
         NEW q \in Requests, CheckBudget(q)
  PROVE  WithinPeak(w)'
<1> DEFINE v == workspace[q]
<1>0. /\ UNCHANGED <<setup, day, workspace, flight, recorded>> /\ at[q] = "budget"
      /\ setup.budget # 0
  BY SpendTyped DEF CheckBudget, Go, time, BudgetInv
<1>1. CASE UNCHANGED <<left, peak>>
  BY <1>0, <1>1 DEF WithinPeak, Waiting
<1>2. ASSUME NEW n \in {1, Batch}, Affords(v), left' = [left EXCEPT ![q] = n],
             peak' = [peak EXCEPT ![v] = IF peak[v] < Underway(v) + n THEN Underway(v) + n ELSE peak[v]]
      PROVE  WithinPeak(w)'
  <2>1. n \in Nat /\ left[q] = 0 /\ left' \in [Requests -> Nat] /\ v \in Workspaces
        /\ left \in [Requests -> Nat]
    <3>1. n \in Nat
      BY AdmissionAssumption
    <3>2. left[q] = 0 /\ v \in Workspaces /\ left \in [Requests -> Nat]
      BY <1>0 DEF BudgetInv, LeftInv, AdmissionTyped
    <3> QED
      BY <1>2, <3>1, <3>2
  <2>2. Waiting(w)' = Waiting(w) + IF v = w THEN n ELSE 0
    <3>1. left'[q] = left[q] + n /\ \A p \in Requests \ {q} : left'[p] = left[p]
      BY <1>2, <2>1
    <3> QED
      <4> DEFINE S == {p \in Requests : workspace[p] = w}
      <4>1. S \subseteq Requests /\ (q \in S <=> v = w)
        OBVIOUS
      <4>2. Waiting(w) = Total(left, S) /\ Waiting(w)' = Total(left', S)
        BY <1>0 DEF Waiting
      <4> HIDE DEF S, v
      <4>3. /\ q \in S => Total(left', S) = Total(left, S) + n
            /\ q \notin S => Total(left', S) = Total(left, S)
        BY <2>1, <3>1, <4>1, WaitingGrows
      <4>4. Waiting(w) \in Nat
        BY UnderwayTyped DEF BudgetInv
      <4> QED
        BY <2>1, <4>1, <4>2, <4>3, <4>4
  <2> DEFINE T == Total(flight[w], Days)
             bound == setup.budget + MaxTokens * peak[w]
             bound2 == setup.budget + MaxTokens * peak'[w]
  <2>3. /\ setup.budget \in Nat /\ MaxTokens \in Nat /\ peak[w] \in Nat /\ day \in Nat
        /\ Days \subseteq Nat /\ Waiting(w) \in Nat /\ T \in Nat
        /\ \A d \in Days : flight[w][d] \in Nat /\ recorded[w][d] \in Nat /\ flight[w][d] <= T
    BY SpendTyped DEF BudgetInv
  <2>4. /\ Waiting(w) + T <= peak[w]
        /\ \A d \in Days :
             /\ d < day => recorded[w][d] + MaxTokens * flight[w][d] < bound
             /\ d = day => recorded[w][d] + MaxTokens * (flight[w][d] + Waiting(w)) < bound
             /\ d > day => flight[w][d] = 0 /\ recorded[w][d] = 0
    BY DEF WithinPeak
  <2> SUFFICES /\ Waiting(w)' + T <= peak'[w]
               /\ \A d \in Days :
                    /\ d < day => recorded[w][d] + MaxTokens * flight[w][d] < bound2
                    /\ d = day => recorded[w][d] + MaxTokens * (flight[w][d] + Waiting(w)') < bound2
                    /\ d > day => flight[w][d] = 0 /\ recorded[w][d] = 0
    BY <1>0 DEF WithinPeak
  <2>5. CASE v # w
    <3>1. Waiting(w)' = Waiting(w) /\ peak'[w] = peak[w]
      BY <1>2, <2>2, <2>3, <2>5 DEF BudgetInv, AdmissionTyped
    <3> QED
      BY <2>4, <3>1
  <2>6. CASE v = w
    <3>1. /\ Waiting(w)' = Waiting(w) + n /\ peak'[w] \in Nat
          /\ Waiting(w) + n + T <= peak'[w] /\ peak[w] <= peak'[w]
      <4>1. peak'[w] = IF peak[w] < Waiting(w) + T + n THEN Waiting(w) + T + n ELSE peak[w]
        BY <1>2, <2>1, <2>6 DEF BudgetInv, AdmissionTyped, Underway
      <4> QED
        BY <2>1, <2>2, <2>3, <2>6, <4>1
    <3>2. MaxTokens * peak[w] <= MaxTokens * peak'[w]
      BY <2>3, <3>1, Monotone
    <3>3. ASSUME NEW d \in Days, d < day
          PROVE  recorded[w][d] + MaxTokens * flight[w][d] < bound2
      <4>1. MaxTokens * flight[w][d] \in Nat /\ MaxTokens * peak[w] \in Nat /\ MaxTokens * peak'[w] \in Nat
        BY <2>3, <3>1, Monotone
      <4>2. recorded[w][d] + MaxTokens * flight[w][d] < bound
        BY <2>4, <3>3
      <4> QED
        BY <2>3, <3>2, <4>1, <4>2
    <3>4. recorded[w][day] + MaxTokens * (flight[w][day] + Waiting(w)') < bound2
      <4>1. day \in Days /\ recorded[w][day] < setup.budget
        BY <1>2, <2>6 DEF Affords, BudgetInv, AdmissionTyped
      <4>2. /\ flight[w][day] + Waiting(w)' \in Nat /\ recorded[w][day] \in Nat
            /\ flight[w][day] + Waiting(w)' <= peak'[w]
        BY <2>1, <2>3, <3>1, <4>1
      <4>3. /\ MaxTokens * (flight[w][day] + Waiting(w)') <= MaxTokens * peak'[w]
            /\ MaxTokens * (flight[w][day] + Waiting(w)') \in Nat
            /\ MaxTokens * peak'[w] \in Nat
        BY <2>3, <3>1, <4>2, Monotone
      <4> QED
        BY <2>3, <4>1, <4>2, <4>3
    <3> HIDE DEF bound, bound2, T
    <3> QED
      BY <2>1, <2>3, <2>4, <3>1, <3>3, <3>4
  <2> QED
    BY <2>5, <2>6
<1>3. \/ UNCHANGED <<left, peak>>
      \/ /\ Affords(v)
         /\ \E n \in {1, Batch} :
              /\ left' = [left EXCEPT ![q] = n]
              /\ peak' = [peak EXCEPT ![v] = IF peak[v] < Underway(v) + n THEN Underway(v) + n ELSE peak[v]]
  BY <1>0 DEF CheckBudget
<1> QED
  BY <1>1, <1>2, <1>3

(* A run made moves from what waits to what is under way today.            *)
LEMMA SpendCreated ==
  ASSUME BudgetInv, AdmissionTyped', NEW w \in Workspaces, WithinPeak(w),
         NEW q \in Requests, CreateRun(q)
  PROVE  WithinPeak(w)'
<1> DEFINE v == workspace[q]
           T == Total(flight[w], Days)
           bound == setup.budget + MaxTokens * peak[w]
           S == {p \in Requests : workspace[p] = w}
<1>0. /\ UNCHANGED <<setup, day, workspace, peak, recorded>> /\ at[q] = "create"
      /\ left' = [left EXCEPT ![q] = left[q] - 1]
      /\ flight' = [flight EXCEPT ![v] = [flight[v] EXCEPT ![day] = flight[v][day] + 1]]
  BY DEF CreateRun, Go, time
<1>1. /\ left[q] \in Nat /\ left[q] > 0 /\ v \in Workspaces
      /\ left \in [Requests -> Nat] /\ left' \in [Requests -> Nat]
      /\ flight \in [Workspaces -> [Days -> Nat]]
  BY <1>0 DEF BudgetInv, LeftInv, AdmissionTyped
<1>2. /\ setup.budget \in Nat /\ MaxTokens \in Nat /\ peak[w] \in Nat
      /\ day \in Days /\ day \in Nat /\ Days \subseteq Nat
      /\ Waiting(w) \in Nat /\ T \in Nat
      /\ flight[w] \in [Days -> Nat] /\ flight'[w] \in [Days -> Nat]
  <2>1. flight'[w] \in [Days -> Nat]
    BY DEF AdmissionTyped, Workspaces, Days
  <2> QED
    BY <2>1, SpendTyped DEF BudgetInv
<1>3. /\ Waiting(w) + T <= peak[w]
      /\ \A d \in Days :
           /\ d < day => recorded[w][d] + MaxTokens * flight[w][d] < bound
           /\ d = day => recorded[w][d] + MaxTokens * (flight[w][d] + Waiting(w)) < bound
           /\ d > day => flight[w][d] = 0 /\ recorded[w][d] = 0
  BY DEF WithinPeak
<1>4. Waiting(w) = Waiting(w)' + (IF v = w THEN 1 ELSE 0) /\ Waiting(w)' \in Nat
  <2>1. S \subseteq Requests /\ (q \in S <=> v = w)
    OBVIOUS
  <2>2. Waiting(w) = Total(left, S) /\ Waiting(w)' = Total(left', S)
    BY <1>0 DEF Waiting
  <2>3. left[q] = left'[q] + 1 /\ \A p \in Requests \ {q} : left[p] = left'[p]
    BY <1>0, <1>1
  <2> HIDE DEF S, v
  <2>4. /\ q \in S => Total(left, S) = Total(left', S) + 1
        /\ q \notin S => Total(left, S) = Total(left', S)
    <3> DEFINE one == 1
    <3>1. one \in Nat /\ left[q] = left'[q] + one
      BY <2>3
    <3> HIDE DEF one
    <3>2. /\ q \in S => Total(left, S) = Total(left', S) + one
          /\ q \notin S => Total(left, S) = Total(left', S)
      <4>1. /\ S \subseteq Requests /\ left' \in [Requests -> Nat] /\ left \in [Requests -> Nat]
            /\ \A p \in Requests \ {q} : left[p] = left'[p]
        BY <1>1, <2>1, <2>3
      <4> QED
        BY <3>1, <4>1, WaitingGrows
    <3> QED
      BY <3>2 DEF one
  <2>5. Total(left', S) \in Nat
    <3>1. IsFiniteSet(S) /\ \A p \in S : left'[p] \in Nat
      BY <1>1, <2>1, AdmissionAssumption, FS_Subset
    <3> QED
      BY <3>1, UnitsFinite
  <2> QED
    BY <2>1, <2>2, <2>4, <2>5
<1>5. CASE v # w
  <2>1. flight'[w] = flight[w] /\ Waiting(w)' = Waiting(w)
    BY <1>0, <1>1, <1>2, <1>4, <1>5
  <2> QED
    BY <1>0, <1>3, <2>1 DEF WithinPeak
<1>6. CASE v = w
  <2>1. /\ flight'[w][day] = flight[w][day] + 1
        /\ \A d \in Days \ {day} : flight'[w][d] = flight[w][d]
    BY <1>0, <1>1, <1>2, <1>6
  <2>2. Waiting(w) = Waiting(w)' + 1
    BY <1>4, <1>6
  <2>3. Total(flight'[w], Days) = T + 1
    <3>1. day \in Days /\ \A d \in Days : flight[w][d] \in Nat
      BY <1>2
    <3> QED
      BY <2>1, <3>1, DaysFinite, TotalGrows
  <2>4. flight'[w][day] + Waiting(w)' = flight[w][day] + Waiting(w)
    BY <1>2, <1>4, <2>1, <2>2
  <2>5. Waiting(w)' + Total(flight'[w], Days) <= peak'[w]
    BY <1>0, <1>2, <1>3, <1>4, <2>2, <2>3
  <2>6. /\ recorded' = recorded /\ day' = day
        /\ setup'.budget + MaxTokens * peak'[w] = setup.budget + MaxTokens * peak[w]
    BY <1>0
  <2>7. \A d \in Days :
          /\ d < day => d # day
          /\ d > day => d # day
    BY <1>2
  <2> HIDE DEF bound, T
  <2> QED
    BY <1>3, <2>1, <2>4, <2>5, <2>6, <2>7 DEF WithinPeak, bound
<1> QED
  BY <1>5, <1>6

(* A run that ends records no more than was set aside for it.              *)
LEMMA SpendEnded ==
  ASSUME BudgetInv, AdmissionTyped', NEW w \in Workspaces, WithinPeak(w), EndRun
  PROVE  WithinPeak(w)'
<1> DEFINE T == Total(flight[w], Days)
           bound == setup.budget + MaxTokens * peak[w]
<1>1. PICK v \in Workspaces, e \in Days, t \in 0..MaxTokens :
        /\ flight[v][e] > 0
        /\ flight' = [flight EXCEPT ![v] = [flight[v] EXCEPT ![e] = flight[v][e] - 1]]
        /\ recorded' = [recorded EXCEPT ![v] = [recorded[v] EXCEPT ![e] = recorded[v][e] + t]]
  BY DEF EndRun
<1>2. /\ setup.budget \in Nat /\ MaxTokens \in Nat /\ peak[w] \in Nat
      /\ day \in Days /\ day \in Nat /\ Days \subseteq Nat
      /\ Waiting(w) \in Nat /\ T \in Nat /\ Total(flight'[w], Days) \in Nat
      /\ flight[w] \in [Days -> Nat] /\ recorded[w] \in [Days -> Nat]
      /\ flight'[w] \in [Days -> Nat]
      /\ flight \in [Workspaces -> [Days -> Nat]] /\ recorded \in [Workspaces -> [Days -> Nat]]
  <2>1. /\ flight'[w] \in [Days -> Nat] /\ recorded[w] \in [Days -> Nat]
        /\ flight \in [Workspaces -> [Days -> Nat]] /\ recorded \in [Workspaces -> [Days -> Nat]]
    BY DEF AdmissionTyped, Workspaces, Days, BudgetInv
  <2>2. \A d \in Days : flight'[w][d] \in Nat
    BY <2>1
  <2>3. Total(flight'[w], Days) \in Nat
    BY <2>2, DaysFinite, UnitsFinite
  <2> QED
    BY <2>1, <2>3, SpendTyped DEF BudgetInv
<1>3. /\ Waiting(w) + T <= peak[w]
      /\ \A d \in Days :
           /\ d < day => recorded[w][d] + MaxTokens * flight[w][d] < bound
           /\ d = day => recorded[w][d] + MaxTokens * (flight[w][d] + Waiting(w)) < bound
           /\ d > day => flight[w][d] = 0 /\ recorded[w][d] = 0
  BY DEF WithinPeak
<1>4. UNCHANGED <<setup, day, peak>> /\ Waiting(w)' = Waiting(w)
  BY DEF EndRun, time, request, Waiting
<1>5. CASE v # w
  <2>1. flight'[w] = flight[w] /\ recorded'[w] = recorded[w]
    BY <1>1, <1>2, <1>5
  <2> QED
    BY <1>3, <1>4, <2>1 DEF WithinPeak
<1>6. CASE v = w
  <2>0. /\ flight[w][e] \in Nat /\ flight[w][e] > 0 /\ recorded[w][e] \in Nat
        /\ t \in Nat /\ t <= MaxTokens
    BY <1>1, <1>2, <1>6
  <2>1. /\ flight'[w][e] = flight[w][e] - 1 /\ recorded'[w][e] = recorded[w][e] + t
        /\ \A d \in Days \ {e} : flight'[w][d] = flight[w][d] /\ recorded'[w][d] = recorded[w][d]
    BY <1>1, <1>2, <1>6
  <2>2. T = Total(flight'[w], Days) + 1
    <3>1. /\ \A d \in Days : flight'[w][d] \in Nat
          /\ \A d \in Days \ {e} : flight[w][d] = flight'[w][d]
      BY <1>2, <2>1
    <3>2. flight[w][e] = flight'[w][e] + 1
      BY <2>0, <2>1
    <3> QED
      BY <3>1, <3>2, DaysFinite, TotalGrows
  <2>3. Waiting(w)' + Total(flight'[w], Days) <= peak'[w]
    BY <1>2, <1>3, <1>4, <2>2
  <2>4. ASSUME NEW x \in Nat
        PROVE  recorded'[w][e] + MaxTokens * (flight'[w][e] + x)
                 <= recorded[w][e] + MaxTokens * (flight[w][e] + x)
    <3> DEFINE y == flight'[w][e] + x
    <3>1. y \in Nat /\ flight[w][e] + x = y + 1
      BY <2>0, <2>1
    <3> HIDE DEF y
    <3>2. MaxTokens * (y + 1) = MaxTokens * y + MaxTokens /\ MaxTokens * y \in Nat
      BY <1>2, <3>1, Monotone
    <3> QED
      BY <1>2, <2>0, <2>1, <3>1, <3>2 DEF y
  <2>5. ASSUME e < day
        PROVE  recorded'[w][e] + MaxTokens * flight'[w][e] < bound
    <3>1. /\ flight'[w][e] + 0 = flight'[w][e] /\ flight[w][e] + 0 = flight[w][e]
          /\ flight'[w][e] \in Nat /\ recorded'[w][e] \in Nat
      BY <1>2, <2>0, <2>1
    <3>2. recorded'[w][e] + MaxTokens * flight'[w][e] <= recorded[w][e] + MaxTokens * flight[w][e]
      BY <2>4, <3>1
    <3>3. recorded[w][e] + MaxTokens * flight[w][e] < bound
      BY <1>3, <2>5
    <3>4. /\ MaxTokens * flight'[w][e] \in Nat /\ MaxTokens * flight[w][e] \in Nat
          /\ MaxTokens * peak[w] \in Nat
      BY <1>2, <2>0, <3>1, Monotone
    <3> QED
      BY <1>2, <2>0, <3>1, <3>2, <3>3, <3>4
  <2>6. ASSUME e = day
        PROVE  recorded'[w][e] + MaxTokens * (flight'[w][e] + Waiting(w)') < bound
    <3> DEFINE lo == MaxTokens * (flight'[w][e] + Waiting(w))
               hi == MaxTokens * (flight[w][e] + Waiting(w))
    <3>1. /\ flight'[w][e] + Waiting(w) \in Nat /\ flight[w][e] + Waiting(w) \in Nat
          /\ recorded'[w][e] \in Nat
      BY <1>2, <2>0, <2>1
    <3>2. recorded'[w][e] + lo <= recorded[w][e] + hi
      BY <1>2, <2>4
    <3>3. recorded[w][e] + hi < bound
      BY <1>3, <2>6
    <3>4. lo \in Nat /\ hi \in Nat /\ MaxTokens * peak[w] \in Nat
      BY <1>2, <3>1, Monotone
    <3> HIDE DEF lo, hi
    <3>5. recorded'[w][e] + lo < bound
      BY <1>2, <2>0, <3>1, <3>2, <3>3, <3>4
    <3> QED
      BY <1>4, <3>5 DEF lo
  <2>7. ~(e > day)
    BY <1>3, <2>0
  <2>8. /\ day' = day /\ setup'.budget + MaxTokens * peak'[w] = bound
    BY <1>4
  <2> HIDE DEF bound, T
  <2>9. \A d \in Days :
          /\ d < day => recorded'[w][d] + MaxTokens * flight'[w][d] < bound
          /\ d = day => recorded'[w][d] + MaxTokens * (flight'[w][d] + Waiting(w)') < bound
          /\ d > day => flight'[w][d] = 0 /\ recorded'[w][d] = 0
    <3> SUFFICES ASSUME NEW d \in Days, d # e
        PROVE
          /\ d < day => recorded'[w][d] + MaxTokens * flight'[w][d] < bound
          /\ d = day => recorded'[w][d] + MaxTokens * (flight'[w][d] + Waiting(w)') < bound
          /\ d > day => flight'[w][d] = 0 /\ recorded'[w][d] = 0
      BY <2>5, <2>6, <2>7
    <3>1. flight'[w][d] = flight[w][d] /\ recorded'[w][d] = recorded[w][d]
      BY <2>1
    <3> QED
      BY <1>3, <1>4, <3>1
  <2> QED
    BY <2>3, <2>8, <2>9 DEF WithinPeak
<1> QED
  BY <1>5, <1>6

(* At midnight what waits will be dated the new day, of which nothing is   *)
(* known yet; a restart loses what waits and what is under way.            *)
LEMMA SpendTime ==
  ASSUME BudgetInv, AdmissionTyped', setup.budget > 0, NEW w \in Workspaces, WithinPeak(w),
         Midnight \/ Restart
  PROVE  WithinPeak(w)'
<1> DEFINE T == Total(flight[w], Days)
           bound == setup.budget + MaxTokens * peak[w]
<1>1. /\ setup.budget \in Nat /\ MaxTokens \in Nat /\ peak[w] \in Nat
      /\ day \in Days /\ day \in Nat /\ Days \subseteq Nat
      /\ Waiting(w) \in Nat /\ T \in Nat
      /\ \A d \in Days : flight[w][d] \in Nat /\ recorded[w][d] \in Nat /\ flight[w][d] <= T
  BY SpendTyped DEF BudgetInv
<1>2. /\ Waiting(w) + T <= peak[w]
      /\ \A d \in Days :
           /\ d < day => recorded[w][d] + MaxTokens * flight[w][d] < bound
           /\ d = day => recorded[w][d] + MaxTokens * (flight[w][d] + Waiting(w)) < bound
           /\ d > day => flight[w][d] = 0 /\ recorded[w][d] = 0
  BY DEF WithinPeak
<1>3. ASSUME NEW d \in Days, d <= day, NEW x \in Nat, x <= flight[w][d]
      PROVE  recorded[w][d] + MaxTokens * x < bound
  <2> DEFINE y == IF d = day THEN flight[w][d] + Waiting(w) ELSE flight[w][d]
  <2>1. y \in Nat /\ x <= y
    BY <1>1, <1>3
  <2>2. recorded[w][d] + MaxTokens * y < bound
    BY <1>1, <1>2, <1>3
  <2> HIDE DEF y
  <2>3. MaxTokens * x <= MaxTokens * y /\ MaxTokens * x \in Nat /\ MaxTokens * y \in Nat
    BY <1>1, <1>3, <2>1, Monotone
  <2>4. MaxTokens * peak[w] \in Nat
    BY <1>1, Monotone
  <2> QED
    BY <1>1, <2>2, <2>3, <2>4
<1>4. CASE Midnight
  <2>1. /\ UNCHANGED <<setup, flight, recorded, peak>> /\ day' = day + 1
        /\ Waiting(w)' = Waiting(w)
    BY <1>4 DEF Midnight, spend, request, Waiting
  <2>2. MaxTokens * (0 + Waiting(w)) < bound
    <3>1. Waiting(w) <= peak[w]
      BY <1>1, <1>2
    <3>2. MaxTokens * Waiting(w) <= MaxTokens * peak[w] /\ MaxTokens * Waiting(w) \in Nat
      BY <1>1, <3>1, Monotone
    <3>3. MaxTokens * peak[w] \in Nat
      BY <1>1, Monotone
    <3> QED
      BY <1>1, <3>2, <3>3
  <2>3. \A d \in Days :
          /\ d < day + 1 => recorded[w][d] + MaxTokens * flight[w][d] < bound
          /\ d = day + 1 => recorded[w][d] + MaxTokens * (flight[w][d] + Waiting(w)) < bound
          /\ d > day + 1 => flight[w][d] = 0 /\ recorded[w][d] = 0
    <3> SUFFICES ASSUME NEW d \in Days
        PROVE
          /\ d < day + 1 => recorded[w][d] + MaxTokens * flight[w][d] < bound
          /\ d = day + 1 => recorded[w][d] + MaxTokens * (flight[w][d] + Waiting(w)) < bound
          /\ d > day + 1 => flight[w][d] = 0 /\ recorded[w][d] = 0
      OBVIOUS
    <3>1. d \in Nat /\ flight[w][d] \in Nat
      BY <1>1
    <3>2. CASE d < day + 1
      <4>1. d <= day /\ flight[w][d] <= flight[w][d]
        BY <1>1, <3>1, <3>2
      <4>2. recorded[w][d] + MaxTokens * flight[w][d] < bound
        BY <1>3, <3>1, <4>1
      <4> QED
        BY <1>1, <3>1, <3>2, <4>2
    <3>3. CASE ~(d < day + 1)
      <4>1. flight[w][d] = 0 /\ recorded[w][d] = 0
        BY <1>1, <1>2, <3>1, <3>3
      <4>2. 0 + MaxTokens * (0 + Waiting(w)) < bound
        BY <1>1, <2>2
      <4> QED
        BY <3>3, <4>1, <4>2
    <3> QED
      BY <3>2, <3>3
  <2> QED
    BY <1>2, <2>1, <2>3 DEF WithinPeak
<1>5. CASE Restart
  <2>1. /\ UNCHANGED <<setup, recorded, peak, day, workspace>>
        /\ \A d \in Days : flight'[w][d] = 0
        /\ \A q \in Requests : left'[q] = 0
    BY <1>5 DEF Restart, time
  <2>2. Waiting(w)' = 0 /\ Total(flight'[w], Days) = 0
    BY <2>1, TotalZero DEF Waiting
  <2>3. \A d \in Days : d <= day => recorded[w][d] + MaxTokens * 0 < bound
    <3>1. \A d \in Days : 0 \in Nat /\ 0 <= flight[w][d]
      BY <1>1
    <3> QED
      BY <1>3, <3>1
  <2>4. \A d \in Days :
          /\ d < day => recorded[w][d] + MaxTokens * 0 < bound
          /\ d = day => recorded[w][d] + MaxTokens * (0 + 0) < bound
          /\ d > day => recorded[w][d] = 0
    <3>1. \A d \in Days : (d < day => d <= day) /\ (d = day => d <= day) /\ 0 + 0 = 0
      BY <1>1
    <3> QED
      BY <1>2, <2>3, <3>1
  <2>5. 0 + 0 <= peak[w]
    BY <1>1
  <2> QED
    BY <2>1, <2>2, <2>4, <2>5 DEF WithinPeak
<1> QED
  BY <1>4, <1>5

LEMMA SpendKept ==
  ASSUME BudgetInv, AdmissionTyped', [AdmissionNext]_admissionVars
  PROVE  SpendInv'
<1>1. UNCHANGED setup
  BY DEF AdmissionNext, admissionVars, Verify, ReadClock, Check, CheckBudget, CreateRun, EndRun,
     Tick, Midnight, Restart
<1> SUFFICES ASSUME setup.budget > 0, NEW w \in Workspaces PROVE WithinPeak(w)'
  BY <1>1 DEF SpendInv, Workspaces
<1>2. WithinPeak(w)
  BY DEF BudgetInv, SpendInv
<1>3. ASSUME \/ UNCHANGED admissionVars \/ Tick
             \/ \E q \in Requests : ReadClock(q) \/ Check(q)
      PROVE  WithinPeak(w)'
  <2>1. UNCHANGED <<setup, day, workspace, left, flight, recorded, peak>>
    BY <1>3 DEF admissionVars, Tick, ReadClock, Check, time, request, spend
  <2> QED
    BY <1>2, <2>1 DEF WithinPeak, Waiting
<1>4. ASSUME NEW q \in Requests, Verify(q) PROVE WithinPeak(w)'
  <2>1. /\ UNCHANGED <<setup, day, left, flight, recorded, peak>> /\ at[q] = "idle"
        /\ \A p \in Requests \ {q} : workspace'[p] = workspace[p]
    BY <1>4 DEF Verify, Go, time, spend, BudgetInv, AdmissionTyped
  <2>2. left[q] = 0
    BY <2>1 DEF BudgetInv, LeftInv
  <2>3. Waiting(w)' = Waiting(w)
    <3> DEFINE S(ws) == {p \in Requests : ws[p] = w}
               U(ws) == UNION {{p} \X (1..left[p]) : p \in S(ws)}
    <3>1. \A ws : \A u : u \in U(ws) <=> \E p \in Requests : ws[p] = w /\ u \in {p} \X (1..left[p])
      OBVIOUS
    <3>2. {q} \X (1..left[q]) = {}
      BY <2>2
    <3>3. U(workspace') = U(workspace)
      BY <2>1, <3>1, <3>2
    <3> QED
      BY <2>1, <3>3 DEF Waiting, Total
  <2> QED
    BY <1>2, <2>1, <2>3 DEF WithinPeak
<1>5. ASSUME NEW q \in Requests, CheckBudget(q) PROVE WithinPeak(w)'
  BY <1>2, <1>5, SpendChecked
<1>6. ASSUME NEW q \in Requests, CreateRun(q) PROVE WithinPeak(w)'
  BY <1>2, <1>6, SpendCreated
<1>7. CASE EndRun
  BY <1>2, <1>7, SpendEnded
<1>8. CASE Midnight \/ Restart
  BY <1>2, <1>8, SpendTime
<1> QED
  BY <1>3, <1>4, <1>5, <1>6, <1>7, <1>8 DEF AdmissionNext

-----------------------------------------------------------------------------
(* Everything together.                                                    *)

AdmissionInv == BudgetInv /\ ClockInv /\ WindowInv /\ WindowBounded /\ PromiseInv

LEMMA AdmissionStarts == AdmissionInit => AdmissionInv
<1> SUFFICES ASSUME AdmissionInit PROVE AdmissionInv
  OBVIOUS
<1>1. AdmissionTyped
  <2>1. <<>> \in Seq(Nat) /\ 1 \in Days /\ "default" \in Workspaces
    <3>1. MaxDay \in Nat /\ 1 <= MaxDay
      BY AdmissionAssumption
    <3> QED
      BY <3>1, EmptySeq DEF Days, Workspaces
  <2> QED
    BY <2>1 DEF AdmissionInit, AdmissionTyped, Steps
<1>2. ClockInv /\ PromiseInv /\ LeftInv /\ UncountedInv
  BY DEF AdmissionInit, ClockInv, PromiseInv, LeftInv, UncountedInv
<1>3. WindowInv /\ WindowBounded
  <2>1. \A k \in Clients : Len(hits[k]) = 0 /\ Len(admitted[k]) = 0 /\ DOMAIN admitted[k] = {}
    BY DEF AdmissionInit
  <2>2. setup.limit >= 0
    BY <1>1, AdmissionAssumption DEF AdmissionTyped
  <2>3. \A k \in Clients : Remembers(hits[k], admitted[k])
    <3> SUFFICES ASSUME NEW k \in Clients PROVE Remembers(hits[k], admitted[k])
      OBVIOUS
    <3>1. Len(hits[k]) = 0 /\ Len(admitted[k]) = 0 /\ 0 <= setup.limit
      BY <2>1, <2>2
    <3>2. 1..0 = {} /\ 1..(0 - 0) = {}
      OBVIOUS
    <3> QED
      BY <3>1, <3>2 DEF Remembers
  <2> QED
    BY <2>1, <2>3 DEF WindowInv, WindowBounded
<1>4. SpendInv
  <2> SUFFICES ASSUME setup.budget > 0, NEW w \in Workspaces PROVE WithinPeak(w)
    BY DEF SpendInv
  <2>1. /\ peak[w] = 0 /\ day = 1
        /\ \A d \in Days : flight[w][d] = 0 /\ recorded[w][d] = 0
        /\ \A q \in Requests : left[q] = 0
    BY DEF AdmissionInit
  <2>2. Waiting(w) = 0 /\ Total(flight[w], Days) = 0
    BY <2>1, TotalZero DEF Waiting
  <2>3. MaxTokens \in Nat /\ setup.budget \in Nat
    BY <1>1, AdmissionAssumption DEF AdmissionTyped
  <2>4. /\ 0 + MaxTokens * 0 < setup.budget + MaxTokens * 0
        /\ 0 + MaxTokens * (0 + 0) < setup.budget + MaxTokens * 0
        /\ 0 + 0 <= 0
    BY <2>3
  <2> QED
    BY <2>1, <2>2, <2>4 DEF WithinPeak
<1> QED
  BY <1>1, <1>2, <1>3, <1>4 DEF AdmissionInv, BudgetInv

LEMMA AdmissionInvKept ==
  ASSUME AdmissionInv, [AdmissionNext]_admissionVars
  PROVE  AdmissionInv'
<1>1. AdmissionTyped'
  BY TypedKept DEF AdmissionInv, BudgetInv
<1> QED
  BY <1>1, LeftKept, UncountedKept, SpendKept, ClockKept, WindowKept, BoundKept, PromiseKept
     DEF AdmissionInv, BudgetInv

LEMMA Admissible == AdmissionSpec => []AdmissionInv
BY AdmissionStarts, AdmissionInvKept, PTL DEF AdmissionSpec

(* The types of what admission keeps, whatever requests come.              *)
THEOREM AdmissionTypes == AdmissionSpec => []AdmissionTyped
<1>1. AdmissionInv => AdmissionTyped
  BY DEF AdmissionInv, BudgetInv
<1> QED
  BY <1>1, Admissible, PTL

(* security.py 107, "Sliding one-minute window per client": although the   *)
(* clock is read before the lock is taken and readings are remembered out  *)
(* of order, no client is admitted more than `limit` times in a window     *)
(* shorter by the time a request may stall between the two.                *)
THEOREM AdmissionsBounded == AdmissionSpec => []WindowBounded
<1>1. AdmissionInv => WindowBounded
  BY DEF AdmissionInv
<1> QED
  BY <1>1, Admissible, PTL

(* Whoever was refused and comes back when told finds room, unless         *)
(* somebody was admitted as the same client meanwhile: its oldest          *)
(* remembered reading is out of the window by then.                        *)
THEOREM RetryAfterIsEnough == AdmissionSpec => []RetryAfterHolds
<1>1. ASSUME AdmissionInv, NEW q \in Requests, at[q] = "limited", clock >= promise[q].due,
             Len(admitted[ClientOf(q)]) = promise[q].seen
      PROVE  Room(Purged(hits[ClientOf(q)], clock))
  <2> DEFINE h == hits[ClientOf(q)]
             p == Purged(h, clock)
  <2>1. /\ h \in Seq(Nat) /\ clock \in Nat /\ setup.limit \in Nat /\ Window \in Nat
        /\ Len(h) <= setup.limit /\ promise[q].due \in Nat
    BY <1>1, ClientTyped, AdmissionAssumption
       DEF AdmissionInv, BudgetInv, AdmissionTyped, WindowInv, Remembers
  <2>2. Room(h) \/ (Len(h) > 0 /\ h[1] + Window < promise[q].due)
    BY <1>1 DEF AdmissionInv, PromiseInv
  <2> HIDE DEF h
  <2>3. /\ p \in Seq(Nat) /\ Len(p) \in Nat /\ Len(h) \in Nat /\ Len(p) <= Len(h)
        /\ \A i \in 1..Len(p) : p[i] = h[Len(h) - Len(p) + i]
        /\ Len(p) > 0 => clock - p[1] <= Window
    BY <2>1, PurgedDrops
  <2>4. Len(h) > 0 => h[1] \in Nat
    BY <2>1, <2>3, LenProperties
  <2> HIDE DEF p
  <2>5. CASE Room(h)
    BY <2>1, <2>3, <2>5 DEF Room, h, p
  <2>6. CASE Len(h) > 0 /\ h[1] + Window < promise[q].due
    <3>1. clock - h[1] > Window
      BY <1>1, <2>1, <2>4, <2>6
    <3>2. Len(p) # Len(h)
      <4> SUFFICES ASSUME Len(p) = Len(h) PROVE FALSE
        OBVIOUS
      <4>1. 1 \in 1..Len(p) /\ Len(h) - Len(p) + 1 = 1
        BY <2>3, <2>6
      <4>2. p[1] = h[1]
        BY <2>3, <4>1
      <4> QED
        BY <2>1, <2>3, <2>4, <2>6, <3>1, <4>2
    <3> QED
      BY <2>1, <2>3, <3>2 DEF Room, h, p
  <2> QED
    BY <2>2, <2>5, <2>6
<1>2. AdmissionInv => RetryAfterHolds
  BY <1>1 DEF RetryAfterHolds
<1> QED
  BY <1>2, Admissible, PTL

(* What a day records stays below its budget plus what the runs may spend  *)
(* that were past the check at once: runs count only when they have ended. *)
THEOREM BudgetOvershoot == AdmissionSpec => []OvershootBounded
<1>1. ASSUME AdmissionInv, NEW w \in Workspaces, NEW d \in Days, recorded[w][d] > 0
      PROVE  recorded[w][d] < setup.budget + MaxTokens * peak[w]
  <2>1. /\ setup.budget \in Nat /\ MaxTokens \in Nat /\ peak[w] \in Nat /\ day \in Nat
        /\ Days \subseteq Nat /\ Waiting(w) \in Nat
        /\ flight[w][d] \in Nat /\ recorded[w][d] \in Nat
    BY <1>1, SpendTyped DEF AdmissionInv, BudgetInv
  <2>2. setup.budget > 0
    BY <1>1, <2>1 DEF AdmissionInv, BudgetInv, UncountedInv
  <2>3. WithinPeak(w) /\ d <= day
    BY <1>1, <2>1, <2>2 DEF AdmissionInv, BudgetInv, SpendInv, WithinPeak
  <2>4. PICK x \in Nat : recorded[w][d] + MaxTokens * x < setup.budget + MaxTokens * peak[w]
    <3>1. flight[w][d] + Waiting(w) \in Nat
      BY <2>1
    <3>2. CASE d = day
      BY <2>3, <3>1, <3>2 DEF WithinPeak
    <3>3. CASE d < day
      BY <2>1, <2>3, <3>3 DEF WithinPeak
    <3>4. d < day \/ d = day
      BY <2>1, <2>3
    <3> QED
      BY <3>2, <3>3, <3>4
  <2>5. MaxTokens * x \in Nat /\ MaxTokens * peak[w] \in Nat
    <3>1. x \in Nat /\ x <= x /\ peak[w] <= peak[w]
      BY <2>1
    <3> QED
      BY <2>1, <3>1, Monotone
  <2> QED
    BY <2>1, <2>4, <2>5
<1>2. AdmissionInv => OvershootBounded
  BY <1>1 DEF OvershootBounded
<1> QED
  BY <1>2, Admissible, PTL

=============================================================================
