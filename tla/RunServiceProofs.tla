-------------------------- MODULE RunServiceProofs --------------------------
(***************************************************************************)
(* Theorems about RunService, for any number of runs, requests, threads,   *)
(* errors and crashes.                                                     *)
(*                                                                         *)
(* That no run is executed twice rests on where a run can be: among those  *)
(* a request still has to hand over, in the queue, or on a thread, in one  *)
(* of them and there once (PlaceInv).  That a run that is over stays over  *)
(* rests on what the table says of the runs in each place (RowInv), and on *)
(* a dead process having no places at all (DeadInv).  Orphans are counted  *)
(* step by step: a step that is Affordable pays for the one it makes.      *)
(***************************************************************************)
EXTENDS RunService, TLAPS, FiniteSetTheorems, SequenceTheorems

PlaceInv ==
  /\ \A p, q \in Requests : \A i \in DOMAIN todo[p], j \in DOMAIN todo[q] :
       todo[p][i] = todo[q][j] => p = q /\ i = j
  /\ \A q \in Requests : \A i \in DOMAIN todo[q] :
       /\ todo[q][i] \notin busy
       /\ \A j \in DOMAIN queue : queue[j] # todo[q][i]
  /\ \A i, j \in DOMAIN queue : queue[i] = queue[j] => i = j
  /\ \A i \in DOMAIN queue : queue[i] \notin busy

RowInv ==
  /\ \A r \in busy : status[r] \in Active
  /\ \A i \in DOMAIN queue : status[queue[i]] \in Active
  /\ \A q \in Requests : \A i \in DOMAIN todo[q] :
       IF i = 1
       THEN /\ step[q] \in {"idle", "insert"} => status[todo[q][i]] = "absent"
            /\ step[q] \in {"claim", "hand", "inline"} => status[todo[q][i]] \in Active
       ELSE status[todo[q][i]] = "absent"

DeadInv == ~up => queue = <<>> /\ busy = {} /\ \A q \in Requests : step[q] \notin Open

LeftInv == \A q \in Requests : step[q] = "idle" => todo[q] # <<>>

SInv == TypeOK /\ LeftInv /\ PlaceInv /\ RowInv /\ DeadInv

-----------------------------------------------------------------------------
(* Sequences.                                                              *)

(* The rest of a sequence is the sequence shifted by one.                  *)
LEMMA HeadTail ==
  ASSUME NEW S, NEW s \in Seq(S), s # <<>>
  PROVE  /\ Tail(s) \in Seq(S)
         /\ DOMAIN s = 1..Len(s) /\ Len(s) \in Nat \ {0}
         /\ 1 \in DOMAIN s /\ Head(s) = s[1] /\ Head(s) \in S
         /\ \A i \in DOMAIN Tail(s) :
              /\ i \in Nat \ {0} /\ i + 1 \in DOMAIN s /\ i + 1 # 1
              /\ Tail(s)[i] = s[i + 1]
  OBVIOUS

(* An element appended comes last, after all the others.                   *)
LEMMA Appended ==
  ASSUME NEW S, NEW s \in Seq(S), NEW e \in S
  PROVE  /\ Append(s, e) \in Seq(S)
         /\ DOMAIN s = 1..Len(s) /\ DOMAIN Append(s, e) = 1..(Len(s) + 1)
         /\ \A i \in DOMAIN Append(s, e) :
              \/ i \in DOMAIN s /\ Append(s, e)[i] = s[i]
              \/ i = Len(s) + 1 /\ Append(s, e)[i] = e
  OBVIOUS

-----------------------------------------------------------------------------

LEMMA SInitial == Init => SInv
<1> SUFFICES ASSUME Init PROVE SInv OBVIOUS
<1> USE ServiceAssumption DEF Init
<1>1. TypeOK
  <2>1. Cardinality({}) = 0 BY FS_EmptySet
  <2> QED BY <2>1 DEF TypeOK, Open, Closed, Active
<1>2. LeftInv BY DEF LeftInv
<1>3. PlaceInv BY DEF PlaceInv
<1>4. RowInv BY DEF RowInv
<1>5. DeadInv BY DEF DeadInv
<1> QED BY <1>1, <1>2, <1>3, <1>4, <1>5 DEF SInv

LEMMA SArrive ==
  ASSUME SInv, NEW q \in Requests, Arrive(q) PROVE SInv'
<1> USE DEF SInv, Arrive, NoFault, pool
<1>1. TypeOK' BY DEF TypeOK, LeftInv, Open, Closed
<1>2. LeftInv' BY DEF LeftInv, TypeOK
<1>3. PlaceInv' BY DEF PlaceInv
<1>4. RowInv' BY DEF RowInv, TypeOK
<1>5. DeadInv' BY DEF DeadInv
<1> QED BY <1>1, <1>2, <1>3, <1>4, <1>5

LEMMA SInsertRow ==
  ASSUME SInv, NEW q \in Requests, InsertRow(q) PROVE SInv'
<1> USE DEF SInv, InsertRow, NoFault, pool
<1>0. /\ todo[q] \in Seq(Runs) /\ todo[q] # <<>> BY DEF TypeOK, Open
<1>a. /\ 1 \in DOMAIN todo[q] /\ Head(todo[q]) = todo[q][1] /\ Head(todo[q]) \in Runs
  BY <1>0, HeadTail
<1>1. TypeOK' BY <1>0, <1>a DEF TypeOK, Open, Closed, Active
<1>2. LeftInv' BY DEF LeftInv, TypeOK
<1>3. PlaceInv' BY DEF PlaceInv
<1>4. RowInv'
  <2>1. \A r \in Runs : r # todo[q][1] => status'[r] = status[r] BY <1>a DEF TypeOK
  <2>2. status'[todo[q][1]] = "queued" BY <1>a DEF TypeOK
  <2>3. (\A r \in busy : status[r] \in Active)' BY <2>1, <2>2 DEF RowInv, TypeOK, Active
  <2>4. (\A i \in DOMAIN queue : status[queue[i]] \in Active)'
    BY <2>1, <2>2 DEF RowInv, TypeOK, Active
  <2>5. ASSUME NEW p \in Requests, NEW i \in DOMAIN todo[p]
        PROVE  IF i = 1
               THEN /\ step'[p] \in {"idle", "insert"} => status'[todo[p][i]] = "absent"
                    /\ step'[p] \in {"claim", "hand", "inline"} => status'[todo[p][i]] \in Active
               ELSE status'[todo[p][i]] = "absent"
    <3>1. CASE p = q /\ i = 1 BY <3>1, <2>2 DEF TypeOK, Active
    <3>2. CASE ~(p = q /\ i = 1)
      <4>1. todo[p][i] # todo[q][1] BY <3>2, <1>a DEF PlaceInv
      <4>2. todo[p][i] \in Runs BY DEF TypeOK
      <4>3. status'[todo[p][i]] = status[todo[p][i]] BY <4>1, <4>2, <2>1
      <4>4. p # q => step'[p] = step[p] BY DEF TypeOK
      <4> QED BY <3>2, <4>3, <4>4 DEF RowInv
    <3> QED BY <3>1, <3>2
  <2> QED BY <2>3, <2>4, <2>5 DEF RowInv
<1>5. DeadInv' BY DEF DeadInv, Open, TypeOK
<1> QED BY <1>1, <1>2, <1>3, <1>4, <1>5

LEMMA SClaimRow ==
  ASSUME SInv, NEW q \in Requests, ClaimRow(q) PROVE SInv'
<1> USE DEF SInv, ClaimRow, NoFault, pool
<1>0. Head(todo[q]) \in Runs BY HeadTail DEF TypeOK, Open
<1>1. TypeOK' BY <1>0 DEF TypeOK, Open, Closed
<1>2. LeftInv' BY DEF LeftInv, TypeOK
<1>3. PlaceInv' BY DEF PlaceInv
<1>4. RowInv' BY DEF RowInv, TypeOK
<1>5. DeadInv' BY DEF DeadInv, Open, TypeOK
<1> QED BY <1>1, <1>2, <1>3, <1>4, <1>5

LEMMA SRequestFails ==
  ASSUME SInv, NEW q \in Requests, RequestFails(q) PROVE SInv'
<1> USE DEF SInv, RequestFails, Error, pool
<1>1. TypeOK' BY ServiceAssumption DEF TypeOK, Open, Closed
<1>2. LeftInv' BY DEF LeftInv, TypeOK
<1>3. PlaceInv' BY DEF PlaceInv
<1>4. RowInv' BY DEF RowInv, TypeOK
<1>5. DeadInv' BY DEF DeadInv, Open, TypeOK
<1> QED BY <1>1, <1>2, <1>3, <1>4, <1>5

(* The first run of the request moves to the end of the queue; the next    *)
(* one, whose row does not exist yet, becomes its first.                   *)
LEMMA SHandOver ==
  ASSUME SInv, NEW q \in Requests, HandOver(q) PROVE SInv'
<1> DEFINE r == Head(todo[q])
           rest == Tail(todo[q])
<1>0. todo[q] \in Seq(Runs) /\ todo[q] # <<>> /\ queue \in Seq(Runs)
  BY DEF SInv, TypeOK, HandOver, Open
<1>1. /\ rest \in Seq(Runs) /\ r \in Runs
      /\ 1 \in DOMAIN todo[q] /\ r = todo[q][1]
      /\ \A i \in DOMAIN rest : /\ i \in Nat \ {0} /\ i + 1 \in DOMAIN todo[q] /\ i + 1 # 1
                                /\ rest[i] = todo[q][i + 1]
  BY <1>0, HeadTail
<1>2. /\ queue' \in Seq(Runs)
      /\ \A i \in DOMAIN queue' : \/ i \in DOMAIN queue /\ queue'[i] = queue[i]
                                  \/ i = Len(queue) + 1 /\ queue'[i] = r
  BY <1>0, <1>1, Appended DEF HandOver
<1>3. /\ todo' \in [Requests -> Seq(Runs)] /\ todo'[q] = rest
      /\ \A p \in Requests \ {q} : todo'[p] = todo[p] /\ step'[p] = step[p]
      /\ step' \in [Requests -> Open \cup Closed]
      /\ step[q] = "hand"
      /\ step'[q] = IF rest = <<>> THEN "answered" ELSE "insert"
  BY <1>1 DEF SInv, TypeOK, HandOver, Open, Closed
<1>4. status' = status /\ claimed' = claimed /\ busy' = busy
      /\ up' = up /\ errors' = errors /\ deaths' = deaths
  BY DEF HandOver, NoFault
<1> HIDE DEF r, rest
(* Each run left to hand over was there before, and is not the first.      *)
<1>5. ASSUME NEW p \in Requests, NEW i \in DOMAIN todo'[p]
      PROVE  \E j \in DOMAIN todo[p] :
               /\ todo'[p][i] = todo[p][j] /\ (p = q => j = i + 1 /\ j # 1)
               /\ (p # q => j = i) /\ todo[p][j] # r
  <2>1. CASE p = q BY <2>1, <1>1, <1>3 DEF SInv, PlaceInv
  <2>2. CASE p # q BY <2>2, <1>1, <1>3 DEF SInv, PlaceInv
  <2> QED BY <2>1, <2>2
<1>a. TypeOK'
  BY <1>1, <1>2, <1>3, <1>4 DEF SInv, TypeOK, Open
<1>b. LeftInv' BY <1>3 DEF SInv, LeftInv
<1>c. PlaceInv'
  <2>1. ASSUME NEW p1 \in Requests, NEW p2 \in Requests,
               NEW i \in DOMAIN todo'[p1], NEW j \in DOMAIN todo'[p2],
               todo'[p1][i] = todo'[p2][j]
        PROVE  p1 = p2 /\ i = j
    <3>1. PICK k \in DOMAIN todo[p1] :
             /\ todo'[p1][i] = todo[p1][k]
             /\ (p1 = q => k = i + 1) /\ (p1 # q => k = i)
      BY <1>5
    <3>2. PICK l \in DOMAIN todo[p2] :
             /\ todo'[p2][j] = todo[p2][l]
             /\ (p2 = q => l = j + 1) /\ (p2 # q => l = j)
      BY <1>5
    <3>a. todo[p1][k] = todo[p2][l] BY <2>1, <3>1, <3>2
    <3>3. p1 = p2 /\ k = l BY <3>a DEF SInv, PlaceInv
    <3>4. p1 = q => i \in Nat /\ j \in Nat BY <1>1, <1>3, <3>3
    <3> QED BY <3>1, <3>2, <3>3, <3>4
  <2>2. ASSUME NEW p \in Requests, NEW i \in DOMAIN todo'[p]
        PROVE  /\ todo'[p][i] \notin busy'
               /\ \A j \in DOMAIN queue' : queue'[j] # todo'[p][i]
    BY <1>2, <1>4, <1>5 DEF SInv, PlaceInv
  <2>3. \A i, j \in DOMAIN queue' : queue'[i] = queue'[j] => i = j
    BY <1>1, <1>2 DEF SInv, PlaceInv
  <2>4. \A i \in DOMAIN queue' : queue'[i] \notin busy'
    BY <1>1, <1>2, <1>4 DEF SInv, PlaceInv
  <2> QED BY <2>1, <2>2, <2>3, <2>4 DEF PlaceInv
<1>d. RowInv'
  <2>1. status[r] \in Active BY <1>1, <1>3 DEF SInv, RowInv
  <2>2. \A i \in DOMAIN queue' : status'[queue'[i]] \in Active
    BY <1>2, <1>4, <2>1 DEF SInv, RowInv
  <2>3. ASSUME NEW p \in Requests, NEW i \in DOMAIN todo'[p]
        PROVE  IF i = 1
               THEN /\ step'[p] \in {"idle", "insert"} => status'[todo'[p][i]] = "absent"
                    /\ step'[p] \in {"claim", "hand", "inline"} => status'[todo'[p][i]] \in Active
               ELSE status'[todo'[p][i]] = "absent"
    <3>1. CASE p = q
      <4>1. status'[todo'[p][i]] = "absent" BY <3>1, <1>4, <1>5 DEF SInv, RowInv
      <4> QED BY <3>1, <4>1, <1>3
    <3>2. CASE p # q BY <3>2, <1>3, <1>4 DEF SInv, RowInv
    <3> QED BY <3>1, <3>2
  <2> QED BY <2>2, <2>3, <1>4 DEF SInv, RowInv
<1>e. DeadInv' BY <1>3, <1>4 DEF SInv, DeadInv, Open
<1> QED BY <1>a, <1>b, <1>c, <1>d, <1>e DEF SInv

(* The oldest run leaves the queue and takes a thread.                     *)
LEMMA STakeNext ==
  ASSUME SInv, TakeNext PROVE SInv'
<1> DEFINE r == Head(queue)
           rest == Tail(queue)
<1>1. /\ rest \in Seq(Runs) /\ r \in Runs /\ 1 \in DOMAIN queue /\ r = queue[1]
      /\ \A i \in DOMAIN rest : /\ i \in Nat \ {0} /\ i + 1 \in DOMAIN queue /\ i + 1 # 1
                                /\ rest[i] = queue[i + 1]
  BY HeadTail DEF SInv, TypeOK, TakeNext
<1>2. /\ queue' = rest /\ busy' = busy \cup {r} /\ queue # <<>>
      /\ Cardinality(busy) < Workers
      /\ status' = status /\ claimed' = claimed /\ step' = step /\ todo' = todo
      /\ up' = up /\ errors' = errors /\ deaths' = deaths
  BY DEF TakeNext, NoFault, requests
<1> HIDE DEF r, rest
<1>3. \A i \in DOMAIN rest : rest[i] # r /\ \E j \in DOMAIN queue : rest[i] = queue[j]
  BY <1>1 DEF SInv, PlaceInv
<1>4. Cardinality(busy') \in Nat /\ Cardinality(busy') <= Workers
  <2>1. IsFiniteSet(busy) BY ServiceAssumption, FS_Subset DEF SInv, TypeOK
  <2>2. Cardinality(busy) \in Nat BY <2>1, FS_CardinalityType
  <2>3. \/ Cardinality(busy') = Cardinality(busy)
        \/ Cardinality(busy') = Cardinality(busy) + 1
    BY <2>1, <1>2, FS_AddElement
  <2> QED BY <2>2, <2>3, <1>2, ServiceAssumption
<1>a. TypeOK' BY <1>1, <1>2, <1>4 DEF SInv, TypeOK
<1>b. LeftInv' BY <1>2 DEF SInv, LeftInv
<1>c. PlaceInv'
  <2>1. \A q \in Requests : \A i \in DOMAIN todo[q] :
          /\ todo[q][i] \notin busy'
          /\ \A j \in DOMAIN rest : rest[j] # todo[q][i]
    BY <1>1, <1>2, <1>3 DEF SInv, PlaceInv
  <2>2. ASSUME NEW i \in DOMAIN rest, NEW j \in DOMAIN rest, rest[i] = rest[j]
        PROVE  i = j
    <3>1. i + 1 = j + 1 BY <1>1, <2>2 DEF SInv, PlaceInv
    <3> QED BY <3>1, <1>1
  <2>3. \A i \in DOMAIN rest : rest[i] \notin busy'
    BY <1>2, <1>3 DEF SInv, PlaceInv
  <2> QED BY <2>1, <2>2, <2>3, <1>2 DEF SInv, PlaceInv
<1>d. RowInv'
  <2>1. \A i \in DOMAIN rest : status[rest[i]] \in Active BY <1>3 DEF SInv, RowInv
  <2>2. status[r] \in Active BY <1>1 DEF SInv, RowInv
  <2> QED BY <2>1, <2>2, <1>2 DEF SInv, RowInv
<1>e. DeadInv' BY <1>2 DEF SInv, DeadInv
<1> QED BY <1>a, <1>b, <1>c, <1>d, <1>e DEF SInv

-----------------------------------------------------------------------------

(* Who is executed has an active row.                                      *)
LEMMA SExecuting ==
  ASSUME SInv, NEW r \in Runs, Executing(r) PROVE status[r] \in Active
<1>1. CASE r \in busy BY <1>1 DEF SInv, RowInv
<1>2. CASE \E q \in Requests : step[q] = "inline" /\ r = Head(todo[q])
  <2> PICK q \in Requests : step[q] = "inline" /\ r = Head(todo[q]) BY <1>2
  <2>1. todo[q] \in Seq(Runs) /\ todo[q] # <<>> BY DEF SInv, TypeOK, Open
  <2>2. 1 \in DOMAIN todo[q] /\ r = todo[q][1] BY <2>1, HeadTail
  <2> QED BY <2>2 DEF SInv, RowInv
<1> QED BY <1>1, <1>2 DEF Executing

LEMMA SBegin ==
  ASSUME SInv, NEW r \in Runs, Begin(r) PROVE SInv'
<1>1. status[r] \in Active BY SExecuting DEF Begin
<1>2. /\ status' = [status EXCEPT ![r] = "running"]
      /\ claimed' = claimed /\ step' = step /\ todo' = todo
      /\ queue' = queue /\ busy' = busy
      /\ up' = up /\ errors' = errors /\ deaths' = deaths
  BY DEF Begin, NoFault, requests, pool
<1>3. \A s \in Runs : /\ status[s] \in Active => status'[s] \in Active
                      /\ status[s] = "absent" => status'[s] = "absent"
  BY <1>1, <1>2 DEF SInv, TypeOK, Active
<1>a. TypeOK' BY <1>2 DEF SInv, TypeOK, Active
<1>b. LeftInv' BY <1>2 DEF SInv, LeftInv
<1>c. PlaceInv' BY <1>2 DEF SInv, PlaceInv
<1>d. RowInv' BY <1>2, <1>3 DEF SInv, RowInv, TypeOK
<1>e. DeadInv' BY <1>2 DEF SInv, DeadInv
<1> QED BY <1>a, <1>b, <1>c, <1>d, <1>e DEF SInv

(* The run that ends was with its thread or its request and nowhere else,  *)
(* so whatever its row says now, no other place is told by it.             *)
LEMMA SLeave ==
  ASSUME SInv, NEW r \in Runs, Conclude(r) \/ Abandon(r) PROVE SInv'
<1>1. /\ Executing(r)
      /\ status' = status \/ status' = [status EXCEPT ![r] = "over"]
      /\ busy' = busy \ {r} /\ step' = Answered(r)
      /\ claimed' = claimed /\ todo' = todo /\ queue' = queue
      /\ up' = up /\ deaths' = deaths /\ errors' \in 0..MaxErrors
  BY ServiceAssumption DEF Conclude, Abandon, Leave, Error, NoFault, SInv, TypeOK
<1>2. \A q \in Requests : \/ step'[q] = step[q]
                          \/ step[q] = "inline" /\ step'[q] = "answered"
  BY <1>1 DEF Answered
<1>3. step' \in [Requests -> Open \cup Closed]
  BY <1>1 DEF Answered, SInv, TypeOK, Open, Closed
<1>4. \A s \in Runs \ {r} : status'[s] = status[s] BY <1>1 DEF SInv, TypeOK
(* A run in another place is another run.                                  *)
<1>5. ASSUME NEW i \in DOMAIN queue PROVE queue[i] # r /\ queue[i] \in Runs
  <2>1. queue[i] \in Runs BY DEF SInv, TypeOK
  <2>2. CASE r \in busy BY <2>1, <2>2 DEF SInv, PlaceInv
  <2>3. CASE \E q \in Requests : step[q] = "inline" /\ r = Head(todo[q])
    <3> PICK q \in Requests : step[q] = "inline" /\ r = Head(todo[q]) BY <2>3
    <3>1. todo[q] \in Seq(Runs) /\ todo[q] # <<>> BY DEF SInv, TypeOK, Open
    <3>2. 1 \in DOMAIN todo[q] /\ r = todo[q][1] BY <3>1, HeadTail
    <3> QED BY <2>1, <3>2 DEF SInv, PlaceInv
  <2> QED BY <1>1, <2>2, <2>3 DEF Executing
<1>6. ASSUME NEW q \in Requests, NEW i \in DOMAIN todo[q], todo[q][i] = r
      PROVE  i = 1 /\ step'[q] = "answered"
  <2>1. r \notin busy BY <1>6 DEF SInv, PlaceInv
  <2> PICK p \in Requests : step[p] = "inline" /\ r = Head(todo[p])
    BY <1>1, <2>1 DEF Executing
  <2>2. todo[p] \in Seq(Runs) /\ todo[p] # <<>> BY DEF SInv, TypeOK, Open
  <2>3. 1 \in DOMAIN todo[p] /\ r = todo[p][1] BY <2>2, HeadTail
  <2>4. p = q /\ i = 1 BY <1>6, <2>3 DEF SInv, PlaceInv
  <2> QED BY <1>1, <2>4 DEF Answered
<1>a. TypeOK'
  <2>1. IsFiniteSet(busy) BY ServiceAssumption, FS_Subset DEF SInv, TypeOK
  <2>2. /\ Cardinality(busy) \in Nat
        /\ Cardinality(busy') \in Nat /\ Cardinality(busy') <= Cardinality(busy)
    BY <2>1, <1>1, FS_CardinalityType, FS_Subset
  <2>3. Cardinality(busy') <= Workers BY <2>2, ServiceAssumption DEF SInv, TypeOK
  <2>4. status' \in [Runs -> {"absent", "over"} \cup Active] BY <1>1 DEF SInv, TypeOK
  <2>5. \A q \in Requests : step'[q] \in Open => todo'[q] # <<>>
    BY <1>1, <1>2 DEF SInv, TypeOK, Open
  <2> QED BY <1>1, <1>3, <2>3, <2>4, <2>5 DEF SInv, TypeOK
<1>b. LeftInv' BY <1>1, <1>2 DEF SInv, LeftInv
<1>c. PlaceInv' BY <1>1 DEF SInv, PlaceInv
<1>d. RowInv'
  <2>1. \A s \in busy' : status'[s] \in Active BY <1>1, <1>4 DEF SInv, RowInv, TypeOK
  <2>2. \A i \in DOMAIN queue : status'[queue[i]] \in Active
    BY <1>4, <1>5 DEF SInv, RowInv
  <2>3. ASSUME NEW q \in Requests, NEW i \in DOMAIN todo[q]
        PROVE  IF i = 1
               THEN /\ step'[q] \in {"idle", "insert"} => status'[todo[q][i]] = "absent"
                    /\ step'[q] \in {"claim", "hand", "inline"} => status'[todo[q][i]] \in Active
               ELSE status'[todo[q][i]] = "absent"
    <3>1. CASE todo[q][i] = r BY <3>1, <1>6
    <3>2. CASE todo[q][i] # r
      <4>1. todo[q][i] \in Runs BY DEF SInv, TypeOK
      <4>2. status'[todo[q][i]] = status[todo[q][i]] BY <3>2, <4>1, <1>4
      <4> QED BY <4>2, <1>2 DEF SInv, RowInv
    <3> QED BY <3>1, <3>2
  <2> QED BY <2>1, <2>2, <2>3, <1>1 DEF RowInv
<1>e. DeadInv' BY <1>1, <1>2 DEF SInv, DeadInv, Open
<1> QED BY <1>a, <1>b, <1>c, <1>d, <1>e DEF SInv

-----------------------------------------------------------------------------

LEMMA SDie ==
  ASSUME SInv, Die PROVE SInv'
<1> USE DEF SInv, Die
<1>a. TypeOK'
  <2>1. busy' = {} /\ Cardinality(busy') = 0 BY FS_EmptySet
  <2>2. queue' = <<>> /\ queue' \in Seq(Runs) OBVIOUS
  <2>3. step' \in [Requests -> Open \cup Closed] BY DEF TypeOK, Open, Closed
  <2>4. \A q \in Requests : step'[q] \notin Open BY DEF TypeOK, Open, Closed
  <2>5. deaths' \in 0..MaxDeaths BY ServiceAssumption DEF TypeOK
  <2>6. Cardinality(busy') <= Workers BY <2>1, ServiceAssumption
  <2>7. /\ status' = status /\ claimed' = claimed /\ todo' = todo
        /\ up' = FALSE /\ errors' = errors
    OBVIOUS
  <2>8. TypeOK OBVIOUS
  <2> HIDE DEF SInv, Die
  <2> QED BY <2>1, <2>2, <2>3, <2>4, <2>5, <2>6, <2>7, <2>8 DEF TypeOK
<1>b. LeftInv' BY DEF LeftInv
<1>c. PlaceInv' BY DEF PlaceInv
<1>d. RowInv' BY DEF RowInv, Open
<1>e. DeadInv' BY DEF DeadInv, Open
<1> QED BY <1>a, <1>b, <1>c, <1>d, <1>e

LEMMA SRestart ==
  ASSUME SInv, Restart PROVE SInv'
<1> USE DEF SInv, Restart, Recovered, requests, pool
<1>a. TypeOK' BY DEF TypeOK, Active
<1>b. LeftInv' BY DEF LeftInv
<1>c. PlaceInv' BY DEF PlaceInv
<1>d. RowInv' BY DEF RowInv, DeadInv, Open, Active, TypeOK
<1>e. DeadInv' BY DEF DeadInv
<1> QED BY <1>a, <1>b, <1>c, <1>d, <1>e

LEMMA SStutter == SInv /\ UNCHANGED vars => SInv'
  BY DEF SInv, TypeOK, LeftInv, PlaceInv, RowInv, DeadInv, vars, requests, pool

(* The invariant the theorems below rest on.                               *)
THEOREM ServiceInvariant == Spec => []SInv
<1>1. SInv /\ [Next]_vars => SInv'
  BY SArrive, SInsertRow, SClaimRow, SHandOver, SRequestFails, STakeNext, SBegin, SLeave,
     SDie, SRestart, SStutter DEF Next, Request, Execution
<1> QED BY SInitial, <1>1, PTL DEF Spec

(* The pool never runs more than its threads, and a request that is under  *)
(* way has a run to go on with (ThreadPoolExecutor in app/jobs.py 18-21).  *)
THEOREM ServiceTypes == Spec => []TypeOK
<1>1. SInv => TypeOK BY DEF SInv
<1> QED BY ServiceInvariant, <1>1, PTL

(* No run is with two executors, or twice with one (submit_run,            *)
(* app/jobs.py 24-28, and the endpoints, app/main.py 363-410).             *)
THEOREM ExecutedOnce == Spec => []HeldOnce
<1>1. SInv => HeldOnce
  <2> SUFFICES ASSUME SInv PROVE HeldOnce OBVIOUS
  <2>1. ASSUME NEW q \in Requests, step[q] \in Open
        PROVE  1 \in DOMAIN todo[q] /\ Head(todo[q]) = todo[q][1]
    <3>1. todo[q] \in Seq(Runs) /\ todo[q] # <<>> BY <2>1 DEF SInv, TypeOK
    <3> QED BY <3>1, HeadTail
  <2> QED BY <2>1 DEF SInv, PlaceInv, HeldOnce
<1> QED BY ServiceInvariant, <1>1, PTL

(* No step of any executor, request or recovery takes a run that is over   *)
(* back (app/pipeline.py 213 overwrites the status without a look at it).  *)
THEOREM NeverRevived == Spec => OverIsOver
<1>1. SInv /\ [Next]_vars
        => [\A r \in Runs : status[r] = "over" => status'[r] = "over"]_vars
  <2> SUFFICES ASSUME SInv, Next, NEW r \in Runs, status[r] = "over"
               PROVE  status'[r] = "over"
    OBVIOUS
  <2>1. ASSUME NEW q \in Requests, InsertRow(q) PROVE status'[r] = "over"
    <3>1. todo[q] \in Seq(Runs) /\ todo[q] # <<>> BY <2>1 DEF SInv, TypeOK, InsertRow, Open
    <3>2. 1 \in DOMAIN todo[q] /\ Head(todo[q]) = todo[q][1] BY <3>1, HeadTail
    <3>3. status[Head(todo[q])] = "absent" BY <3>2, <2>1 DEF SInv, RowInv, InsertRow
    <3> QED BY <2>1, <3>3 DEF SInv, TypeOK, InsertRow
  <2>2. ASSUME NEW s \in Runs, Begin(s) PROVE status'[r] = "over"
    <3>1. status[s] \in Active BY <2>2, SExecuting DEF Begin
    <3> QED BY <2>2, <3>1 DEF SInv, TypeOK, Begin, Active
  <2>3. ASSUME NEW s \in Runs, Conclude(s) \/ Abandon(s) PROVE status'[r] = "over"
    BY <2>3 DEF SInv, TypeOK, Conclude, Abandon
  <2>4. ASSUME Restart PROVE status'[r] = "over"
    BY <2>4 DEF Restart, Recovered, Active
  <2>5. ASSUME NEW q \in Requests, Arrive(q) \/ ClaimRow(q) \/ HandOver(q) \/ RequestFails(q)
        PROVE  status'[r] = "over"
    BY <2>5 DEF Arrive, ClaimRow, HandOver, RequestFails
  <2>6. ASSUME TakeNext \/ Die PROVE status'[r] = "over" BY <2>6 DEF TakeNext, Die
  <2> QED BY <2>1, <2>2, <2>3, <2>4, <2>5, <2>6 DEF Next, Request, Execution
<1> QED BY ServiceInvariant, <1>1, PTL DEF Spec, OverIsOver

-----------------------------------------------------------------------------
(* Orphans.                                                                *)

(* A step that orphans no run, or one at the price of an error.            *)
Affordable ==
  /\ up
  /\ \/ Orphans' \subseteq Orphans /\ errors' >= errors
     \/ \E r \in Runs : Orphans' \subseteq Orphans \cup {r} /\ errors' >= errors + 1

LEMMA OrphansCounted ==
  ASSUME SInv, SInv', OrphansCostErrors, Affordable
  PROVE  OrphansCostErrors'
<1>1. /\ IsFiniteSet(Orphans) /\ IsFiniteSet(Orphans')
      /\ errors \in Nat /\ errors' \in Nat
  BY ServiceAssumption, FS_Subset DEF Orphans, SInv, TypeOK
<1>2. Cardinality(Orphans) \in Nat /\ Cardinality(Orphans') \in Nat
  BY <1>1, FS_CardinalityType
<1>3. Cardinality(Orphans) <= errors
  BY DEF OrphansCostErrors, Affordable
<1>4. CASE Orphans' \subseteq Orphans /\ errors' >= errors
  <2>1. Cardinality(Orphans') <= Cardinality(Orphans)
    BY <1>1, <1>4, FS_Subset
  <2> QED BY <1>1, <1>2, <1>3, <1>4, <2>1 DEF OrphansCostErrors
<1>5. CASE \E r \in Runs : Orphans' \subseteq Orphans \cup {r} /\ errors' >= errors + 1
  <2> PICK r \in Runs : Orphans' \subseteq Orphans \cup {r} /\ errors' >= errors + 1
    BY <1>5
  <2>1. /\ IsFiniteSet(Orphans \cup {r})
        /\ \/ Cardinality(Orphans \cup {r}) = Cardinality(Orphans)
           \/ Cardinality(Orphans \cup {r}) = Cardinality(Orphans) + 1
    BY <1>1, FS_AddElement
  <2>2. Cardinality(Orphans') <= Cardinality(Orphans \cup {r})
    BY <2>1, FS_Subset
  <2> QED BY <1>1, <1>2, <1>3, <2>1, <2>2 DEF OrphansCostErrors
<1> QED BY <1>4, <1>5 DEF Affordable

(* Whoever is under way with a request is in a process that lives.         *)
LEMMA WhoActsIsUp ==
  ASSUME SInv
  PROVE  /\ \A q \in Requests : Arrive(q) \/ Request(q) => up
         /\ TakeNext => up
         /\ \A r \in Runs : Execution(r) => up
BY DEF SInv, DeadInv, TypeOK, Open, Arrive, Request, InsertRow, ClaimRow, HandOver,
   RequestFails, TakeNext, Execution, Begin, Conclude, Abandon, Executing

(* A request keeps its run until it hands it over, or fails.               *)
LEMMA RequestAffordable ==
  ASSUME SInv, NEW q \in Requests, Arrive(q) \/ Request(q)
  PROVE  Affordable
<1>0. up /\ errors \in Nat
  BY WhoActsIsUp, ServiceAssumption DEF SInv, TypeOK
<1>1. CASE Arrive(q)
  BY <1>0, <1>1 DEF Arrive, Affordable, Orphans, Owned, pool, NoFault, Open, SInv, TypeOK
<1>2. CASE InsertRow(q)
  <2>1. todo[q] \in Seq(Runs) /\ todo[q] # <<>>
    BY <1>2 DEF InsertRow, SInv, TypeOK, Open
  <2>2. Head(todo[q]) \in Runs BY <2>1, HeadTail
  <2>3. /\ \A s \in Runs : s # Head(todo[q]) => status'[s] = status[s]
        /\ step'[q] = "claim" /\ \A p \in Requests \ {q} : step'[p] = step[p]
        /\ step[q] = "insert" /\ UNCHANGED <<todo, queue, busy, errors>>
    BY <1>2, <2>2 DEF InsertRow, SInv, TypeOK, pool, NoFault
  <2>4. \A s \in Runs : Owned(s) => Owned(s)'
    BY <2>3 DEF Owned, Open
  <2>5. Owned(Head(todo[q]))'
    BY <2>3 DEF Owned, Open
  <2>6. Orphans' \subseteq Orphans
    BY <2>3, <2>4, <2>5 DEF Orphans
  <2> QED BY <1>0, <2>3, <2>6 DEF Affordable
<1>3. CASE ClaimRow(q)
  <2>1. /\ step[q] = "claim" /\ step'[q] \in {"hand", "inline"}
        /\ \A p \in Requests \ {q} : step'[p] = step[p]
        /\ UNCHANGED <<status, todo, queue, busy, errors>>
    BY <1>3 DEF ClaimRow, SInv, TypeOK, pool, NoFault
  <2>2. \A s \in Runs : Owned(s) => Owned(s)'
    BY <2>1 DEF Owned, Open
  <2>3. Orphans' \subseteq Orphans
    BY <2>1, <2>2 DEF Orphans
  <2> QED BY <1>0, <2>1, <2>3 DEF Affordable
<1>4. CASE HandOver(q)
  <2>1. todo[q] \in Seq(Runs) /\ todo[q] # <<>> /\ queue \in Seq(Runs)
    BY <1>4 DEF HandOver, SInv, TypeOK, Open
  <2> DEFINE r == Head(todo[q])
  <2>2. r \in Runs BY <2>1, HeadTail
  <2>3. /\ \A p \in Requests \ {q} : step'[p] = step[p] /\ todo'[p] = todo[p]
        /\ queue' = Append(queue, r)
        /\ UNCHANGED <<status, busy, errors>>
    BY <1>4 DEF HandOver, SInv, TypeOK, NoFault
  <2> HIDE DEF r
  <2>4. /\ \A i \in DOMAIN queue : i \in DOMAIN queue' /\ queue'[i] = queue[i]
        /\ \E i \in DOMAIN queue' : queue'[i] = r
    BY <2>1, <2>2, <2>3, AppendProperties
  <2>5. \A s \in Runs : Owned(s) => Owned(s)'
    BY <2>3, <2>4 DEF Owned, r
  <2>6. Orphans' \subseteq Orphans
    BY <2>3, <2>5 DEF Orphans
  <2> QED BY <1>0, <2>3, <2>6 DEF Affordable
<1>5. CASE RequestFails(q)
  <2>1. todo[q] \in Seq(Runs) /\ todo[q] # <<>>
    BY <1>5 DEF RequestFails, SInv, TypeOK, Open
  <2>2. Head(todo[q]) \in Runs BY <2>1, HeadTail
  <2>3. /\ \A p \in Requests \ {q} : step'[p] = step[p]
        /\ UNCHANGED <<status, todo, queue, busy>> /\ errors' = errors + 1
    BY <1>5 DEF RequestFails, SInv, TypeOK, pool, Error
  <2>4. \A s \in Runs : s # Head(todo[q]) /\ Owned(s) => Owned(s)'
    BY <2>3 DEF Owned
  <2>5. Orphans' \subseteq Orphans \cup {Head(todo[q])}
    BY <2>3, <2>4 DEF Orphans
  <2> QED BY <1>0, <2>2, <2>3, <2>5 DEF Affordable
<1> QED BY <1>1, <1>2, <1>3, <1>4, <1>5 DEF Request

(* The run that leaves the queue is with its thread.                       *)
LEMMA TakeAffordable ==
  ASSUME SInv, TakeNext
  PROVE  Affordable
<1>1. /\ queue \in Seq(Runs) /\ queue # <<>> /\ queue' = Tail(queue)
      /\ busy' = busy \cup {Head(queue)}
      /\ UNCHANGED <<status, step, todo, errors>> /\ errors \in Nat
  BY ServiceAssumption DEF TakeNext, requests, NoFault, SInv, TypeOK
<1>2. \A i \in DOMAIN queue :
        queue[i] \in busy' \/ \E j \in DOMAIN queue' : queue'[j] = queue[i]
  <2> TAKE i \in DOMAIN queue
  <2>1. CASE i = 1
    BY <1>1, <2>1, HeadTail
  <2>2. CASE i # 1
    <3>1. i - 1 \in DOMAIN Tail(queue) /\ Tail(queue)[i - 1] = queue[i]
      BY <1>1, <2>2
    <3> QED BY <1>1, <3>1
  <2> QED BY <2>1, <2>2
<1>3. \A s \in Runs : Owned(s) => Owned(s)'
  BY <1>1, <1>2 DEF Owned
<1>4. Orphans' \subseteq Orphans
  BY <1>1, <1>3 DEF Orphans
<1> QED BY <1>1, <1>4, WhoActsIsUp DEF Affordable

(* An executor that ends its run leaves the others with theirs.            *)
LEMMA ExecutionAffordable ==
  ASSUME SInv, NEW r \in Runs, Execution(r)
  PROVE  Affordable
<1>0. up /\ errors \in Nat /\ status[r] \in Active
  BY WhoActsIsUp, SExecuting, ServiceAssumption
     DEF SInv, TypeOK, Execution, Begin, Conclude, Abandon
<1>1. CASE Begin(r)
  <2>1. /\ \A s \in Runs \ {r} : status'[s] = status[s]
        /\ UNCHANGED <<step, todo, queue, busy, errors>>
    BY <1>1 DEF Begin, SInv, TypeOK, requests, pool, NoFault
  <2>2. \A s \in Runs : Owned(s)' <=> Owned(s)
    BY <2>1 DEF Owned
  <2>3. Orphans' \subseteq Orphans
    BY <1>0, <2>1, <2>2 DEF Orphans
  <2> QED BY <1>0, <2>1, <2>3 DEF Affordable
<1>2. ASSUME Leave(r), UNCHANGED <<todo, queue>>
      PROVE  \A s \in Runs \ {r} : Owned(s) => Owned(s)'
  BY <1>2 DEF Leave, Answered, Owned
<1>3. CASE Conclude(r)
  <2>1. /\ \A s \in Runs \ {r} : status'[s] = status[s] /\ (Owned(s) => Owned(s)')
        /\ status'[r] \notin Active
    BY <1>2, <1>3 DEF Conclude, SInv, TypeOK, Active
  <2>2. errors' >= errors
    <3>1. errors' = errors \/ errors' = errors + 1
      BY <1>3 DEF Conclude, NoFault, Error
    <3> QED BY <1>0, <3>1
  <2>3. Orphans' \subseteq Orphans
    BY <2>1 DEF Orphans
  <2> QED BY <1>0, <2>2, <2>3 DEF Affordable
<1>4. CASE Abandon(r)
  <2>1. /\ UNCHANGED status
        /\ \A s \in Runs \ {r} : Owned(s) => Owned(s)'
    BY <1>2, <1>4 DEF Abandon
  <2>2. errors' >= errors + 1
    <3>1. errors' = errors + 1 \/ errors' = errors + 2
      BY <1>4 DEF Abandon, Error
    <3> QED BY <1>0, <3>1
  <2>3. Orphans' \subseteq Orphans \cup {r}
    BY <2>1 DEF Orphans
  <2> QED BY <1>0, <2>2, <2>3 DEF Affordable
<1> QED BY <1>1, <1>3, <1>4 DEF Execution

(* While the server is up, every active row without an executor took a     *)
(* database error of its own: a crash adds none, since the recovery closes *)
(* whatever it finds active (jobs.py 37-43).                               *)
THEOREM OrphansArePaid == Spec => []OrphansCostErrors
<1>1. Init => OrphansCostErrors
  <2>1. ASSUME Init PROVE Orphans = {} /\ errors = 0
    BY <2>1 DEF Init, Orphans, Active
  <2>2. Cardinality({}) = 0 BY FS_EmptySet
  <2> QED BY <2>1, <2>2 DEF OrphansCostErrors
<1>2. SInv /\ SInv' /\ OrphansCostErrors /\ [Next]_vars => OrphansCostErrors'
  <2> SUFFICES ASSUME SInv, SInv', OrphansCostErrors, [Next]_vars
               PROVE  OrphansCostErrors'
    OBVIOUS
  <2>1. CASE UNCHANGED vars
    <3>1. UNCHANGED <<status, step, todo, queue, busy, up, errors>>
      BY <2>1 DEF vars, requests, pool
    <3>2. Orphans' = Orphans BY <3>1 DEF Orphans, Owned
    <3> QED BY <3>1, <3>2 DEF OrphansCostErrors
  <2>2. CASE Die
    BY <2>2 DEF Die, OrphansCostErrors
  <2>3. CASE Restart
    <3>1. Orphans' = {} BY <2>3 DEF Restart, Recovered, Orphans, Active
    <3>2. Cardinality({}) = 0 BY FS_EmptySet
    <3>3. errors' \in Nat BY ServiceAssumption DEF SInv, TypeOK
    <3> QED BY <3>1, <3>2, <3>3 DEF OrphansCostErrors
  <2> QED BY <2>1, <2>2, <2>3, RequestAffordable, TakeAffordable, ExecutionAffordable,
             OrphansCounted DEF Next
<1> QED BY <1>1, <1>2, ServiceInvariant, PTL DEF Spec

=============================================================================
