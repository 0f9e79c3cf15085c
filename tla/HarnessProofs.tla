---------------------------- MODULE HarnessProofs ---------------------------
(***************************************************************************)
(* Theorems about Harness and the Sandbox it extends, for any number of    *)
(* calls, slots, outages, failures and tests.                              *)
(*                                                                         *)
(* Slots are accounted for by the calls that hold one (SlotInv); leaked    *)
(* containers by what went wrong: a container whose kill failed has cost   *)
(* one failed command, one whose removal failed as well two, and one whose *)
(* client broke off that client (LeakInv).  The verdict rests on what the  *)
(* driver has behind it at each stage (DriverInv).                         *)
(***************************************************************************)
EXTENDS Harness, TLAPS, FiniteSetTheorems

States == Holding \cup {"idle", "waiting", "returned"}

SType ==
  /\ at \in [Calls -> States]
  /\ outcome \in [Calls -> Outcomes]
  /\ lock \in Calls \cup {NoCall} /\ {known, fresh, daemon, allowHost} \subseteq BOOLEAN
  /\ \A c \in Calls : lock = c <=> at[c] = "probing"
  /\ boxes \subseteq Calls
  /\ outages \in 0..MaxOutages /\ failures \in Nat /\ broken \in Nat

SlotInv == free \in 0..Slots /\ free + Cardinality(Holders) = Slots

BoxInv == \A c \in boxes : at[c] \in {"running", "kill", "remove", "returned"}

Leaked == boxes \ Holders

(* The containers that docker kill has failed to end.                      *)
Half == {c \in boxes : at[c] = "remove"}

LeakInv == 2 * Cardinality(Leaked) + Cardinality(Half) <= failures + 2 * broken

DriverInv ==
  /\ driver \in [Calls -> Driver]
  /\ \A c \in Calls :
       LET d == driver[c] IN
       /\ d.passed <= d.ran /\ d.ran <= d.total
       /\ d.stage \in {"tests", "test"} \/ d.ran > 0 => d.loaded

SandInv == SType /\ SlotInv /\ BoxInv /\ LeakInv
HInv == SandInv /\ DriverInv

-----------------------------------------------------------------------------
(* Counting.                                                               *)

LEMMA Finite ==
  ASSUME SType
  PROVE  /\ IsFiniteSet(Holders) /\ Cardinality(Holders) \in Nat
         /\ IsFiniteSet(boxes) /\ Cardinality(boxes) \in Nat
         /\ IsFiniteSet(Leaked) /\ Cardinality(Leaked) \in Nat
         /\ IsFiniteSet(Half) /\ Cardinality(Half) \in Nat
<1>1. IsFiniteSet(Holders) BY SandboxAssumption, FS_Subset DEF Holders
<1>2. IsFiniteSet(boxes) BY SandboxAssumption, FS_Subset DEF SType
<1>3. IsFiniteSet(Leaked) BY <1>2, FS_Subset DEF Leaked
<1>4. IsFiniteSet(Half) BY <1>2, FS_Subset DEF Half
<1> QED BY <1>1, <1>2, <1>3, <1>4, FS_CardinalityType

(* A call that moves takes a slot, gives one back, or neither.             *)
LEMMA SlotMove ==
  ASSUME SType, SlotInv, NEW c \in Calls, NEW to \in States,
         at' = [at EXCEPT ![c] = to],
         \/ (at[c] \in Holding <=> to \in Holding) /\ free' = free
         \/ at[c] \notin Holding /\ to \in Holding /\ free > 0 /\ free' = free - 1
         \/ at[c] \in Holding /\ to \notin Holding /\ free' = free + 1
  PROVE  SlotInv'
<1>0. IsFiniteSet(Holders) /\ Cardinality(Holders) \in Nat /\ free \in Nat
  BY Finite, SandboxAssumption DEF SlotInv
<1>1. \A d \in Calls : at'[d] = IF d = c THEN to ELSE at[d] BY DEF SType
<1>2. CASE (at[c] \in Holding <=> to \in Holding) /\ free' = free
  <2>1. Holders' = Holders BY <1>1, <1>2 DEF Holders
  <2> QED BY <2>1, <1>2 DEF SlotInv
<1>3. CASE at[c] \notin Holding /\ to \in Holding /\ free > 0 /\ free' = free - 1
  <2>1. Holders' = Holders \cup {c} /\ c \notin Holders BY <1>1, <1>3 DEF Holders
  <2>2. Cardinality(Holders') = Cardinality(Holders) + 1 BY <2>1, <1>0, FS_AddElement
  <2> QED BY <2>2, <1>0, <1>3, SandboxAssumption DEF SlotInv
<1>4. CASE at[c] \in Holding /\ to \notin Holding /\ free' = free + 1
  <2>1. Holders' = Holders \ {c} /\ c \in Holders BY <1>1, <1>4 DEF Holders
  <2>2. Cardinality(Holders') = Cardinality(Holders) - 1 BY <2>1, <1>0, FS_RemoveElement
  <2>3. Cardinality(Holders') \in Nat BY <1>0, <2>1, FS_RemoveElement, FS_CardinalityType
  <2> QED BY <2>2, <2>3, <1>0, <1>4, SandboxAssumption DEF SlotInv
<1> QED BY <1>2, <1>3, <1>4

LEMMA NoLeak ==
  ASSUME LeakInv, Leaked' = Leaked, Half' = Half, failures' = failures, broken' = broken
  PROVE  LeakInv'
  BY DEF LeakInv

(* A call that moves, and leaves its container alone unless it holds a     *)
(* slot before and after, or has none, leaks nothing.                      *)
LEMMA Moved ==
  ASSUME SandInv, NEW c \in Calls, NEW to \in States \ {"remove"},
         at' = [at EXCEPT ![c] = to], at[c] \notin {"remove", "returned"},
         \/ (at[c] \in Holding <=> to \in Holding) /\ free' = free
         \/ at[c] \notin Holding /\ to \in Holding /\ free > 0 /\ free' = free - 1
         \/ at[c] \in Holding /\ to \notin Holding /\ free' = free + 1,
         boxes' \in {boxes, boxes \ {c}, boxes \cup {c}}, failures' = failures, broken' = broken,
         c \in boxes' => at[c] \in Holding /\ to \in {"running", "kill"}
  PROVE  SlotInv' /\ BoxInv' /\ LeakInv'
<1>1. \A d \in Calls : at'[d] = IF d = c THEN to ELSE at[d] BY DEF SandInv, SType
<1>2. boxes \subseteq Calls BY DEF SandInv, SType
<1>3. \A d \in Calls : d # c => (d \in boxes' <=> d \in boxes) BY <1>2
<1>a. SlotInv' BY SlotMove DEF SandInv
<1>b. BoxInv' BY <1>1, <1>2, <1>3 DEF SandInv, BoxInv
<1>4. c \in boxes => at[c] \in Holding \/ at[c] = "returned"
  BY DEF SandInv, BoxInv, Holding
<1>5. c \notin Leaked'  BY <1>1 DEF Leaked, Holders, Holding
<1>6. c \notin Leaked BY <1>4 DEF Leaked, Holders
<1>7. Leaked' = Leaked BY <1>1, <1>2, <1>3, <1>5, <1>6 DEF Leaked, Holders
<1>8. Half' = Half BY <1>1, <1>2, <1>3 DEF Half
<1> QED BY <1>a, <1>b, <1>7, <1>8, NoLeak DEF SandInv

-----------------------------------------------------------------------------
(* The actions of Sandbox.                                                 *)

LEMMA SCall ==
  ASSUME SandInv, NEW c \in Calls, Call(c) PROVE SandInv'
<1>1. at' = [at EXCEPT ![c] = "waiting"] /\ at[c] = "idle" /\ free' = free
      /\ boxes' = boxes /\ failures' = failures /\ broken' = broken
  BY DEF Call, Move, docker
<1>2. c \notin boxes BY <1>1 DEF SandInv, BoxInv
<1>3. SType'
  BY DEF SandInv, SType, Call, Move, probe, docker, States, Holding
<1> QED BY <1>1, <1>2, <1>3, Moved DEF SandInv, States, Holding

LEMMA SEnter ==
  ASSUME SandInv, NEW c \in Calls, Enter(c) PROVE SandInv'
<1>1. at' = [at EXCEPT ![c] = "probe"] /\ at[c] = "waiting" /\ free > 0 /\ free' = free - 1
      /\ boxes' = boxes /\ failures' = failures /\ broken' = broken
  BY DEF Enter, Move, docker
<1>2. c \notin boxes BY <1>1 DEF SandInv, BoxInv
<1>3. SType'
  BY DEF SandInv, SType, Enter, Move, probe, docker, States, Holding
<1> QED BY <1>1, <1>2, <1>3, Moved DEF SandInv, States, Holding

(* The answer of the probe sends a call on, or away.                       *)
LEMMA Chosen ==
  ASSUME SandInv, NEW c \in Calls, NEW from \in {"probe", "probing"},
         NEW ok \in BOOLEAN, Choose(c, from, ok), boxes' = boxes, failures' = failures,
         broken' = broken
  PROVE  /\ SlotInv' /\ BoxInv' /\ LeakInv'
         /\ at' \in [Calls -> States] /\ outcome' \in [Calls -> Outcomes]
         /\ at'[c] # "probing" /\ \A d \in Calls \ {c} : at'[d] = at[d]
<1>1. at[c] = from BY DEF Choose, Move, Return
<1>2. c \notin boxes BY <1>1 DEF SandInv, BoxInv
<1>3. PICK to \in {"start", "host", "returned"} :
        /\ at' = [at EXCEPT ![c] = to]
        /\ outcome' \in {outcome, [outcome EXCEPT ![c] = "refused"]}
        /\ free' = IF to = "returned" THEN free + 1 ELSE free
  BY DEF Choose, Move, Return
<1>4. /\ at' \in [Calls -> States] /\ outcome' \in [Calls -> Outcomes]
      /\ at'[c] # "probing" /\ \A d \in Calls \ {c} : at'[d] = at[d]
  BY <1>3 DEF SandInv, SType, States, Holding, Outcomes
<1>5. /\ to \in States \ {"remove"} /\ at[c] \in Holding /\ at[c] # "remove"
      /\ at[c] # "returned" /\ (to \in Holding <=> to # "returned")
  BY <1>1 DEF States, Holding
<1> QED BY <1>2, <1>3, <1>4, <1>5, Moved

LEMMA SUseCached ==
  ASSUME SandInv, NEW c \in Calls, UseCached(c) PROVE SandInv'
<1>1. /\ Choose(c, "probe", known) /\ at[c] = "probe" /\ known \in BOOLEAN
      /\ boxes' = boxes /\ failures' = failures /\ broken' = broken /\ outages' = outages
      /\ lock' = lock /\ known' = known /\ fresh' = fresh
      /\ daemon' = daemon /\ allowHost' = allowHost
  BY DEF UseCached, probe, docker, SandInv, SType
<1>2. /\ SlotInv' /\ BoxInv' /\ LeakInv'
      /\ at' \in [Calls -> States] /\ outcome' \in [Calls -> Outcomes]
      /\ at'[c] # "probing" /\ \A d \in Calls \ {c} : at'[d] = at[d]
  BY <1>1, Chosen
<1>3. SType' BY <1>1, <1>2 DEF SandInv, SType
<1> QED BY <1>2, <1>3 DEF SandInv

LEMMA SStartProbe ==
  ASSUME SandInv, NEW c \in Calls, StartProbe(c) PROVE SandInv'
<1>1. at' = [at EXCEPT ![c] = "probing"] /\ at[c] = "probe" /\ free' = free
      /\ boxes' = boxes /\ failures' = failures /\ broken' = broken
  BY DEF StartProbe, Move, docker
<1>2. c \notin boxes BY <1>1 DEF SandInv, BoxInv
<1>3. SType'
  BY SandboxAssumption DEF SandInv, SType, StartProbe, Move, docker, States, Holding
<1> QED BY <1>1, <1>2, <1>3, Moved DEF SandInv, States, Holding

LEMMA SEndProbe ==
  ASSUME SandInv, NEW c \in Calls, EndProbe(c) PROVE SandInv'
<1>1. PICK ok \in BOOLEAN : known' = ok /\ Choose(c, "probing", ok)
  BY DEF EndProbe, SandInv, SType
<1>2. /\ at[c] = "probing" /\ fresh' = TRUE /\ lock' = NoCall
      /\ boxes' = boxes /\ failures' = failures /\ broken' = broken /\ outages' = outages
      /\ daemon' = daemon /\ allowHost' = allowHost
  BY DEF EndProbe, docker
<1>3. /\ SlotInv' /\ BoxInv' /\ LeakInv'
      /\ at' \in [Calls -> States] /\ outcome' \in [Calls -> Outcomes]
      /\ at'[c] # "probing" /\ \A d \in Calls \ {c} : at'[d] = at[d]
  BY <1>1, <1>2, Chosen
<1>4. \A d \in Calls : at'[d] # "probing" BY <1>2, <1>3 DEF SandInv, SType
<1>5. SType' BY <1>1, <1>2, <1>3, <1>4, SandboxAssumption DEF SandInv, SType
<1> QED BY <1>3, <1>5 DEF SandInv

LEMMA SStart ==
  ASSUME SandInv, NEW c \in Calls, Start(c) PROVE SandInv'
<1>1. PICK to \in {"running", "returned"} :
        /\ at' = [at EXCEPT ![c] = to] /\ at[c] = "start"
        /\ free' = IF to = "returned" THEN free + 1 ELSE free
        /\ boxes' = IF to = "returned" THEN boxes ELSE boxes \cup {c}
        /\ outcome' \in {outcome, [outcome EXCEPT ![c] = "failed"]}
        /\ failures' = failures /\ broken' = broken
  BY DEF Start, Move, Return
<1>2. c \notin boxes BY <1>1 DEF SandInv, BoxInv
<1>3. SType'
  BY <1>1 DEF SandInv, SType, Start, probe, States, Holding, Outcomes
<1> QED BY <1>1, <1>2, <1>3, Moved DEF SandInv, States, Holding

(* The calls that return with their container gone.                        *)
LEMMA SReturn ==
  ASSUME SandInv, NEW c \in Calls,
         \/ TimeOutOnHost(c)
         \/ \E what \in {"ok", "error"} : Exit(c, what)
  PROVE  SandInv'
<1>1. /\ at' = [at EXCEPT ![c] = "returned"] /\ at[c] \in {"running", "host"}
      /\ free' = free + 1 /\ failures' = failures /\ broken' = broken /\ outages' = outages
      /\ lock' = lock /\ known' = known /\ fresh' = fresh
      /\ daemon' = daemon /\ allowHost' = allowHost
      /\ \E what \in Outcomes : outcome' = [outcome EXCEPT ![c] = what]
      /\ boxes' \in {boxes, boxes \ {c}} /\ c \notin boxes'
  <2>2. CASE TimeOutOnHost(c)
    BY <2>2 DEF TimeOutOnHost, Return, Move, probe, docker, Outcomes, SandInv, BoxInv
  <2>3. ASSUME NEW what \in {"ok", "error"}, Exit(c, what)
        PROVE  /\ at' = [at EXCEPT ![c] = "returned"] /\ at[c] \in {"running", "host"}
               /\ free' = free + 1 /\ failures' = failures /\ broken' = broken /\ outages' = outages
               /\ lock' = lock /\ known' = known /\ fresh' = fresh
               /\ daemon' = daemon /\ allowHost' = allowHost
               /\ outcome' = [outcome EXCEPT ![c] = what] /\ what \in Outcomes
               /\ boxes' = boxes \ {c}
    BY <2>3 DEF Exit, Return, Move, probe, Outcomes
  <2>4. CASE \E what \in {"ok", "error"} : Exit(c, what) BY <2>3, <2>4
  <2> QED BY <2>2, <2>4
<1>2. SType' BY <1>1 DEF SandInv, SType, States, Holding
<1> QED BY <1>1, <1>2, Moved DEF SandInv, States, Holding

LEMMA STimeOut ==
  ASSUME SandInv, NEW c \in Calls, TimeOut(c) PROVE SandInv'
<1>1. at' = [at EXCEPT ![c] = "kill"] /\ at[c] = "running" /\ free' = free
      /\ boxes' = boxes /\ failures' = failures /\ broken' = broken
  BY DEF TimeOut, Move, docker
<1>2. SType'
  BY DEF SandInv, SType, TimeOut, Move, probe, docker, States, Holding
<1> QED BY <1>1, <1>2, Moved DEF SandInv, States, Holding

(* A kill that fails leaves a container behind, half lost.                 *)
LEMMA SKill ==
  ASSUME SandInv, NEW c \in Calls, Move(c, "kill", "remove"), UNCHANGED <<outcome, free>>,
         Discard(c), UNCHANGED <<probe, daemon, outages, allowHost>>
  PROVE  SandInv'
<1>1. /\ at' = [at EXCEPT ![c] = "remove"] /\ at[c] = "kill" /\ free' = free
      /\ \/ boxes' = boxes \ {c} /\ failures' = failures
         \/ boxes' = boxes /\ failures' = failures + 1
      /\ broken' = broken /\ outcome' = outcome
      /\ UNCHANGED <<probe, daemon, outages, allowHost>>
  BY DEF Move, Discard
<1>2. SType'
  BY <1>1 DEF SandInv, SType, probe, States, Holding
<1>3. \A d \in Calls : at'[d] = IF d = c THEN "remove" ELSE at[d]
  BY <1>1 DEF SandInv, SType
<1>4. boxes \subseteq Calls /\ failures \in Nat /\ broken \in Nat BY DEF SandInv, SType
<1>5. SlotInv' BY <1>1, SlotMove DEF SandInv, States, Holding
<1>6. BoxInv' BY <1>1, <1>3, <1>4 DEF SandInv, BoxInv
<1>7. Leaked' = Leaked BY <1>1, <1>3, <1>4 DEF Leaked, Holders, Holding
<1>8. LeakInv'
  <2>1. /\ IsFiniteSet(Half) /\ Cardinality(Half) \in Nat
        /\ Cardinality(Leaked) \in Nat
    BY Finite DEF SandInv
  <2>2. CASE boxes' = boxes \ {c} /\ failures' = failures
    <3>1. Half' = Half BY <1>1, <1>3, <1>4, <2>2 DEF Half
    <3> QED BY <3>1, <2>2, <1>1, <1>7, NoLeak DEF SandInv
  <2>3. CASE boxes' = boxes /\ failures' = failures + 1
    <3>1. Half' \in {Half, Half \cup {c}} BY <1>1, <1>3, <1>4, <2>3 DEF Half
    <3>2. Cardinality(Half') \in {Cardinality(Half), Cardinality(Half) + 1}
      BY <3>1, <2>1, FS_AddElement
    <3> QED BY <3>2, <2>1, <2>3, <1>1, <1>4, <1>7 DEF SandInv, LeakInv
  <2> QED BY <1>1, <2>2, <2>3
<1> QED BY <1>2, <1>5, <1>6, <1>8 DEF SandInv

(* A removal that fails as well leaks the container.                       *)
LEMMA SRemove ==
  ASSUME SandInv, NEW c \in Calls, Return(c, "remove", "timeout"), Discard(c),
         UNCHANGED <<probe, daemon, outages, allowHost>>
  PROVE  SandInv'
<1>1. /\ at' = [at EXCEPT ![c] = "returned"] /\ at[c] = "remove" /\ free' = free + 1
      /\ outcome' = [outcome EXCEPT ![c] = "timeout"]
      /\ broken' = broken /\ UNCHANGED <<probe, daemon, outages, allowHost>>
      /\ \/ boxes' = boxes \ {c} /\ failures' = failures
         \/ boxes' = boxes /\ failures' = failures + 1
  BY DEF Return, Move, Discard
<1>2. SType'
  BY <1>1 DEF SandInv, SType, probe, States, Holding, Outcomes
<1>3. \A d \in Calls : at'[d] = IF d = c THEN "returned" ELSE at[d]
  BY <1>1 DEF SandInv, SType
<1>4. boxes \subseteq Calls /\ failures \in Nat /\ broken \in Nat BY DEF SandInv, SType
<1>5. SlotInv' BY <1>1, SlotMove DEF SandInv, States, Holding
<1>6. BoxInv' BY <1>1, <1>3, <1>4 DEF SandInv, BoxInv
<1>7. /\ IsFiniteSet(Half) /\ Cardinality(Half) \in Nat
      /\ IsFiniteSet(Leaked) /\ Cardinality(Leaked) \in Nat
  BY Finite DEF SandInv
<1>8. Half' = Half \ {c} BY <1>1, <1>3, <1>4 DEF Half
<1>9. /\ Cardinality(Half') \in Nat
      /\ Cardinality(Half') = IF c \in boxes THEN Cardinality(Half) - 1 ELSE Cardinality(Half)
  <2>1. c \in Half <=> c \in boxes BY <1>1 DEF Half
  <2>2. /\ IsFiniteSet(Half')
        /\ Cardinality(Half') = IF c \in Half THEN Cardinality(Half) - 1 ELSE Cardinality(Half)
    BY <1>7, <1>8, FS_RemoveElement
  <2>3. Cardinality(Half') \in Nat BY <2>2, FS_CardinalityType
  <2> QED BY <2>1, <2>2, <2>3
<1>10. LeakInv'
  <2>1. CASE c \notin boxes' /\ failures' \in {failures, failures + 1}
    <3>1. Leaked' = Leaked BY <1>1, <1>3, <1>4, <2>1 DEF Leaked, Holders, Holding
    <3> QED BY <3>1, <2>1, <1>1, <1>4, <1>7, <1>9 DEF SandInv, LeakInv
  <2>2. CASE c \in boxes /\ boxes' = boxes /\ failures' = failures + 1
    <3>1. Leaked' = Leaked \cup {c}
      BY <1>1, <1>3, <1>4, <2>2 DEF Leaked, Holders, Holding
    <3>2. Cardinality(Leaked') \in {Cardinality(Leaked), Cardinality(Leaked) + 1}
      BY <3>1, <1>7, FS_AddElement
    <3> QED BY <3>2, <2>2, <1>1, <1>4, <1>7, <1>9 DEF SandInv, LeakInv
  <2> QED BY <1>1, <2>1, <2>2
<1> QED BY <1>2, <1>5, <1>6, <1>10 DEF SandInv

(* A client that breaks off may leave a container behind, and pays for it  *)
(* alone.                                                                  *)
LEMMA Broken ==
  ASSUME SandInv, NEW c \in Calls, NEW from \in {"running", "kill", "remove"},
         NEW what \in Outcomes, Return(c, from, what), BreakOff(c)
  PROVE  /\ SlotInv' /\ BoxInv' /\ LeakInv'
         /\ at' \in [Calls -> States] /\ outcome' \in [Calls -> Outcomes]
         /\ boxes' = boxes /\ failures' \in Nat /\ broken' \in Nat
         /\ \A d \in Calls : at'[d] = IF d = c THEN "returned" ELSE at[d]
<1>1. /\ at' = [at EXCEPT ![c] = "returned"] /\ at[c] = from /\ free' = free + 1
      /\ outcome' = [outcome EXCEPT ![c] = what]
      /\ boxes' = boxes /\ failures' = failures
      /\ broken' = IF c \in boxes THEN broken + 1 ELSE broken
  BY DEF Return, Move, BreakOff
<1>2. \A d \in Calls : at'[d] = IF d = c THEN "returned" ELSE at[d]
  BY <1>1 DEF SandInv, SType
<1>3. boxes \subseteq Calls /\ failures \in Nat /\ broken \in Nat /\ broken' \in Nat
  BY <1>1 DEF SandInv, SType
<1>4. at' \in [Calls -> States] /\ outcome' \in [Calls -> Outcomes]
  BY <1>1 DEF SandInv, SType, States
<1>5. SlotInv' BY <1>1, SlotMove DEF SandInv, States, Holding
<1>6. BoxInv' BY <1>1, <1>2, <1>3 DEF SandInv, BoxInv
<1>7. /\ IsFiniteSet(Half) /\ Cardinality(Half) \in Nat
      /\ IsFiniteSet(Leaked) /\ Cardinality(Leaked) \in Nat
  BY Finite DEF SandInv
<1>8. Half' = Half \ {c} BY <1>1, <1>2, <1>3 DEF Half
<1>9. Cardinality(Half') \in Nat /\ Cardinality(Half') <= Cardinality(Half)
  <2>1. Half' \subseteq Half BY <1>8
  <2> QED BY <2>1, <1>7, FS_Subset, FS_CardinalityType
<1>10. LeakInv'
  <2>1. CASE c \notin boxes
    <3>1. Leaked' = Leaked BY <1>1, <1>2, <1>3, <2>1 DEF Leaked, Holders, Holding
    <3> QED BY <3>1, <2>1, <1>1, <1>3, <1>7, <1>9 DEF SandInv, LeakInv
  <2>2. CASE c \in boxes
    <3>1. Leaked' = Leaked \cup {c}
      BY <1>1, <1>2, <1>3, <2>2 DEF Leaked, Holders, Holding
    <3>2. Cardinality(Leaked') \in {Cardinality(Leaked), Cardinality(Leaked) + 1}
      BY <3>1, <1>7, FS_AddElement
    <3>3. broken' = broken + 1 /\ failures' = failures BY <1>1, <2>2
    <3> QED BY <3>2, <3>3, <1>3, <1>7, <1>9 DEF SandInv, LeakInv
  <2> QED BY <2>1, <2>2
<1> QED BY <1>1, <1>2, <1>3, <1>4, <1>5, <1>6, <1>10

LEMMA SLoseClient ==
  ASSUME SandInv, NEW c \in Calls, LoseClient(c) PROVE SandInv'
<1>1. /\ SlotInv' /\ BoxInv' /\ LeakInv'
      /\ at' \in [Calls -> States] /\ outcome' \in [Calls -> Outcomes]
      /\ boxes' = boxes /\ failures' \in Nat /\ broken' \in Nat
      /\ \A d \in Calls : at'[d] = IF d = c THEN "returned" ELSE at[d]
  <2>1. Return(c, "running", "failed") /\ BreakOff(c) BY DEF LoseClient
  <2> QED BY <2>1, Broken DEF Outcomes
<1>2. at[c] = "running" BY DEF LoseClient, Return, Move
<1>3. SType' BY <1>1, <1>2 DEF SandInv, SType, LoseClient, probe
<1> QED BY <1>1, <1>3 DEF SandInv

LEMMA SRaise ==
  ASSUME SandInv, NEW c \in Calls, NEW from \in {"kill", "remove"}, Raise(c, from),
         UNCHANGED <<probe, daemon, outages, allowHost>>
  PROVE  SandInv'
<1>1. /\ SlotInv' /\ BoxInv' /\ LeakInv'
      /\ at' \in [Calls -> States] /\ outcome' \in [Calls -> Outcomes]
      /\ boxes' = boxes /\ failures' \in Nat /\ broken' \in Nat
      /\ \A d \in Calls : at'[d] = IF d = c THEN "returned" ELSE at[d]
  <2>1. Return(c, from, "raised") /\ BreakOff(c) BY DEF Raise
  <2> QED BY <2>1, Broken DEF Outcomes
<1>2. at[c] = from BY DEF Raise, Return, Move
<1>3. SType' BY <1>1, <1>2 DEF SandInv, SType, probe
<1> QED BY <1>1, <1>3 DEF SandInv

(* The environment moves no call and makes no container.                   *)
LEMMA SEnvironment ==
  ASSUME SandInv, Environment PROVE SandInv'
<1>1. /\ at' = at /\ outcome' = outcome /\ free' = free
      /\ failures' = failures /\ broken' = broken
      /\ boxes' \subseteq boxes /\ lock' = lock /\ allowHost' = allowHost
      /\ {known', fresh', daemon'} \subseteq BOOLEAN /\ outages' \in 0..MaxOutages
  <2>1. /\ {known, fresh, daemon} \subseteq BOOLEAN
        /\ outages \in 0..MaxOutages /\ MaxOutages \in Nat
    BY SandboxAssumption DEF SandInv, SType
  <2>2. CASE ProbeAside BY <2>1, <2>2 DEF ProbeAside, docker
  <2>3. CASE Expire BY <2>1, <2>3 DEF Expire, docker
  <2>4. CASE DaemonStops
    <3>1. /\ daemon' = FALSE /\ known' = known /\ fresh' = fresh
          /\ outages < MaxOutages /\ outages' = outages + 1 /\ boxes' \in {boxes, {}}
          /\ at' = at /\ outcome' = outcome /\ free' = free
          /\ failures' = failures /\ broken' = broken
          /\ lock' = lock /\ allowHost' = allowHost
      BY <2>4 DEF DaemonStops, probe
    <3>2. outages' \in 0..MaxOutages BY <2>1, <3>1
    <3> QED BY <2>1, <3>1, <3>2
  <2>5. CASE DaemonStarts BY <2>1, <2>5 DEF DaemonStarts, probe
  <2>6. CASE \E c \in Calls : EndUnheard(c) BY <2>1, <2>6 DEF EndUnheard, probe
  <2> QED BY <2>2, <2>3, <2>4, <2>5, <2>6 DEF Environment
<1>2. SType' BY <1>1 DEF SandInv, SType
<1>3. Holders' = Holders BY <1>1 DEF Holders
<1>4. SlotInv' /\ BoxInv' BY <1>1, <1>3 DEF SandInv, SlotInv, BoxInv
<1>5. LeakInv'
  <2>1. /\ IsFiniteSet(Half) /\ Cardinality(Half) \in Nat
        /\ IsFiniteSet(Leaked) /\ Cardinality(Leaked) \in Nat
    BY Finite DEF SandInv
  <2>2. Leaked' \subseteq Leaked /\ Half' \subseteq Half
    BY <1>1, <1>3 DEF Leaked, Half
  <2>3. /\ Cardinality(Leaked') \in Nat /\ Cardinality(Leaked') <= Cardinality(Leaked)
        /\ Cardinality(Half') \in Nat /\ Cardinality(Half') <= Cardinality(Half)
    BY <2>1, <2>2, FS_Subset, FS_CardinalityType
  <2>4. failures \in Nat /\ broken \in Nat BY DEF SandInv, SType
  <2> QED BY <2>1, <2>3, <2>4, <1>1 DEF SandInv, LeakInv
<1> QED BY <1>2, <1>4, <1>5 DEF SandInv

LEMMA SThread ==
  ASSUME SandInv, NEW c \in Calls, Thread(c) PROVE SandInv'
<1>1. CASE Kill(c) BY <1>1, SKill, SRaise DEF Kill
<1>2. CASE Remove(c) BY <1>2, SRemove, SRaise DEF Remove
<1> QED BY <1>1, <1>2, SEnter, SUseCached, SStartProbe, SEndProbe, SStart, SReturn,
           SLoseClient, STimeOut DEF Thread

-----------------------------------------------------------------------------
(* The driver.                                                             *)

(* What DriverInv says of one driver.                                      *)
Sensible(d) ==
  /\ d \in Driver
  /\ d.passed <= d.ran /\ d.ran <= d.total
  /\ d.stage \in {"tests", "test"} \/ d.ran > 0 => d.loaded

LEMMA NewIsSensible ==
  ASSUME NEW g \in BOOLEAN, NEW n \in 0..MaxTests PROVE Sensible(NewDriver(g, n))
<1> n \in Nat BY HarnessAssumption
<1> QED BY HarnessAssumption DEF Sensible, NewDriver, Driver

(* Every way a driver may go on, or end, is a sensible one.                *)
LEMMA DriverSteps ==
  ASSUME NEW d, Sensible(d), NEW e \in Step(d) \cup Vanished(d)
  PROVE  Sensible(e)
<1> USE HarnessAssumption
<1>1. /\ d \in Driver /\ d.passed <= d.ran /\ d.ran <= d.total
      /\ d.stage \in {"tests", "test"} \/ d.ran > 0 => d.loaded
      /\ d.passed \in Nat /\ d.ran \in Nat /\ d.total \in Nat
      /\ d.total <= MaxTests /\ d.loaded \in BOOLEAN
  BY DEF Sensible, Driver
<1>2. CASE e \in Vanished(d) BY <1>1, <1>2 DEF Sensible, Driver, Vanished
<1>3. \A ok \in BOOLEAN : Sensible(Finished(d, ok)) BY <1>1 DEF Sensible, Driver, Finished
<1>4. CASE d.stage = "solution" /\ e \in AfterSolution(d)
  <2>1. Sensible([d EXCEPT !.loaded = TRUE]) BY <1>1 DEF Sensible, Driver
  <2>2. Sensible(Finished([d EXCEPT !.loaded = TRUE], TRUE))
    <3> DEFINE f == [d EXCEPT !.loaded = TRUE]
    <3>1. f \in Driver /\ f.passed <= f.ran /\ f.ran <= f.total /\ f.loaded
      BY <1>1, <2>1 DEF Sensible
    <3> HIDE DEF f
    <3>2. Sensible(Finished(f, TRUE)) BY <3>1 DEF Sensible, Driver, Finished
    <3> QED BY <3>2 DEF f
  <2>3. Sensible([d EXCEPT !.loaded = TRUE, !.stage = "tests"])
    BY <1>1 DEF Sensible, Driver
  <2> QED BY <1>3, <1>4, <2>2, <2>3 DEF AfterSolution
<1>5. CASE d.stage = "tests" /\ e \in AfterTests(d)
  BY <1>1, <1>3, <1>5 DEF AfterTests, Sensible, Driver
<1>6. CASE d.stage = "test" /\ d.ran < d.total /\ e \in AfterTest(d)
  <2>1. /\ d.loaded /\ d.ran + 1 \in 0..MaxTests /\ d.ran + 1 <= d.total
        /\ d.passed + 1 \in 0..MaxTests /\ d.passed <= d.ran + 1 /\ d.passed + 1 <= d.ran + 1
    BY <1>1, <1>6
  <2>2. Sensible([d EXCEPT !.ran = d.ran + 1])
    BY <1>1, <2>1 DEF Sensible, Driver
  <2>3. Sensible([d EXCEPT !.ran = d.ran + 1, !.passed = d.passed + 1])
    BY <1>1, <2>1 DEF Sensible, Driver
  <2> QED BY <1>6, <2>2, <2>3 DEF AfterTest
<1>7. CASE d.stage = "test" /\ e = Finished(d, AllPassed(d))
  BY <1>1, <1>3, <1>7 DEF AllPassed
<1>8. CASE e \in Step(d)
  <2>1. d.stage \in {"solution", "tests", "test", "over"} BY <1>1 DEF Driver
  <2> QED BY <2>1, <1>4, <1>5, <1>6, <1>7, <1>8 DEF Step
<1> QED BY <1>2, <1>8

LEMMA LoudIsSensible ==
  ASSUME NEW d, Sensible(d), NEW b \in BOOLEAN
  PROVE  Sensible([d EXCEPT !.loud = b])
  BY DEF Sensible, Driver

LEMMA DriverMoves ==
  ASSUME DriverInv, NEW c \in Calls, NEW d, Sensible(d),
         driver' = [driver EXCEPT ![c] = d]
  PROVE  DriverInv'
  BY DEF DriverInv, Sensible

LEMMA EachSensible == ASSUME DriverInv, NEW c \in Calls PROVE Sensible(driver[c])
  BY DEF DriverInv, Sensible

-----------------------------------------------------------------------------

LEMMA HInitial == HarnessInit => HInv
<1> SUFFICES ASSUME HarnessInit PROVE HInv OBVIOUS
<1>1. SType
  <2>1. /\ at \in [Calls -> States] /\ outcome \in [Calls -> Outcomes] /\ boxes = {}
        /\ \A c \in Calls : at[c] = "idle"
    BY DEF HarnessInit, SandboxInit, States, Outcomes
  <2>2. lock = NoCall /\ {known, fresh, daemon, allowHost} \subseteq BOOLEAN
    BY DEF HarnessInit, SandboxInit
  <2>3. outages \in 0..MaxOutages /\ failures \in Nat /\ broken \in Nat
    BY SandboxAssumption DEF HarnessInit, SandboxInit
  <2> QED BY <2>1, <2>2, <2>3, SandboxAssumption DEF SType
<1>2. Holders = {} /\ Leaked = {} /\ Half = {}
  BY DEF HarnessInit, SandboxInit, Holders, Leaked, Half, Holding
<1>3. SlotInv BY <1>2, FS_EmptySet, SandboxAssumption
  DEF HarnessInit, SandboxInit, SlotInv
<1>4. BoxInv BY DEF HarnessInit, SandboxInit, BoxInv
<1>5. LeakInv BY <1>2, FS_EmptySet DEF HarnessInit, SandboxInit, LeakInv
<1>6. DriverInv
  <2>0. FALSE \in BOOLEAN /\ 0 \in 0..MaxTests BY HarnessAssumption
  <2>1. Sensible(NewDriver(FALSE, 0)) BY <2>0, NewIsSensible
  <2> QED BY <2>1 DEF HarnessInit, DriverInv, Sensible
<1> QED BY <1>1, <1>3, <1>4, <1>5, <1>6 DEF HInv, SandInv

LEMMA HVerify ==
  ASSUME HInv, NEW c \in Calls, Verify(c) PROVE HInv'
<1>1. SandInv' BY SCall DEF HInv, Verify
<1>2. PICK g \in BOOLEAN, n \in 0..MaxTests :
        driver' = [driver EXCEPT ![c] = NewDriver(g, n)]
  BY DEF Verify
<1>3. Sensible(NewDriver(g, n)) BY NewIsSensible
<1> QED BY <1>1, <1>2, <1>3, DriverMoves DEF HInv

LEMMA HProceed ==
  ASSUME HInv, NEW c \in Calls, Proceed(c) PROVE HInv'
<1>1. SandInv' BY SThread DEF HInv, Proceed
<1>2. CASE driver' = driver BY <1>1, <1>2 DEF HInv, DriverInv
<1>3. CASE driver' = [driver EXCEPT ![c] = Unheard(driver[c])]
  <2>1. driver[c].given \in BOOLEAN /\ driver[c].total \in 0..MaxTests
    BY DEF HInv, DriverInv, Driver
  <2>2. Sensible(Unheard(driver[c])) BY <2>1, NewIsSensible DEF Unheard
  <2> QED BY <1>1, <1>3, <2>2, DriverMoves DEF HInv
<1> QED BY <1>1, <1>2, <1>3 DEF HInv, Proceed

LEMMA HQuit ==
  ASSUME HInv, NEW c \in Calls, Quit(c) PROVE HInv'
<1>1. driver' = driver /\ \E what \in {"ok", "error"} : Exit(c, what) BY DEF Quit
<1>2. SandInv' BY <1>1, SReturn DEF HInv
<1> QED BY <1>1, <1>2 DEF HInv, DriverInv

LEMMA HDrive ==
  ASSUME HInv, NEW c \in Calls, Drive(c) PROVE HInv'
<1>1. PICK d \in Step(driver[c]) \cup Vanished(driver[c]), more \in BOOLEAN :
        driver' = [driver EXCEPT ![c] =
          [d EXCEPT !.loud = d.loud \/ (more /\ ~driver[c].report)]]
  BY DEF Drive
<1>2. Sensible(d) BY EachSensible, DriverSteps DEF HInv
<1>3. Sensible([d EXCEPT !.loud = d.loud \/ (more /\ ~driver[c].report)])
  BY <1>2, LoudIsSensible
<1>4. SandInv'
  <2>1. UNCHANGED sandboxVars BY DEF Drive
  <2>2. /\ at' = at /\ outcome' = outcome /\ free' = free /\ boxes' = boxes
        /\ lock' = lock /\ known' = known /\ fresh' = fresh /\ daemon' = daemon
        /\ outages' = outages /\ failures' = failures /\ broken' = broken
        /\ allowHost' = allowHost
    BY <2>1 DEF sandboxVars, probe, docker
  <2> QED BY <2>2 DEF HInv, SandInv, SType, SlotInv, BoxInv, LeakInv, Leaked, Half, Holders
<1> QED BY <1>1, <1>3, <1>4, DriverMoves DEF HInv

LEMMA HStutter == HInv /\ UNCHANGED harnessVars => HInv'
  BY DEF HInv, SandInv, SType, SlotInv, BoxInv, LeakInv, DriverInv, Leaked, Half, Holders,
         harnessVars, sandboxVars, probe, docker

(* The invariant the theorems below rest on.                               *)
THEOREM HarnessInvariant == HarnessSpec => []HInv
<1>1. HInv /\ [HarnessNext]_harnessVars => HInv'
  <2> SUFFICES ASSUME HInv, [HarnessNext]_harnessVars PROVE HInv' OBVIOUS
  <2>1. CASE UNCHANGED harnessVars BY <2>1, HStutter
  <2>2. CASE \E c \in Calls : Verify(c) \/ Progress(c) \/ Drive(c)
    BY <2>2, HVerify, HProceed, HQuit, HDrive DEF Progress
  <2>3. CASE Environment /\ UNCHANGED driver
    BY <2>3, SEnvironment DEF HInv, DriverInv
  <2> QED BY <2>1, <2>2, <2>3 DEF HarnessNext
<1> QED BY HInitial, <1>1, PTL DEF HarnessSpec

(* Every slot is free or held by exactly one call that is still under way, *)
(* on every path through run_code (app/sandbox.py 115-128).                *)
THEOREM SlotsAccounted == HarnessSpec => []HarnessTypeOK
<1>1. HInv => HarnessTypeOK
  BY DEF HInv, SandInv, SType, SlotInv, DriverInv, HarnessTypeOK, SandboxTypeOK, States
<1> QED BY HarnessInvariant, <1>1, PTL

(* A container alive without a call that holds a slot has cost a failed    *)
(* docker kill and a failed docker rm, or one client that broke off        *)
(* (app/sandbox.py 131-159).                                               *)
THEOREM LeaksArePaidFor == HarnessSpec => []ContainersBounded
<1>1. HInv => ContainersBounded
  <2> SUFFICES ASSUME HInv PROVE ContainersBounded OBVIOUS
  <2>1. /\ IsFiniteSet(Holders) /\ Cardinality(Holders) \in Nat
        /\ IsFiniteSet(Leaked) /\ Cardinality(Leaked) \in Nat
        /\ Cardinality(boxes) \in Nat /\ Cardinality(Half) \in Nat
    BY Finite DEF HInv, SandInv
  <2>2. /\ failures \in Nat /\ broken \in Nat
        /\ 2 * Cardinality(Leaked) <= failures + 2 * broken
    BY <2>1 DEF HInv, SandInv, LeakInv, SType
  <2>3. Cardinality(boxes) <= Cardinality(Holders) + Cardinality(Leaked)
    <3>1. /\ IsFiniteSet(Holders \cup Leaked)
          /\ Cardinality(Holders \cup Leaked)
               = Cardinality(Holders) + Cardinality(Leaked) - Cardinality(Holders \cap Leaked)
      BY <2>1, FS_Union
    <3>2. Cardinality(Holders \cap Leaked) = 0
      <4>1. Holders \cap Leaked = {} BY DEF Leaked
      <4> QED BY <4>1, FS_EmptySet
    <3>3. Cardinality(boxes) <= Cardinality(Holders \cup Leaked)
      <4>1. boxes \subseteq Holders \cup Leaked BY DEF Leaked
      <4> QED BY <4>1, <3>1, FS_Subset
    <3> QED BY <2>1, <3>1, <3>2, <3>3
  <2>4. Cardinality(Holders) <= Slots
    BY <2>1, SandboxAssumption DEF HInv, SandInv, SlotInv
  <2>5. Cardinality(Leaked) <= failures \div 2 + broken BY <2>1, <2>2
  <2> QED BY <2>1, <2>2, <2>3, <2>4, <2>5, SandboxAssumption DEF ContainersBounded, Leaked
<1> QED BY HarnessInvariant, <1>1, PTL

(* A success with tests ran the solution and every test, at least one, and *)
(* all passed (app/harness.py 173-179).                                    *)
THEOREM SuccessIsEarned == HarnessSpec => []VerdictSound
<1>1. HInv => VerdictSound
  <2> SUFFICES ASSUME HInv, NEW c \in Calls, Success(c), driver[c].given
               PROVE  /\ driver[c].loaded /\ driver[c].total > 0
                      /\ driver[c].ran = driver[c].total
                      /\ driver[c].passed = driver[c].total
    BY DEF VerdictSound
  <2>1. driver[c].total > 0 /\ driver[c].passed = driver[c].total
    BY DEF Success, TestsOk, AllPassed
  <2>2. /\ driver[c].passed \in Nat /\ driver[c].ran \in Nat /\ driver[c].total \in Nat
        /\ driver[c].passed <= driver[c].ran /\ driver[c].ran <= driver[c].total
        /\ driver[c].ran > 0 => driver[c].loaded
    BY HarnessAssumption DEF HInv, DriverInv, Driver
  <2> QED BY <2>1, <2>2
<1> QED BY HarnessInvariant, <1>1, PTL

=============================================================================
