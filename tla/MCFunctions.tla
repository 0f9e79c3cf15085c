---------------------------- MODULE MCFunctions -----------------------------
(* What a run goes by: the functions of Critique, QualityMetrics and        *)
(* Recollection, one of which is given ever longer inputs, or the memory    *)
(* under concurrent operations.                                             *)
EXTENDS Critique, QualityMetrics, Recollection, Memory, TLC

VARIABLE subject    \* the function under study, or the memory

functionVars == <<critiqueVars, metricsVars, recalled, memoryVars, subject>>

CONSTANTS m1, m2, m3, w1, w2, o1, o2, o3, o4, o5

MCIds        == {m1, m2, m3}
MCWorkspaces == {w1, w2}
MCCalls      == {o1, o2, o3, o4, o5}

(* Operations are interchangeable, and no property is a liveness property.  *)
MCSymmetry == Permutations(MCCalls)

Line(h, yes, n) == [head |-> h, rewrite |-> yes, number |-> n]

MCLines ==
  {Line("VERDICT", yes, 0) : yes \in BOOLEAN}
    \cup {Line("CONFIDENCE", FALSE, n) : n \in {-20, 65, 100, 8560, 20000, Garbage, NaN}}
    \cup {Line(h, FALSE, 0) : h \in {"REASONING", "ISSUES", "INSTRUCTIONS", "dash", "text", "blank"}}

MCReplies ==
  [object : BOOLEAN, confidence : {-10, 0, 29, 30, 100, 250, Garbage, NaN, Huge, Absent},
   blame : {"absent", "code", "tests", "nobody"}]

MCLimits == [f \in Fields |-> IF f = "code" THEN 4 ELSE 2]

Plain(n) == [i \in 1..n |-> "text"]
Tag    == <<"open", "close">>
Nested == <<"open">> \o Tag \o <<"close">>

MCRemembered ==
  {[kind |-> kind,
    text |-> [task |-> Plain(1), code |-> code, error |-> error, lesson |-> lesson]] :
     kind \in {"failure", "fix"}, code \in {Plain(0), Plain(3) \o Nested},
     error \in {Tag, Nested, Plain(5)}, lesson \in {Plain(0), Nested \o Plain(2)}}

MCInit ==
  /\ subject \in {"verdict", "diagnosis", "quality", "memories", "store"}
  /\ subject = "diagnosis" \/ reply = CHOOSE r \in MCReplies : r.object
  /\ subject = "quality" \/ evidence = CHOOSE e \in Evidence : TRUE
  /\ CritiqueInit /\ MetricsInit /\ RecollectionInit /\ MemoryInit
  /\ subject = "store" \/ ws = [c \in MCCalls |-> w1]

MCNext ==
  \/ /\ subject = "verdict" /\ AnotherLine
     /\ UNCHANGED <<metricsVars, recalled, memoryVars, subject>>
  \/ /\ subject = "quality" /\ AnotherFinding
     /\ UNCHANGED <<critiqueVars, recalled, memoryVars, subject>>
  \/ /\ subject = "memories" /\ AnotherMemory
     /\ UNCHANGED <<critiqueVars, metricsVars, memoryVars, subject>>
  \/ /\ subject = "store" /\ MemoryNext
     /\ UNCHANGED <<critiqueVars, metricsVars, recalled, subject>>

MCSpec == MCInit /\ [][MCNext]_functionVars
=============================================================================
