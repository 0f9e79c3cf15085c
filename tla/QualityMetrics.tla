--------------------------- MODULE QualityMetrics ---------------------------
(***************************************************************************)
(* The quality score of code that passed (app/metrics.py, with the         *)
(* fallbacks of app/static_analysis.py): a weighted average over what was  *)
(* measured, out of what tests, scanners and reviewers found.  Scores are  *)
(* in hundredths; the evidence grows by one finding at a time.             *)
(***************************************************************************)
EXTENDS Integers

CONSTANTS
  Totals,          \* how many tests a report may count
  Coverages,       \* the coverages traced
  Complexities,    \* the cyclomatic complexities to start from
  MaxFindings      \* bound: how many findings are added

ASSUME MetricsAssumption ==
  Totals \subseteq Nat /\ Coverages \subseteq 0..100 /\ Complexities \subseteq Nat

VARIABLES evidence, findings

metricsVars == <<evidence, findings>>

NotAvailable == -1    \* None

WEIGHTS ==
  [tests |-> 30, coverage |-> 15, security |-> 25, complexity |-> 15, performance |-> 15]
Components == {"tests", "coverage", "security", "complexity", "performance"}
Sum(f) == f["tests"] + f["coverage"] + f["security"] + f["complexity"] + f["performance"]

Severities == {"CRITICAL", "HIGH", "MEDIUM", "LOW"}
NoFindings == [s \in Severities |-> 0]

Larger(a, b)  == IF a < b THEN b ELSE a
Smaller(a, b) == IF a < b THEN a ELSE b

(* a / b in hundredths, a half rounded up (the floats of the code may fall  *)
(* either way from a half).                                                *)
Rounded(a, b) == (2 * a + b) \div (2 * b)

-----------------------------------------------------------------------------
(* The scores of the components.                                           *)

ComplexityGentle(n) ==    \* slip: half the slope beyond the last step
  IF n <= 5 THEN 100 ELSE IF n <= 10 THEN 85 ELSE IF n <= 15 THEN 70
  ELSE IF n <= 25 THEN 50 ELSE Larger(20, 100 - n)

ComplexityScore(n) ==
  IF n <= 5 THEN 100 ELSE IF n <= 10 THEN 85 ELSE IF n <= 15 THEN 70
  ELSE IF n <= 25 THEN 50 ELSE Larger(20, 100 - 2 * n)

Penalty(counts, of) ==
  counts["CRITICAL"] * of["CRITICAL"] + counts["HIGH"] * of["HIGH"]
    + counts["MEDIUM"] * of["MEDIUM"] + counts["LOW"] * of["LOW"]

LlmPenalty == [CRITICAL |-> 50, HIGH |-> 30, MEDIUM |-> 15, LOW |-> 5]

(* An audit is absent, says SECURE, tags findings, or is untagged prose.   *)
LlmSecurityScore(audit) ==
  IF audit.kind = "absent" THEN NotAvailable
  ELSE IF audit.kind = "secure" THEN 100
  ELSE IF audit.counts = NoFindings THEN 60
  ELSE Larger(0, 100 - Penalty(audit.counts, LlmPenalty))

BanditPenalty == [CRITICAL |-> 0, HIGH |-> 40, MEDIUM |-> 20, LOW |-> 5]

(* A scan that raises reports itself available, without issues.            *)
BanditScan(scan) ==
  [available |-> scan.kind # "missing",
   counts |-> IF scan.kind = "ran" THEN scan.counts ELSE NoFindings]

BanditScore(bandit) ==
  IF ~bandit.available THEN NotAvailable
  ELSE Larger(0, 100 - Penalty(bandit.counts, BanditPenalty))

PerformanceAssumed(review) ==    \* slip: nothing noted, nothing to improve
  IF review.kind \in {"absent", "optimized"} THEN 100
  ELSE Larger(30, 100 - 15 * Larger(1, review.numbered))

PerformanceScore(review) ==
  IF review.kind = "absent" THEN NotAvailable
  ELSE IF review.kind = "optimized" THEN 100
  ELSE Larger(30, 100 - 15 * Larger(1, review.numbered))

MinKnown(a, b) ==
  IF a = NotAvailable THEN b ELSE IF b = NotAvailable THEN a ELSE Smaller(a, b)

-----------------------------------------------------------------------------
(* calculate_quality_metrics.                                              *)

(* A report without tests measures neither tests nor coverage.             *)
Scores(e) ==
  [tests       |-> IF e.report.total = 0 THEN NotAvailable
                   ELSE Rounded(100 * e.report.passed, e.report.total),
   coverage    |-> IF e.report.total = 0 THEN NotAvailable ELSE e.report.coverage,
   security    |-> MinKnown(BanditScore(BanditScan(e.scan)), LlmSecurityScore(e.audit)),
   complexity  |-> ComplexityScore(e.complexity),
   performance |-> PerformanceScore(e.review)]

Measured(scores) == {c \in Components : scores[c] # NotAvailable}

(* weight_sum, and sum(v * WEIGHTS[k]).                                    *)
Weight(scores) == Sum([c \in Components |-> IF c \in Measured(scores) THEN WEIGHTS[c] ELSE 0])
Total(scores) ==
  Sum([c \in Components |-> IF c \in Measured(scores) THEN WEIGHTS[c] * scores[c] ELSE 0])

Overall(scores) == Rounded(Total(scores), Weight(scores))

-----------------------------------------------------------------------------
(* The evidence of a run, and one finding more.                            *)

Kinds(S) == [kind : S, counts : {NoFindings}]

Reports ==
  UNION {[passed : 0..n, total : {n}, coverage : {NotAvailable} \cup Coverages] : n \in Totals}

Evidence ==
  [report : Reports, complexity : Complexities,
   scan : Kinds({"missing", "failed", "ran"}), audit : Kinds({"absent", "secure", "prose"}),
   review : [kind : {"absent", "optimized", "notes"}, numbered : {0}]]

MetricsInit == evidence \in Evidence /\ findings = 0

MoreComplex == evidence' = [evidence EXCEPT !.complexity = @ + 1]

IssueFound ==
  /\ evidence.scan.kind = "ran"
  /\ \E s \in Severities \ {"CRITICAL"} : evidence' = [evidence EXCEPT !.scan.counts[s] = @ + 1]

AuditTagged ==
  /\ evidence.audit.kind # "absent"
  /\ \E s \in Severities : evidence' = [evidence EXCEPT
       !.audit = [kind |-> "tagged", counts |-> [evidence.audit.counts EXCEPT ![s] = @ + 1]]]

PerformanceNoted ==
  /\ evidence.review.kind # "absent"
  /\ evidence' = [evidence EXCEPT !.review = [kind |-> "notes", numbered |-> @.numbered + 1]]

TestFailed ==
  /\ evidence.report.passed > 0
  /\ evidence' = [evidence EXCEPT !.report.passed = @ - 1]

AnotherFinding ==
  /\ findings < MaxFindings /\ findings' = findings + 1
  /\ \/ MoreComplex \/ IssueFound \/ AuditTagged \/ PerformanceNoted \/ TestFailed

MetricsSpec == MetricsInit /\ [][AnotherFinding]_metricsVars

-----------------------------------------------------------------------------
(* Properties.                                                             *)

(* Prose is audited at 60; the first tag in it that is not CRITICAL counts *)
(* for less than that.                                                     *)
ProseGetsATag ==
  /\ evidence.audit.kind = "prose" /\ evidence'.audit.kind = "tagged"
  /\ evidence'.audit.counts["CRITICAL"] = 0

(* One finding more never raises the score, across the steps, floors and   *)
(* minima of all components, with one exception: an audit without tags     *)
(* that gets its first one, short of CRITICAL, may come to be worth more   *)
(* (metrics.py 65-68).                                                     *)
FindingsOnlyLower ==
  [][findings' = findings + 1
       => \/ Overall(Scores(evidence')) <= Overall(Scores(evidence))
          \/ ProseGetsATag]_metricsVars

(* There is nothing to measure a component by.                             *)
Skipped(e) == {c \in Components :
  CASE c = "tests"       -> e.report.total = 0
    [] c = "coverage"    -> e.report.total = 0 \/ e.report.coverage = NotAvailable
    [] c = "security"    -> e.scan.kind \in {"missing", "failed"} /\ e.audit.kind = "absent"
    [] c = "performance" -> e.review.kind = "absent"
    [] OTHER             -> FALSE}

(* What was skipped is worth less than had it been perfect, unless all the *)
(* rest is; and the score lies between those of what was not.              *)
ScoredOn(skipped) ==
  LET scores == Scores(evidence)
      known  == {scores[c] : c \in Components \ skipped}
      perfect(c) == [scores EXCEPT ![c] = 100]
  IN  /\ \E low, high \in known : Overall(scores) \in low..high
      /\ \A c \in skipped : known # {100} =>
           Total(scores) * Weight(perfect(c)) < Total(perfect(c)) * Weight(scores)

(* A component there is no evidence for drops out of the score, with one   *)
(* exception: the security of code that no reviewer audited and whose      *)
(* scan failed is scored as if the scan had run (static_analysis.py 44),   *)
(* against metrics.py 4-5: "A component that was skipped is N/A and drops  *)
(* out of the weighted average; it never counts as perfect".               *)
FailedScan == IF evidence.scan.kind = "failed" THEN {"security"} ELSE {}

SkippedIsNotPerfect == ScoredOn(Skipped(evidence) \ FailedScan)

=============================================================================
