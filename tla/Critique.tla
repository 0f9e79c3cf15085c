------------------------------ MODULE Critique ------------------------------
(***************************************************************************)
(* How answers of a model are read (app/critique.py): the verdict of a     *)
(* reviewer, a text with headings in whatever order the model chose, and   *)
(* the diagnosis of a failure, a JSON object or not.  What is read decides *)
(* whether a run goes on (Pipeline).                                       *)
(*                                                                         *)
(* A line is its heading (or "dash", "text", "blank"), whether it contains *)
(* the word REWRITE, and the number it gives, in hundredths: "0.85" is 85, *)
(* "85" and "85%" are 8500.                                                *)
(***************************************************************************)
EXTENDS Integers, Sequences, FiniteSets

CONSTANTS
  Lines,       \* the lines an answer may consist of
  MaxLines,    \* bound: how many lines an answer has
  Replies,     \* what an answer to diagnose_failure may be
  Garbage, NaN, Huge, Absent    \* numbers that are none

ASSUME CritiqueAssumption ==
  /\ Lines \subseteq [head : STRING, rewrite : BOOLEAN, number : Int \cup {Garbage, NaN}]
  /\ Replies \subseteq [object : BOOLEAN, blame : STRING,
                       confidence : Int \cup {Garbage, NaN, Huge, Absent}]
  /\ {Garbage, NaN, Huge, Absent} \cap Int = {}

VARIABLES
  lines,       \* the reviewer's answer so far
  reply        \* the answer to diagnose_failure

critiqueVars == <<lines, reply>>

-----------------------------------------------------------------------------
(* _parse_verdict.                                                         *)

Clamp(n) == IF n < 0 THEN 0 ELSE IF n > 100 THEN 100 ELSE n

(* A number over 1.0 is taken for a percentage, and rounded to hundredths. *)
(* (max and min let NaN through as 1.0.)                                   *)
AsConfidence(value) ==
  IF value = NaN THEN 100 ELSE Clamp(IF value > 100 THEN (value + 50) \div 100 ELSE value)

Legible(value) == value # Garbage

NoVerdict == [verdict |-> "APPROVED", confidence |-> 85, reasoning |-> 0,
              issues |-> <<>>, instructions |-> <<>>]

(* One line of the first loop.                                             *)
Heading(result, line) ==
  CASE line.head = "VERDICT"    -> [result EXCEPT !.verdict = IF line.rewrite THEN "REWRITE" ELSE "APPROVED"]
    [] line.head = "CONFIDENCE" ->
         [result EXCEPT !.confidence =
            IF Legible(line.number) THEN AsConfidence(line.number)
            ELSE IF result.verdict = "REWRITE" THEN 50 ELSE 85]
    [] line.head = "REASONING"  -> [result EXCEPT !.reasoning = line.number]
    [] OTHER                    -> result

SectionsOverlap(state, line) ==    \* slip: in_issues is not switched off
  CASE line.head = "ISSUES"       -> [state EXCEPT !.inIssues = TRUE, !.inInstructions = FALSE]
    [] line.head = "INSTRUCTIONS" -> [state EXCEPT !.inInstructions = TRUE]
    [] OTHER                      -> state

(* One line of the second loop: headings switch the section,               *)
Sections(state, line) ==
  CASE line.head = "ISSUES"       -> [state EXCEPT !.inIssues = TRUE, !.inInstructions = FALSE]
    [] line.head = "INSTRUCTIONS" -> [state EXCEPT !.inIssues = FALSE, !.inInstructions = TRUE]
    [] OTHER                      -> state

(* and any other line is taken by the section it is in.                    *)
Collect(state, line) ==
  IF line.head \in {"ISSUES", "INSTRUCTIONS"} THEN Sections(state, line)
  ELSE [state EXCEPT
          !.issues       = IF state.inIssues /\ line.head = "dash" THEN Append(@, line) ELSE @,
          !.instructions = IF state.inInstructions /\ line.head # "blank" THEN Append(@, line) ELSE @]

Headings(text) ==    \* after so many lines
  LET result[i \in 0..Len(text)] ==
        IF i = 0 THEN NoVerdict ELSE Heading(result[i - 1], text[i])
  IN  result

Collected(text) ==
  LET found[i \in 0..Len(text)] ==
        IF i = 0 THEN [inIssues |-> FALSE, inInstructions |-> FALSE,
                       issues |-> <<>>, instructions |-> <<>>]
                 ELSE Collect(found[i - 1], text[i])
  IN  found

ParseVerdict(text) ==
  LET result == Headings(text)[Len(text)]
      found  == Collected(text)[Len(text)]
  IN  IF result.verdict = "REWRITE"
      THEN [result EXCEPT !.issues = found.issues, !.instructions = found.instructions]
      ELSE result

-----------------------------------------------------------------------------
(* _parse_diagnosis.  An integer too large for a float raises (and counts  *)
(* as no diagnosis at all); whatever else is illegible is replaced.        *)

Raised == [confidence |-> -1, blame |-> "nobody"]

ParseDiagnosis(r) ==
  IF ~r.object THEN [confidence |-> 60, blame |-> "code"]
  ELSE IF r.confidence = Huge THEN Raised
  ELSE [confidence |-> IF r.confidence \in {Absent, Garbage} THEN 60
                       ELSE IF r.confidence = NaN THEN 100 ELSE Clamp(r.confidence),
        blame      |-> IF r.blame = "tests" THEN "tests" ELSE "code"]

-----------------------------------------------------------------------------
(* Answers: line after line, and one reply.                                *)

CritiqueInit == lines = <<>> /\ reply \in Replies

AnotherLine ==
  /\ Len(lines) < MaxLines
  /\ \E line \in Lines : lines' = Append(lines, line)
  /\ UNCHANGED reply

CritiqueSpec == CritiqueInit /\ [][AnotherLine]_critiqueVars

-----------------------------------------------------------------------------
(* Properties.                                                             *)

(* Line i is the last of its heading among the first n.                    *)
LastOf(head, i, n) ==
  lines[i].head = head /\ \A k \in (i + 1)..n : lines[k].head # head

(* The heading of a section comes before line i, and none of another       *)
(* section in between.                                                     *)
InSection(head, i) ==
  \E j \in 1..(i - 1) :
    lines[j].head = head /\ \A k \in (j + 1)..(i - 1) : lines[k].head \notin {"ISSUES", "INSTRUCTIONS"}

(* list consists of the lines at the places S, in their order.             *)
ListsLinesAt(list, S) ==
  Len(list) = Cardinality(S) /\ \A i \in S : list[Cardinality(S \cap 1..i)] = lines[i]

IssueLines(n) == {i \in 1..n : InSection("ISSUES", i) /\ lines[i].head = "dash"}
InstructionLines(n) ==
  {i \in 1..n : /\ InSection("INSTRUCTIONS", i)
                /\ lines[i].head \notin {"blank", "ISSUES", "INSTRUCTIONS"}}

(* A verdict is read as it was written, in whatever order its headings     *)
(* come and however often: the last verdict counts, a rewrite has the      *)
(* issues and the instructions under their own headings and an approval    *)
(* none, and the confidence is a probability, the one written last if it   *)
(* is legible.  (critique.py 155: "Parse the structured verdict,           *)
(* confidence score, and instructions from the critique LLM.")             *)
VerdictAsWritten ==
  LET v       == ParseVerdict(lines)
      n       == Len(lines)
      rewrite == \E i \in 1..n : LastOf("VERDICT", i, n) /\ lines[i].rewrite
  IN  /\ v.verdict = IF rewrite THEN "REWRITE" ELSE "APPROVED"
      /\ IF rewrite THEN /\ ListsLinesAt(v.issues, IssueLines(n))
                         /\ ListsLinesAt(v.instructions, InstructionLines(n))
                    ELSE v.issues = <<>> /\ v.instructions = <<>>
      /\ v.confidence \in 0..100
      /\ \A i \in 1..n : LastOf("CONFIDENCE", i, n) /\ Legible(lines[i].number)
                         => v.confidence = AsConfidence(lines[i].number)

(* Only a legible number below the threshold stops a run, and only a reply *)
(* that says so has the tests rewritten: garbage does neither, whichever   *)
(* part of the reply it spoils.                                            *)
GarbageChangesNothing ==
  LET d == ParseDiagnosis(reply)
  IN  /\ d # Raised => d.confidence \in 0..100
      /\ d.confidence \in 0..29 => reply.object /\ reply.confidence \in Int /\ reply.confidence < 30
      /\ d.blame = "tests" => reply.object /\ reply.blame = "tests"

AnswersAsWritten == VerdictAsWritten /\ GarbageChangesNothing

=============================================================================
