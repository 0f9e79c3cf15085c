-------------------------- MODULE EvaluationProofs --------------------------
(***************************************************************************)
(* Theorems about Evaluation, for any jobs of any size, any number of      *)
(* attempts and crashes, and any length of the list.                       *)
(*                                                                         *)
(* A summary is made of the records of a job, and the history counts       *)
(* outcomes as they come.  The invariant says, job by job, how far the one *)
(* is ahead of the other: by the draft of the problem the job is at.       *)
(***************************************************************************)
EXTENDS Evaluation, FiniteSetTheorems, TLAPS

Stages == {"idle", "started", "baseline", "attempt", "record",
           "insert", "save", "write", "mark", "raised", "over"}
Drafts == [base : BOOLEAN, boxed : BOOLEAN, tries : Nat, passedAt : Nat]
Tallies == [base : Nat, first : Nat, solved : Nat, outside : BOOLEAN]
Summaries == [total : Nat, boxed : BOOLEAN, base : Nat, first : Nat, solved : Nat]
Entries == [status : {"unknown", "running", "done", "failed"}, done : Nat]

ETypes ==
  /\ size \in [Jobs -> Nat]
  /\ at \in [Jobs -> Stages]
  /\ draft \in [Jobs -> Drafts]
  /\ results \in [Jobs -> Seq(Drafts)]
  /\ summary \in [Jobs -> Summaries]
  /\ tally \in [Jobs -> Tallies]
  /\ table \in [Jobs -> Entries]
  /\ file \in [Jobs -> {"none", "partial", "whole"}]
  /\ rows \in Seq(Jobs)

(* How many records are of a kind.                                         *)
Those(r, kind) == Cardinality({i \in DOMAIN r : r[i] \in kind})
ByBase   == {d \in Drafts : d.base}
AtFirst  == {d \in Drafts : d.passedAt = 1}
AtAll    == {d \in Drafts : d.passedAt # 0}
Of(d, kind) == IF d \in kind THEN 1 ELSE 0

Begun(j) == at[j] \in {"baseline", "attempt", "record"}

(* What was counted, beside the records, for the problem the job is at.    *)
CountInv(j) ==
  /\ at[j] \in {"idle", "started"} =>
       results[j] = <<>> /\ tally[j] = [base |-> 0, first |-> 0, solved |-> 0, outside |-> FALSE]
  /\ at[j] = "started" => size[j] > 0
  /\ Begun(j) =>
       /\ Len(results[j]) < size[j]
       /\ tally[j].base = Those(results[j], ByBase)
                            + (IF at[j] = "baseline" THEN 0 ELSE Of(draft[j], ByBase))
       /\ tally[j].first = Those(results[j], AtFirst)
                            + (IF at[j] = "record" THEN Of(draft[j], AtFirst) ELSE 0)
       /\ tally[j].solved = Those(results[j], AtAll)
                            + (IF at[j] = "record" THEN Of(draft[j], AtAll) ELSE 0)
  /\ at[j] = "attempt" => draft[j].passedAt = 0

(* What ran outside the sandbox is on record.                              *)
BoxInv(j) ==
  Begun(j) =>
    /\ tally[j].outside => \/ at[j] # "baseline" /\ ~draft[j].boxed
                           \/ \E i \in DOMAIN results[j] : ~results[j][i].boxed
    /\ j \notin Unsafe => \A i \in DOMAIN results[j] : results[j][i].boxed

Earned(j) ==
  /\ ~tally[j].outside
  /\ summary[j] = [total |-> size[j], boxed |-> TRUE, base |-> tally[j].base,
                   first |-> tally[j].first, solved |-> tally[j].solved]

InRows(j)     == \E i \in DOMAIN rows : rows[i] = j
Publishing(j) == at[j] \in {"insert", "save", "write", "mark"}

PublishedInv(j) ==
  /\ Publishing(j) \/ InRows(j) \/ file[j] = "whole" => Earned(j)
  /\ InRows(j) \/ file[j] = "whole" => at[j] \in {"save", "write", "mark", "raised", "over"}

TableInv(j) ==
  /\ at[j] \in {"started", "insert", "mark"} => j \notin Cli
  /\ Publishing(j) /\ j \notin Cli => table[j].done = size[j]
  /\ at[j] = "mark" => file[j] = "whole"
  /\ table[j].status = "done" => at[j] = "over" /\ file[j] = "whole" /\ table[j].done = size[j]

JobInv(j) == CountInv(j) /\ BoxInv(j) /\ PublishedInv(j) /\ TableInv(j)

EInv == ETypes /\ \A j \in Jobs : JobInv(j)

-----------------------------------------------------------------------------
(* Counting.                                                               *)

LEMMA EmptyCounts == ASSUME NEW kind PROVE Those(<<>>, kind) = 0
  BY FS_EmptySet DEF Those

LEMMA AppendCounts ==
  ASSUME NEW r \in Seq(Drafts), NEW d \in Drafts, NEW kind
  PROVE  Those(Append(r, d), kind) = Those(r, kind) + Of(d, kind) /\ Those(r, kind) \in Nat
<1> DEFINE old == {i \in DOMAIN r : r[i] \in kind}
           n   == Len(r) + 1
           new == {i \in DOMAIN Append(r, d) : Append(r, d)[i] \in kind}
<1>1. IsFiniteSet(old)
  <2>1. IsFiniteSet(1..Len(r)) BY FS_Interval
  <2> QED BY <2>1, FS_Subset
<1>2. n \notin old OBVIOUS
<1>3. CASE d \in kind
  <2>1. new = old \cup {n} BY <1>3
  <2> QED BY <1>1, <1>2, <1>3, <2>1, FS_AddElement, FS_CardinalityType DEF Those, Of
<1>4. CASE d \notin kind
  <2>1. new = old BY <1>4
  <2>2. Cardinality(old) \in Nat BY <1>1, FS_CardinalityType
  <2>3. Those(Append(r, d), kind) = Cardinality(old) /\ Those(r, kind) = Cardinality(old)
    BY <2>1 DEF Those
  <2>4. Of(d, kind) = 0 BY <1>4 DEF Of
  <2> QED BY <2>2, <2>3, <2>4
<1> QED BY <1>3, <1>4

LEMMA SummaryCounts ==
  ASSUME NEW r \in Seq(Drafts)
  PROVE  /\ Summarize(r) \in Summaries
         /\ Summarize(r).boxed <=> \A i \in DOMAIN r : r[i].boxed
         /\ Summarize(r) = [total |-> Len(r), boxed |-> Summarize(r).boxed,
                            base |-> Those(r, ByBase), first |-> Those(r, AtFirst),
                            solved |-> Those(r, AtAll)]
<1> DEFINE all == \A i \in DOMAIN r : r[i].boxed
<1>1. {i \in DOMAIN r : r[i].base} = {i \in DOMAIN r : r[i] \in ByBase} BY DEF ByBase
<1>2. {i \in DOMAIN r : r[i].passedAt = 1} = {i \in DOMAIN r : r[i] \in AtFirst} BY DEF AtFirst
<1>3. {i \in DOMAIN r : r[i].passedAt # 0} = {i \in DOMAIN r : r[i] \in AtAll} BY DEF AtAll
<1>4. Summarize(r) = [total |-> Len(r), boxed |-> all, base |-> Those(r, ByBase),
                      first |-> Those(r, AtFirst), solved |-> Those(r, AtAll)]
  BY <1>1, <1>2, <1>3 DEF Summarize, Count, Those
<1>5. /\ Those(r, ByBase) \in Nat /\ Those(r, AtFirst) \in Nat /\ Those(r, AtAll) \in Nat
  <2>1. [base |-> TRUE, boxed |-> TRUE, tries |-> 0, passedAt |-> 0] \in Drafts BY DEF Drafts
  <2> QED BY <2>1, AppendCounts
<1>6. all \in BOOLEAN OBVIOUS
<1> HIDE DEF all
<1>7. Summarize(r) \in Summaries BY <1>4, <1>5, <1>6 DEF Summaries
<1>8. Summarize(r).boxed = all BY <1>4
<1> QED BY <1>4, <1>7, <1>8 DEF all

-----------------------------------------------------------------------------
(* A step of one job leaves all others as they are.                        *)

Untouched(j) ==
  /\ at'[j] = at[j] /\ draft'[j] = draft[j] /\ results'[j] = results[j]
  /\ summary'[j] = summary[j] /\ tally'[j] = tally[j] /\ table'[j] = table[j]
  /\ file'[j] = file[j] /\ size'[j] = size[j]
  /\ InRows(j)' <=> InRows(j)

LEMMA LeftAlone == ASSUME NEW j \in Jobs, JobInv(j), Untouched(j) PROVE JobInv(j)'
<1> USE DEF Untouched
<1>1. CountInv(j)' BY DEF JobInv, CountInv, Begun
<1>2. BoxInv(j)' BY DEF JobInv, BoxInv, Begun
<1>3. PublishedInv(j)' BY DEF JobInv, PublishedInv, Publishing, Earned
<1>4. TableInv(j)' BY DEF JobInv, TableInv, Publishing
<1> QED BY <1>1, <1>2, <1>3, <1>4 DEF JobInv

Step(j) == ETypes' /\ JobInv(j)' /\ \A k \in Jobs \ {j} : Untouched(k)

LEMMA OneJob == ASSUME EInv, NEW j \in Jobs, Step(j) PROVE EInv'
<1>1. ASSUME NEW k \in Jobs, k # j PROVE JobInv(k)' BY <1>1, LeftAlone DEF EInv, Step
<1> QED BY <1>1 DEF EInv, Step

LEMMA EInitial == EvaluationAssumption /\ EvaluationInit => EInv
<1> SUFFICES ASSUME EvaluationAssumption, EvaluationInit PROVE EInv OBVIOUS
<1> USE DEF EvaluationInit, NoDraft, NoSummary, Unknown
<1>1. ETypes BY DEF EvaluationAssumption, ETypes, Stages, Drafts, Entries, Tallies, Summaries
<1>2. ASSUME NEW j \in Jobs PROVE JobInv(j)
  <2>1. ~InRows(j) BY DEF InRows
  <2> QED BY <2>1 DEF JobInv, CountInv, BoxInv, PublishedInv, TableInv, Begun, Publishing
<1> QED BY <1>1, <1>2 DEF EInv

(* What Tell adds to the history.                                          *)
LEMMA Told ==
  ASSUME NEW j \in Jobs, tally \in [Jobs -> Tallies],
         NEW b \in BOOLEAN, NEW f \in BOOLEAN, NEW s \in BOOLEAN, NEW x \in BOOLEAN,
         Tell(j, b, f, s, x)
  PROVE  \E t \in Tallies :
           /\ tally' = [tally EXCEPT ![j] = t]
           /\ t.base = tally[j].base + One(b) /\ t.first = tally[j].first + One(f)
           /\ t.solved = tally[j].solved + One(s)
           /\ t.outside => tally[j].outside \/ ~x
<1> DEFINE o == tally[j].outside \/ ~x
           t == [base |-> tally[j].base + One(b), first |-> tally[j].first + One(f),
                 solved |-> tally[j].solved + One(s), outside |-> o]
<1>1. o \in BOOLEAN OBVIOUS
<1>2. /\ tally[j].base + One(b) \in Nat /\ tally[j].first + One(f) \in Nat
      /\ tally[j].solved + One(s) \in Nat
  <2>1. tally[j].base \in Nat /\ tally[j].first \in Nat /\ tally[j].solved \in Nat BY DEF Tallies
  <2>2. One(b) \in Nat /\ One(f) \in Nat /\ One(s) \in Nat BY DEF One
  <2> QED BY <2>1, <2>2
<1>3. tally' = [tally EXCEPT ![j] = t] BY DEF Tell
<1> HIDE DEF o
<1>4. t \in Tallies BY <1>1, <1>2 DEF Tallies
<1>5. /\ t.base = tally[j].base + One(b) /\ t.first = tally[j].first + One(f)
      /\ t.solved = tally[j].solved + One(s) /\ t.outside = o
  OBVIOUS
<1> HIDE DEF t
<1>6. t.outside => tally[j].outside \/ ~x BY <1>5 DEF o
<1> QED BY <1>3, <1>4, <1>5, <1>6

-----------------------------------------------------------------------------
(* One step of a job.                                                      *)

LEMMA EStart == ASSUME EInv, NEW j \in Jobs, Start(j) PROVE EInv'
<1> USE DEF Start, Go, work, published
<1>0. ETypes /\ JobInv(j) BY DEF EInv
<1>1. ETypes' BY <1>0 DEF ETypes, Stages, Entries
<1>2. InRows(j)' <=> InRows(j) BY DEF InRows
<1>3. JobInv(j)'
  <2>1. CountInv(j)' BY <1>0, EmptyCounts DEF ETypes, Entries, Tallies, JobInv, CountInv, Begun
  <2>2. BoxInv(j)' BY <1>0 DEF ETypes, Entries, Tallies, JobInv, CountInv, BoxInv, Begun
  <2>3. PublishedInv(j)' BY <1>0, <1>2 DEF ETypes, Entries, Tallies, JobInv, PublishedInv, Publishing, Earned
  <2>4. TableInv(j)' BY <1>0 DEF ETypes, Entries, Tallies, JobInv, TableInv, Publishing
  <2> QED BY <2>1, <2>2, <2>3, <2>4 DEF JobInv
<1>4. \A k \in Jobs \ {j} : Untouched(k) BY <1>0 DEF ETypes, Untouched, InRows
<1> QED BY <1>1, <1>3, <1>4, OneJob DEF Step

LEMMA ERegister == ASSUME EInv, NEW j \in Jobs, Register(j) PROVE EInv'
<1> USE DEF Register, Go, work, published
<1>0. ETypes /\ JobInv(j) BY DEF EInv
<1>1. ETypes' BY <1>0 DEF ETypes, Stages, Entries
<1>2. InRows(j)' <=> InRows(j) BY DEF InRows
<1>3. JobInv(j)'
  <2>1. CountInv(j)' BY <1>0, EmptyCounts DEF ETypes, Entries, Tallies, JobInv, CountInv, Begun
  <2>2. BoxInv(j)' BY <1>0 DEF ETypes, Entries, Tallies, JobInv, CountInv, BoxInv, Begun
  <2>3. PublishedInv(j)' BY <1>0, <1>2 DEF ETypes, Entries, Tallies, JobInv, PublishedInv, Publishing, Earned
  <2>4. TableInv(j)' BY <1>0, <1>2 DEF ETypes, Entries, Tallies, JobInv, TableInv, PublishedInv, Publishing
  <2> QED BY <2>1, <2>2, <2>3, <2>4 DEF JobInv
<1>4. \A k \in Jobs \ {j} : Untouched(k) BY <1>0 DEF ETypes, Untouched, InRows
<1> QED BY <1>1, <1>3, <1>4, OneJob DEF Step

LEMMA EOpenFile == ASSUME EInv, NEW j \in Jobs, OpenFile(j) PROVE EInv'
<1> USE DEF OpenFile, Go, work, published
<1>0. ETypes /\ JobInv(j) BY DEF EInv
<1>1. ETypes' BY <1>0 DEF ETypes, Stages, Entries
<1>2. InRows(j)' <=> InRows(j) BY DEF InRows
<1>3. JobInv(j)'
  <2>1. CountInv(j)' BY <1>0, EmptyCounts DEF ETypes, Entries, Tallies, JobInv, CountInv, Begun
  <2>2. BoxInv(j)' BY <1>0 DEF ETypes, Entries, Tallies, JobInv, CountInv, BoxInv, Begun
  <2>3. PublishedInv(j)' BY <1>0, <1>2 DEF ETypes, Entries, Tallies, JobInv, PublishedInv, Publishing, Earned
  <2>4. TableInv(j)' BY <1>0, <1>2 DEF ETypes, Entries, Tallies, JobInv, TableInv, PublishedInv, Publishing
  <2> QED BY <2>1, <2>2, <2>3, <2>4 DEF JobInv
<1>4. \A k \in Jobs \ {j} : Untouched(k) BY <1>0 DEF ETypes, Untouched, InRows
<1> QED BY <1>1, <1>3, <1>4, OneJob DEF Step

LEMMA EWriteFile == ASSUME EInv, NEW j \in Jobs, WriteFile(j) PROVE EInv'
<1> USE DEF WriteFile, Go, work, published
<1>0. ETypes /\ JobInv(j) BY DEF EInv
<1>1. ETypes' BY <1>0 DEF ETypes, Stages, Entries
<1>2. InRows(j)' <=> InRows(j) BY DEF InRows
<1>3. JobInv(j)'
  <2>1. CountInv(j)' BY <1>0, EmptyCounts DEF ETypes, Entries, Tallies, JobInv, CountInv, Begun
  <2>2. BoxInv(j)' BY <1>0 DEF ETypes, Entries, Tallies, JobInv, CountInv, BoxInv, Begun
  <2>3. PublishedInv(j)' BY <1>0, <1>2 DEF ETypes, Entries, Tallies, JobInv, PublishedInv, Publishing, Earned
  <2>4. TableInv(j)' BY <1>0, <1>2 DEF ETypes, Entries, Tallies, JobInv, TableInv, PublishedInv, Publishing
  <2> QED BY <2>1, <2>2, <2>3, <2>4 DEF JobInv
<1>4. \A k \in Jobs \ {j} : Untouched(k) BY <1>0 DEF ETypes, Untouched, InRows
<1> QED BY <1>1, <1>3, <1>4, OneJob DEF Step

LEMMA EMarkDone == ASSUME EInv, NEW j \in Jobs, MarkDone(j) PROVE EInv'
<1> USE DEF MarkDone, Go, work, published
<1>0. ETypes /\ JobInv(j) BY DEF EInv
<1>1. ETypes' BY <1>0 DEF ETypes, Stages, Entries
<1>2. InRows(j)' <=> InRows(j) BY DEF InRows
<1>3. JobInv(j)'
  <2>1. CountInv(j)' BY <1>0, EmptyCounts DEF ETypes, Entries, Tallies, JobInv, CountInv, Begun
  <2>2. BoxInv(j)' BY <1>0 DEF ETypes, Entries, Tallies, JobInv, CountInv, BoxInv, Begun
  <2>3. PublishedInv(j)' BY <1>0, <1>2 DEF ETypes, Entries, Tallies, JobInv, PublishedInv, Publishing, Earned
  <2>4. TableInv(j)' BY <1>0, <1>2 DEF ETypes, Entries, Tallies, JobInv, TableInv, PublishedInv, Publishing
  <2> QED BY <2>1, <2>2, <2>3, <2>4 DEF JobInv
<1>4. \A k \in Jobs \ {j} : Untouched(k) BY <1>0 DEF ETypes, Untouched, InRows
<1> QED BY <1>1, <1>3, <1>4, OneJob DEF Step

LEMMA EMarkFailed == ASSUME EInv, NEW j \in Jobs, MarkFailed(j) PROVE EInv'
<1> USE DEF MarkFailed, Go, work, published, MarkEntry
<1>0. ETypes /\ JobInv(j) BY DEF EInv
<1>1. ETypes'
  <2>1. table' \in [Jobs -> Entries]
    <3>0. table[j] \in Entries BY <1>0 DEF ETypes
    <3>1. [table[j] EXCEPT !.status = "failed"] \in Entries BY <3>0 DEF Entries
    <3>2. table' = table \/ table' = [table EXCEPT ![j] = [table[j] EXCEPT !.status = "failed"]]
      BY <1>0 DEF ETypes
    <3> QED BY <1>0, <3>1, <3>2 DEF ETypes
  <2>2. at' \in [Jobs -> Stages] BY <1>0 DEF ETypes, Stages, Entries
  <2> QED BY <1>0, <2>1, <2>2 DEF ETypes
<1>2. InRows(j)' <=> InRows(j) BY DEF InRows
<1>3. JobInv(j)'
  <2>1. CountInv(j)' BY <1>0, EmptyCounts DEF ETypes, Entries, Tallies, JobInv, CountInv, Begun
  <2>2. BoxInv(j)' BY <1>0 DEF ETypes, Entries, Tallies, JobInv, CountInv, BoxInv, Begun
  <2>3. PublishedInv(j)' BY <1>0, <1>2 DEF ETypes, Entries, Tallies, JobInv, PublishedInv, Publishing, Earned
  <2>4. TableInv(j)' BY <1>0, <1>2 DEF ETypes, Entries, Tallies, JobInv, TableInv, PublishedInv, Publishing
  <2> QED BY <2>1, <2>2, <2>3, <2>4 DEF JobInv
<1>4. \A k \in Jobs \ {j} : Untouched(k) BY <1>0 DEF ETypes, Untouched, InRows
<1> QED BY <1>1, <1>3, <1>4, OneJob DEF Step

(* A row more is the row of the job that inserts it.                       *)
LEMMA EInsertRow == ASSUME EInv, NEW j \in Jobs, InsertRow(j) PROVE EInv'
<1> USE DEF InsertRow, Go, work
<1>0. ETypes /\ JobInv(j) BY DEF EInv
<1>1. ETypes'
  <2>1. rows' \in Seq(Jobs)
    <3>1. rows \in Seq(Jobs) BY <1>0 DEF ETypes
    <3>2. rows' = rows \/ rows' = Append(rows, j) OBVIOUS
    <3> QED BY <3>1, <3>2
  <2>2. at' \in [Jobs -> Stages] BY <1>0 DEF ETypes, Stages, Entries
  <2> QED BY <1>0, <2>1, <2>2 DEF ETypes
<1>2. ASSUME NEW k \in Jobs \ {j} PROVE InRows(k)' <=> InRows(k)
  <2>1. CASE rows' = rows BY <2>1 DEF InRows
  <2>2. CASE rows' = Append(rows, j)
    <3>1. rows \in Seq(Jobs) BY <1>0 DEF ETypes
    <3>2. Len(rows') = Len(rows) + 1 /\ rows'[Len(rows) + 1] = j BY <2>2, <3>1
    <3>3. \A i \in 1..Len(rows) : rows'[i] = rows[i] BY <2>2, <3>1
    <3> QED BY <3>1, <3>2, <3>3, <2>2 DEF InRows
  <2> QED BY <2>1, <2>2
<1>3. JobInv(j)'
  <2>1. CountInv(j)' BY <1>0 DEF ETypes, Entries, Tallies, JobInv, CountInv, Begun
  <2>2. BoxInv(j)' BY <1>0 DEF ETypes, Entries, Tallies, JobInv, CountInv, BoxInv, Begun
  <2>3. PublishedInv(j)' BY <1>0 DEF ETypes, Entries, Tallies, JobInv, PublishedInv, Publishing, Earned
  <2>4. TableInv(j)' BY <1>0 DEF ETypes, Entries, Tallies, JobInv, TableInv, PublishedInv, Publishing
  <2> QED BY <2>1, <2>2, <2>3, <2>4 DEF JobInv
<1>4. \A k \in Jobs \ {j} : Untouched(k) BY <1>0, <1>2 DEF ETypes, Untouched
<1> QED BY <1>1, <1>3, <1>4, OneJob DEF Step

LEMMA EBaseline == ASSUME EInv, NEW j \in Jobs, Baseline(j) PROVE EInv'
<1> DEFINE Ran(d, t) ==
      /\ draft' = [draft EXCEPT ![j] = d] /\ tally' = [tally EXCEPT ![j] = t]
      /\ d.passedAt = 0 /\ t.base = tally[j].base + Of(d, ByBase)
      /\ t.first = tally[j].first /\ t.solved = tally[j].solved
      /\ t.outside => tally[j].outside \/ ~d.boxed
<1>0. ETypes /\ JobInv(j) BY DEF EInv
<1>a. at[j] = "baseline" /\ at' = [at EXCEPT ![j] = "attempt"] BY DEF Baseline, Go
<1>b. tally \in [Jobs -> Tallies] /\ draft \in [Jobs -> Drafts] BY <1>0 DEF ETypes
<1>c. ASSUME draft' = [draft EXCEPT ![j] = NoDraft], tally' = tally
      PROVE  \E d \in Drafts, t \in Tallies : Ran(d, t)
  <2>1. NoDraft \in Drafts /\ Of(NoDraft, ByBase) = 0 /\ NoDraft.passedAt = 0
    BY DEF NoDraft, Drafts, Of, ByBase
  <2>2. tally[j] \in Tallies /\ tally[j].base \in Nat BY <1>b DEF Tallies
  <2>3. tally[j].base = tally[j].base + Of(NoDraft, ByBase) BY <2>1, <2>2
  <2>4. tally' = [tally EXCEPT ![j] = tally[j]] BY <1>b, <1>c
  <2>5. Ran(NoDraft, tally[j]) BY <1>c, <2>1, <2>3, <2>4
  <2> QED BY <2>1, <2>2, <2>5
<1>d. ASSUME NEW passed \in BOOLEAN, NEW boxed \in BOOLEAN,
             draft' = [draft EXCEPT ![j] =
               [base |-> passed, boxed |-> boxed, tries |-> 0, passedAt |-> 0]],
             Tell(j, passed, FALSE, FALSE, boxed)
      PROVE  \E d \in Drafts, t \in Tallies : Ran(d, t)
  <2> DEFINE d == [base |-> passed, boxed |-> boxed, tries |-> 0, passedAt |-> 0]
  <2>1. d \in Drafts /\ Of(d, ByBase) = One(passed) BY DEF Drafts, Of, ByBase, One
  <2> DEFINE no == FALSE
  <2>a. no \in BOOLEAN /\ Tell(j, passed, no, no, boxed) BY <1>d
  <2>b. One(no) = 0 BY DEF One
  <2> HIDE DEF no
  <2>2. PICK t \in Tallies :
          /\ tally' = [tally EXCEPT ![j] = t]
          /\ t.base = tally[j].base + One(passed) /\ t.first = tally[j].first + One(no)
          /\ t.solved = tally[j].solved + One(no)
          /\ t.outside => tally[j].outside \/ ~boxed
    BY <1>b, <2>a, Told
  <2>3. tally[j].first \in Nat /\ tally[j].solved \in Nat BY <1>b DEF Tallies
  <2>4. t.first = tally[j].first /\ t.solved = tally[j].solved BY <2>b, <2>2, <2>3
  <2>5. Ran(d, t) BY <1>d, <2>1, <2>2, <2>4
  <2> QED BY <2>1, <2>5
<1>e. \E d \in Drafts, t \in Tallies : Ran(d, t) BY <1>c, <1>d DEF Baseline
<1>1. PICK d \in Drafts, t \in Tallies :
       /\ at[j] = "baseline" /\ at' = [at EXCEPT ![j] = "attempt"]
       /\ Ran(d, t)
  BY <1>a, <1>e
<1>2. UNCHANGED <<size, results, summary, table, file, rows>> BY DEF Baseline, work, published
<1>3. ETypes' BY <1>0, <1>1, <1>2 DEF ETypes, Stages
<1>4. InRows(j)' <=> InRows(j) BY <1>2 DEF InRows
<1>5. at'[j] \in {"attempt", "record"} /\ draft'[j] = d /\ tally'[j] = t
  BY <1>0, <1>1 DEF ETypes
<1>6. JobInv(j)'
  <2>1. CountInv(j)'
    <3>1. /\ Begun(j) /\ CountInv(j) /\ Begun(j)' /\ at'[j] # "baseline"
          /\ at'[j] \notin {"idle", "started"} /\ results'[j] = results[j] /\ size'[j] = size[j]
      BY <1>0, <1>1, <1>2, <1>5 DEF JobInv, Begun
    <3>2. /\ Those(results[j], ByBase) \in Nat /\ Those(results[j], AtFirst) \in Nat
          /\ Those(results[j], AtAll) \in Nat
      BY <1>0, AppendCounts DEF ETypes
    <3>3. \A kind : Of(d, kind) \in Nat /\ Of(draft[j], kind) \in Nat BY DEF Of
    <3> QED BY <1>1, <1>5, <3>1, <3>2, <3>3 DEF CountInv
  <2>2. BoxInv(j)' BY <1>0, <1>1, <1>2, <1>5 DEF JobInv, BoxInv, Begun
  <2>3. PublishedInv(j)' BY <1>0, <1>1, <1>2, <1>4, <1>5 DEF JobInv, PublishedInv, Publishing
  <2>4. TableInv(j)' BY <1>0, <1>1, <1>2, <1>5 DEF JobInv, TableInv, Publishing
  <2> QED BY <2>1, <2>2, <2>3, <2>4 DEF JobInv
<1>7. \A k \in Jobs \ {j} : Untouched(k) BY <1>0, <1>1, <1>2 DEF ETypes, Untouched, InRows
<1> QED BY <1>3, <1>6, <1>7, OneJob DEF Step

LEMMA EAttempt == ASSUME EInv, NEW j \in Jobs, Attempt(j) PROVE EInv'
<1> DEFINE n == draft[j].tries + 1
           Ran(d, t) ==
             /\ draft' = [draft EXCEPT ![j] = d] /\ tally' = [tally EXCEPT ![j] = t]
             /\ Of(d, ByBase) = Of(draft[j], ByBase) /\ t.base = tally[j].base
             /\ t.first = tally[j].first + Of(d, AtFirst)
             /\ t.solved = tally[j].solved + Of(d, AtAll)
             /\ t.outside => tally[j].outside \/ ~d.boxed
             /\ ~draft[j].boxed => ~d.boxed
             /\ at'[j] = "attempt" => d.passedAt = 0
<1>0. ETypes /\ JobInv(j) BY DEF EInv
<1>a. at[j] = "attempt" BY DEF Attempt
<1>b. /\ tally \in [Jobs -> Tallies] /\ draft \in [Jobs -> Drafts] /\ at \in [Jobs -> Stages]
      /\ tally[j] \in Tallies /\ draft[j] \in Drafts
  BY <1>0 DEF ETypes
<1>c. draft[j].passedAt = 0 BY <1>0, <1>a DEF JobInv, CountInv
<1>d. n \in Nat /\ n # 0 BY <1>b DEF Drafts
<1>e. ASSUME draft' = [draft EXCEPT ![j].tries = n], tally' = tally
      PROVE  \E d \in Drafts, t \in Tallies : Ran(d, t)
  <2> DEFINE d == [draft[j] EXCEPT !.tries = n]
  <2> HIDE DEF n
  <2>1. d \in Drafts /\ d.passedAt = 0 /\ d.base = draft[j].base /\ d.boxed = draft[j].boxed
    BY <1>b, <1>c, <1>d DEF Drafts
  <2>2. draft' = [draft EXCEPT ![j] = d] /\ tally' = [tally EXCEPT ![j] = tally[j]]
    BY <1>b, <1>e
  <2> HIDE DEF d
  <2>3. Of(d, ByBase) = Of(draft[j], ByBase) /\ Of(d, AtFirst) = 0 /\ Of(d, AtAll) = 0
    BY <1>b, <2>1 DEF Of, ByBase, AtFirst, AtAll
  <2>4. /\ tally[j].first = tally[j].first + Of(d, AtFirst)
        /\ tally[j].solved = tally[j].solved + Of(d, AtAll)
    BY <1>b, <2>3 DEF Tallies
  <2>5. Ran(d, tally[j]) BY <2>1, <2>2, <2>3, <2>4
  <2> QED BY <1>b, <2>1, <2>5
<1>f. ASSUME NEW passed \in BOOLEAN, NEW boxed \in BOOLEAN,
             draft' = [draft EXCEPT ![j] =
               [base |-> draft[j].base, boxed |-> Fold(j, boxed), tries |-> n,
                passedAt |-> IF passed THEN n ELSE 0]],
             at' = [at EXCEPT ![j] = IF passed \/ n = Attempts THEN "record" ELSE "attempt"],
             Tell(j, FALSE, passed /\ n = 1, passed, boxed)
      PROVE  \E d \in Drafts, t \in Tallies : Ran(d, t)
  <2> DEFINE y == IF passed THEN n ELSE 0
             x == Fold(j, boxed)
             d == [base |-> draft[j].base, boxed |-> x, tries |-> n, passedAt |-> y]
  <2>1. x \in BOOLEAN /\ y \in Nat /\ (passed /\ n = 1) \in BOOLEAN BY <1>d DEF Fold
  <2>2. PICK t \in Tallies :
          /\ tally' = [tally EXCEPT ![j] = t]
          /\ t.base = tally[j].base + One(FALSE)
          /\ t.first = tally[j].first + One(passed /\ n = 1)
          /\ t.solved = tally[j].solved + One(passed)
          /\ t.outside => tally[j].outside \/ ~boxed
    <3> DEFINE no == FALSE
               z  == passed /\ n = 1
    <3>1. no \in BOOLEAN /\ z \in BOOLEAN /\ Tell(j, no, z, passed, boxed) BY <1>f
    <3> HIDE DEF no, z
    <3>2. \E t \in Tallies :
            /\ tally' = [tally EXCEPT ![j] = t]
            /\ t.base = tally[j].base + One(no)
            /\ t.first = tally[j].first + One(z)
            /\ t.solved = tally[j].solved + One(passed)
            /\ t.outside => tally[j].outside \/ ~boxed
      BY <1>b, <3>1, Told
    <3> QED BY <3>2, Zenon DEF no, z
  <2>3. d \in Drafts
    <3> HIDE DEF x, y, n
    <3> QED BY <1>b, <1>d, <2>1 DEF Drafts
  <2>4. Of(d, ByBase) = Of(draft[j], ByBase) BY <1>b, <2>3 DEF Of, ByBase
  <2>5. Of(d, AtFirst) = One(passed /\ n = 1) /\ Of(d, AtAll) = One(passed)
    BY <1>d, <2>3 DEF Of, AtFirst, AtAll, One
  <2>6. at'[j] = "attempt" => d.passedAt = 0 BY <1>b, <1>f
  <2>7. d.boxed = x /\ (x => draft[j].boxed /\ boxed) BY DEF Fold
  <2>8. tally[j].base \in Nat BY <1>b DEF Tallies
  <2>9. t.base = tally[j].base BY <2>2, <2>8 DEF One
  <2>10. draft' = [draft EXCEPT ![j] = d] BY <1>f
  <2>11. /\ t.first = tally[j].first + One(passed /\ n = 1)
         /\ t.solved = tally[j].solved + One(passed)
         /\ t.outside => tally[j].outside \/ ~boxed
         /\ tally' = [tally EXCEPT ![j] = t]
    BY <2>2
  <2> HIDE DEF d, x
  <2>12. /\ t.outside => tally[j].outside \/ ~d.boxed
         /\ ~draft[j].boxed => ~d.boxed
    BY <2>7, <2>11
  <2>13. Ran(d, t) BY <2>4, <2>5, <2>6, <2>9, <2>10, <2>11, <2>12
  <2> QED BY <2>3, <2>13
<1>g. \E d \in Drafts, t \in Tallies : Ran(d, t) BY <1>e, <1>f DEF Attempt
<1>h. \E to \in {"attempt", "record"} : at' = [at EXCEPT ![j] = to] BY DEF Attempt
<1>1. PICK d \in Drafts, t \in Tallies :
       /\ at[j] = "attempt" /\ Ran(d, t)
       /\ \E to \in {"attempt", "record"} : at' = [at EXCEPT ![j] = to]
  BY <1>a, <1>g, <1>h
<1>2. UNCHANGED <<size, results, summary, table, file, rows>> BY DEF Attempt, work, published
<1>3. ETypes' BY <1>0, <1>1, <1>2 DEF ETypes, Stages
<1>4. InRows(j)' <=> InRows(j) BY <1>2 DEF InRows
<1>5. at'[j] \in {"attempt", "record"} /\ draft'[j] = d /\ tally'[j] = t
  BY <1>0, <1>1 DEF ETypes
<1>6. JobInv(j)'
  <2>1. CountInv(j)'
    <3>1. /\ Begun(j) /\ CountInv(j) /\ Begun(j)' /\ at'[j] # "baseline"
          /\ at'[j] \notin {"idle", "started"} /\ results'[j] = results[j] /\ size'[j] = size[j]
      BY <1>0, <1>1, <1>2, <1>5 DEF JobInv, Begun
    <3>2. /\ Those(results[j], ByBase) \in Nat /\ Those(results[j], AtFirst) \in Nat
          /\ Those(results[j], AtAll) \in Nat
      BY <1>0, AppendCounts DEF ETypes
    <3>3. \A kind : Of(d, kind) \in Nat /\ Of(draft[j], kind) \in Nat BY DEF Of
    <3>4. tally[j].base = Those(results[j], ByBase) + Of(draft[j], ByBase)
            /\ tally[j].first = Those(results[j], AtFirst) + 0
            /\ tally[j].solved = Those(results[j], AtAll) + 0
      BY <1>1, <3>1 DEF CountInv
    <3>5. Len(results'[j]) < size'[j] BY <3>1 DEF CountInv
    <3>6. /\ t.base = Those(results[j], ByBase) + Of(d, ByBase)
          /\ t.first = Those(results[j], AtFirst) + Of(d, AtFirst)
          /\ t.solved = Those(results[j], AtAll) + Of(d, AtAll)
      BY <1>1, <3>2, <3>3, <3>4
    <3>7. at'[j] = "attempt" => d.passedAt = 0 BY <1>1
    <3>8. d.passedAt = 0 => Of(d, AtFirst) = 0 /\ Of(d, AtAll) = 0 BY DEF Of, AtFirst, AtAll
    <3> QED BY <1>5, <3>1, <3>2, <3>5, <3>6, <3>7, <3>8 DEF CountInv
  <2>2. BoxInv(j)' BY <1>0, <1>1, <1>2, <1>5 DEF JobInv, BoxInv, Begun
  <2>3. PublishedInv(j)' BY <1>0, <1>1, <1>2, <1>4, <1>5 DEF JobInv, PublishedInv, Publishing
  <2>4. TableInv(j)' BY <1>0, <1>1, <1>2, <1>5 DEF JobInv, TableInv, Publishing
  <2> QED BY <2>1, <2>2, <2>3, <2>4 DEF JobInv
<1>7. \A k \in Jobs \ {j} : Untouched(k) BY <1>0, <1>1, <1>2 DEF ETypes, Untouched, InRows
<1> QED BY <1>3, <1>6, <1>7, OneJob DEF Step

(* A record more: the draft moves from the one side of the counts to the   *)
(* other, and after the last one the summary has counted them all.         *)
LEMMA ERecord == ASSUME EInv, NEW j \in Jobs, Record(j) PROVE EInv'
<1> DEFINE r == results[j]
           d == draft[j]
           records == Append(r, d)
<1>0. ETypes /\ JobInv(j) BY DEF EInv
<1>1. r \in Seq(Drafts) /\ d \in Drafts /\ records \in Seq(Drafts) BY <1>0 DEF ETypes
<1>2. /\ Len(records) = Len(r) + 1 /\ records[Len(r) + 1] = d /\ DOMAIN records = 1..(Len(r) + 1)
      /\ \A i \in 1..Len(r) : records[i] = r[i]
  BY <1>1
<1>3. /\ at[j] = "record" /\ Begun(j) /\ CountInv(j) /\ BoxInv(j) /\ PublishedInv(j) /\ TableInv(j)
      /\ ~InRows(j) /\ file[j] # "whole"
  BY <1>0 DEF Record, Go, Begun, JobInv, PublishedInv
<1>4. /\ UNCHANGED <<size, draft, tally, rows, file>>
      /\ \A k \in Jobs \ {j} : Untouched(k)
  BY <1>0 DEF Record, Go, published, ETypes, Untouched, InRows
<1>5. /\ Len(r) \in Nat /\ size[j] \in Nat /\ Len(r) < size[j] /\ Len(records) <= size[j]
  BY <1>0, <1>1, <1>2, <1>3 DEF ETypes, CountInv
<1>6. \A kind : Those(records, kind) = Those(r, kind) + Of(d, kind) BY <1>1, AppendCounts
<1>7. /\ tally[j].base = Those(records, ByBase) /\ tally[j].first = Those(records, AtFirst)
      /\ tally[j].solved = Those(records, AtAll)
  BY <1>3, <1>6 DEF CountInv
<1>8. tally[j].outside => \E i \in DOMAIN records : ~records[i].boxed
  <2>1. tally[j].outside => ~d.boxed \/ \E i \in DOMAIN r : ~r[i].boxed BY <1>3 DEF BoxInv
  <2>2. DOMAIN r = 1..Len(r) /\ Len(r) + 1 \in DOMAIN records BY <1>1, <1>2, <1>5
  <2>3. \A i \in DOMAIN r : i \in DOMAIN records BY <1>2, <1>5, <2>2
  <2> QED BY <1>2, <2>1, <2>2, <2>3
<1>9. CASE ~d.boxed /\ j \notin Unsafe
  <2>1. at' = [at EXCEPT ![j] = "raised"] /\ UNCHANGED <<results, summary, table>>
    BY <1>9 DEF Record, Go
  <2>2. ETypes' BY <1>0, <1>4, <2>1 DEF ETypes, Stages
  <2>3. at'[j] = "raised" BY <1>0, <2>1 DEF ETypes
  <2>4. JobInv(j)'
    BY <1>3, <1>4, <2>1, <2>3
    DEF JobInv, CountInv, BoxInv, PublishedInv, TableInv, Begun, Publishing, InRows
  <2> QED BY <1>4, <2>2, <2>4, OneJob DEF Step
<1>10. CASE d.boxed \/ j \in Unsafe
  <2> DEFINE to == IF Len(records) # size[j] THEN "baseline" ELSE IF j \notin Cli THEN "insert"
                   ELSE IF Summarize(records).boxed THEN "save" ELSE "over"
             new == IF Len(records) = size[j] THEN Summarize(records) ELSE summary[j]
             done == IF j \in Cli THEN table[j].done ELSE Len(records)
  <2>1. /\ at' = [at EXCEPT ![j] = to] /\ results' = [results EXCEPT ![j] = records]
        /\ summary' = [summary EXCEPT ![j] = new]
        /\ table' = [table EXCEPT ![j].done = done]
    BY <1>0, <1>10 DEF Record, Go, ETypes
  <2>2. to \in {"baseline", "insert", "save", "over"} OBVIOUS
  <2>3. new \in Summaries BY <1>0, <1>1, SummaryCounts DEF ETypes
  <2>4. done \in Nat /\ table[j] \in Entries BY <1>0, <1>2, <1>5 DEF ETypes, Entries
  <2> HIDE DEF to, new, done
  <2>5. ETypes'
    <3>1. at' \in [Jobs -> Stages] BY <1>0, <2>1, <2>2 DEF ETypes, Stages
    <3>2. results' \in [Jobs -> Seq(Drafts)] BY <1>0, <1>1, <2>1 DEF ETypes
    <3>3. summary' \in [Jobs -> Summaries]
      BY <1>0, <2>1, <2>3 DEF ETypes
    <3>4. table' \in [Jobs -> Entries]
      <4>1. [table[j] EXCEPT !.done = done] \in Entries BY <2>4 DEF Entries
      <4>2. table' = [table EXCEPT ![j] = [table[j] EXCEPT !.done = done]] BY <2>1
      <4> QED BY <1>0, <4>1, <4>2 DEF ETypes
    <3> QED BY <1>0, <1>4, <3>1, <3>2, <3>3, <3>4 DEF ETypes
  <2>6. /\ at'[j] = to /\ results'[j] = records /\ summary'[j] = new
        /\ table'[j].done = done /\ table'[j].status = table[j].status
    BY <1>0, <2>1, <2>4 DEF ETypes, Entries
  <2>7. /\ draft'[j] = d /\ tally'[j] = tally[j] /\ size'[j] = size[j] /\ file'[j] = file[j]
        /\ ~InRows(j)'
    BY <1>3, <1>4 DEF InRows
  <2>8. to = "baseline" => Len(records) < size[j] BY <1>2, <1>5 DEF to
  <2>9. CountInv(j)'
    <3>1. tally[j].base = Those(records, ByBase) + 0 /\ tally[j].first = Those(records, AtFirst) + 0
            /\ tally[j].solved = Those(records, AtAll) + 0
      <4>1. /\ Those(records, ByBase) \in Nat /\ Those(records, AtFirst) \in Nat
            /\ Those(records, AtAll) \in Nat
        BY <1>1, AppendCounts
      <4> QED BY <1>7, <4>1
    <3> QED BY <2>2, <2>6, <2>7, <2>8, <3>1 DEF CountInv, Begun
  <2>10. j \notin Unsafe => \A i \in DOMAIN records : records[i].boxed
    <3>1. j \notin Unsafe => d.boxed /\ \A i \in DOMAIN r : r[i].boxed BY <1>3, <1>10 DEF BoxInv
    <3>2. \A i \in DOMAIN records : i = Len(r) + 1 \/ i \in DOMAIN r BY <1>1, <1>2, <1>5
    <3> QED BY <1>1, <1>2, <3>1, <3>2
  <2>11. BoxInv(j)' BY <1>8, <2>6, <2>7, <2>10 DEF BoxInv
  <2>12. PublishedInv(j)'
    <3>1. to \in {"insert", "save"} =>
            /\ new = Summarize(records) /\ Len(records) = size[j]
            /\ \A i \in DOMAIN records : records[i].boxed
      <4>1. Summarize(records).boxed <=> (\A i \in DOMAIN records : records[i].boxed)
        BY <1>1, SummaryCounts
      <4>2. to = "insert" => j \notin Unsafe BY EvaluationAssumption DEF to
      <4>3. to = "save" => Summarize(records).boxed BY DEF to
      <4>4. to \in {"insert", "save"} => new = Summarize(records) /\ Len(records) = size[j]
        BY DEF to, new
      <4> QED BY <2>10, <4>1, <4>2, <4>3, <4>4
    <3>2. to \in {"insert", "save"} => Earned(j)'
      <4>1. to \in {"insert", "save"} => ~tally[j].outside BY <1>8, <3>1
      <4>2. to \in {"insert", "save"} =>
              new = [total |-> size[j], boxed |-> TRUE, base |-> tally[j].base,
                     first |-> tally[j].first, solved |-> tally[j].solved]
        BY <1>1, <1>7, <3>1, SummaryCounts
      <4> QED BY <2>6, <2>7, <4>1, <4>2 DEF Earned
    <3> QED BY <1>3, <2>2, <2>6, <2>7, <3>2 DEF PublishedInv, Publishing
  <2>13. TableInv(j)'
    <3>1. table[j].status # "done" BY <1>3 DEF TableInv
    <3>2. to = "insert" => j \notin Cli BY DEF to
    <3>3. to \in {"insert", "save"} /\ j \notin Cli => done = size[j] BY DEF to, done
    <3> QED BY <2>2, <2>6, <2>7, <3>1, <3>2, <3>3 DEF TableInv, Publishing
  <2> QED BY <1>4, <2>5, <2>9, <2>11, <2>12, <2>13, OneJob DEF Step, JobInv
<1> QED BY <1>9, <1>10

(* A crash ends jobs and empties their entries; rows and files stay.       *)
LEMMA ECrash == ASSUME EInv, Crash PROVE EInv'
<1>0. ETypes BY DEF EInv
<1>1. PICK dying \in {Jobs \ Cli} \cup {{j} : j \in Cli} :
        /\ at' = [j \in Jobs |-> IF j \in dying /\ at[j] # "idle" THEN "over" ELSE at[j]]
        /\ table' = [j \in Jobs |-> IF j \in dying THEN Unknown ELSE table[j]]
  BY DEF Crash
<1>2. UNCHANGED <<size, draft, results, summary, tally, rows, file>> BY DEF Crash, work, published
<1>3. Unknown \in Entries /\ Unknown.status # "done" BY DEF Unknown, Entries
<1>4. ETypes'
  <2>1. at' \in [Jobs -> Stages] BY <1>0, <1>1 DEF ETypes, Stages
  <2>2. table' \in [Jobs -> Entries] BY <1>0, <1>1, <1>3 DEF ETypes
  <2> QED BY <1>0, <1>2, <2>1, <2>2 DEF ETypes
<1>5. ASSUME NEW j \in Jobs PROVE JobInv(j)'
  <2>1. JobInv(j) BY DEF EInv
  <2>2. InRows(j)' <=> InRows(j) BY <1>2 DEF InRows
  <2>3. CASE j \notin dying
    <3>1. Untouched(j) BY <1>1, <1>2, <2>2, <2>3 DEF Untouched
    <3> QED BY <2>1, <3>1, LeftAlone
  <2>4. CASE j \in dying
    <3>1. at'[j] = (IF at[j] # "idle" THEN "over" ELSE "idle") /\ table'[j] = Unknown
      BY <1>1, <2>4
    <3>2. CountInv(j)' BY <1>2, <2>1, <3>1 DEF JobInv, CountInv, Begun
    <3>3. BoxInv(j)' BY <3>1 DEF BoxInv, Begun
    <3>4. PublishedInv(j)' BY <1>2, <2>1, <2>2, <3>1 DEF JobInv, PublishedInv, Publishing, Earned
    <3>5. TableInv(j)' BY <1>3, <3>1 DEF TableInv, Publishing
    <3> QED BY <3>2, <3>3, <3>4, <3>5 DEF JobInv
  <2> QED BY <2>3, <2>4
<1> QED BY <1>4, <1>5 DEF EInv

-----------------------------------------------------------------------------
LEMMA EInductive == ASSUME EInv, [EvaluationNext]_evaluationVars PROVE EInv'
<1>1. ASSUME NEW j \in Jobs, Start(j) \/ Proceed(j) PROVE EInv'
  BY <1>1, EStart, ERegister, EBaseline, EAttempt, ERecord, EInsertRow, EOpenFile, EWriteFile,
     EMarkDone, EMarkFailed
  DEF Proceed
<1>2. CASE UNCHANGED evaluationVars
  <2>1. \A j \in Jobs : JobInv(j)'
    BY <1>2, LeftAlone DEF evaluationVars, work, published, EInv, Untouched, InRows
  <2>2. ETypes' BY <1>2 DEF evaluationVars, work, published, EInv, ETypes
  <2> QED BY <2>1, <2>2 DEF EInv
<1> QED BY <1>1, <1>2, ECrash DEF EvaluationNext

LEMMA EAlways == EvaluationSpec => []EInv
<1> QED BY EvaluationAssumption, EInitial, EInductive, PTL DEF EvaluationSpec

LEMMA ListedHere == ASSUME ETypes, NEW j \in ListedRows PROVE j \in Jobs /\ InRows(j)
<1> DEFINE low == IF Len(rows) > MaxRows THEN Len(rows) - MaxRows + 1 ELSE 1
<1>1. rows \in Seq(Jobs) /\ Len(rows) \in Nat BY DEF ETypes
<1>2. PICK i \in low..Len(rows) : rows[i] = j BY DEF ListedRows
<1>3. i \in 1..Len(rows) BY <1>1, EvaluationAssumption
<1> QED BY <1>1, <1>2, <1>3 DEF InRows

(* Whatever raises, is interrupted or runs on the host: what is listed     *)
(* counts every outcome, and all of it was sandboxed.                      *)
THEOREM ListIsHonest == EvaluationSpec => []ListedIsEarned
<1>1. EInv => ListedIsEarned
  <2> SUFFICES ASSUME EInv, NEW j \in ListedRows \cup ListedFiles PROVE Earned(j)
    BY DEF ListedIsEarned, Earned
  <2>1. CASE j \in ListedRows BY <2>1, ListedHere DEF EInv, JobInv, PublishedInv
  <2>2. CASE j \in ListedFiles BY <2>2 DEF ListedFiles, EInv, JobInv, PublishedInv
  <2> QED BY <2>1, <2>2
<1> QED BY <1>1, EAlways, PTL

(* Done means listed, once and for good, whatever the length of the list.  *)
THEOREM DoneIsKept == EvaluationSpec => []DoneIsListedOnce
<1>1. EInv => DoneIsListedOnce
  <2> SUFFICES ASSUME EInv PROVE DoneIsListedOnce OBVIOUS
  <2>1. ListedRows \cap ListedFiles = {} BY DEF ListedFiles
  <2>2. ASSUME NEW j \in Jobs, table[j].status = "done"
        PROVE  table[j].done = size[j] /\ j \in ListedRows \cup ListedFiles
    BY <2>2 DEF EInv, JobInv, TableInv, ListedFiles
  <2> QED BY <2>1, <2>2 DEF DoneIsListedOnce
<1> QED BY <1>1, EAlways, PTL

=============================================================================
