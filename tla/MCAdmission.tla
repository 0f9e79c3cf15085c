---------------------------- MODULE MCAdmission -----------------------------
(* Small instances of Admission for TLC: a server with keys and a limit,   *)
(* one with keys and a budget, one in development and one that is locked.  *)
EXTENDS Admission, TLC

CONSTANTS q1, q2, q3, q4, k1, k2, tail1, tail2

MCRequests == {q1, q2, q3, q4}
MCKeys     == {k1, k2}
MCTailOf   == k1 :> tail1 @@ k2 :> tail2

Entry(name, k) == [name |-> name, key |-> k]

OneKey   == <<Entry("default", k1), Entry("team", k1)>>
TwoTeams == OneKey \o <<Entry("guest", k2)>>

MCSetups == {
  [entries |-> OneKey, dev |-> FALSE, limit |-> 2, budget |-> 0],
  [entries |-> TwoTeams, dev |-> FALSE, limit |-> 0, budget |-> 2],
  [entries |-> <<>>, dev |-> TRUE, limit |-> 0, budget |-> 0],
  [entries |-> <<>>, dev |-> FALSE, limit |-> 2, budget |-> 2]}

(* Requests are interchangeable, and no property is a liveness property.   *)
MCSymmetry == Permutations(MCRequests)
=============================================================================
