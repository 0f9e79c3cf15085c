---------------------------- MODULE MCPublishing ----------------------------
(* Small instances of Publishing for TLC. *)
EXTENDS Publishing, TLC

CONSTANTS t1, t2, t3, c1, c2, c3

MCTokens == {t1, t2, t3}
MCCalls  == {c1, c2, c3}

(* Calls and tokens are interchangeable, and no property is a liveness     *)
(* property.                                                               *)
MCSymmetry == Permutations(MCCalls) \cup Permutations(MCTokens)
=============================================================================
