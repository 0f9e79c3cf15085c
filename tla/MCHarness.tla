------------------------------ MODULE MCHarness -----------------------------
(* Small instances of Harness, with Sandbox, for TLC. *)
EXTENDS Harness, TLC

CONSTANTS c1, c2, c3

MCTwo   == {c1, c2}
MCThree == {c1, c2, c3}
=============================================================================
