---------------------------- MODULE MCEvaluation ----------------------------
(* Small instances of Evaluation for TLC: a job of two problems, of the     *)
(* server or of the command line, or two jobs of one problem at once.       *)
EXTENDS Evaluation, TLC

CONSTANTS e1, e2, c1

MCJobs == {e1, e2, c1}
MCCli  == {c1}
MCSizes == {e1 :> a @@ e2 :> b @@ c1 :> c : <<a, b, c>> \in
              {<<2, 0, 0>>, <<0, 0, 2>>, <<1, 1, 0>>, <<1, 0, 1>>}}
=============================================================================
