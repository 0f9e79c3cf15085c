---------------------------- MODULE MCRunService ----------------------------
(* Four runs from three requests - a comparison of two models, a single    *)
(* run and one executed inline - for a pool of two threads.                *)
EXTENDS RunService, TLC

CONSTANTS r1, r2, r3, r4, compare, post, inline

MCRuns     == {r1, r2, r3, r4}
MCRequests == {compare, post, inline}
MCInline   == {inline}
MCRunsOf   == compare :> <<r1, r2>> @@ post :> <<r3>> @@ inline :> <<r4>>

=============================================================================
