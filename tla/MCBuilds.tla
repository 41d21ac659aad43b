------------------------------ MODULE MCBuilds ------------------------------
(* Small instances of Builds for TLC. *)
EXTENDS Builds

CONSTANTS r1, r2, s1, s2, test, nightly, release, scan, main, v1, mr, t1, w1, w2

\* Two commits with one tree, as after a rebase that changes nothing.
MCTreeOf == [s \in Shas |-> t1]

\* w1 serves every repository and job and isolates; w2 is attached to r1
\* only.
MCMayClaim == [w \in Runners |-> IF w = w1 THEN Repos \X Jobs
                                 ELSE {r1} \X Jobs]
=============================================================================
