-------------------------- MODULE MCMergeRequests --------------------------
(* Small instances of MergeRequests for TLC. *)
EXTENDS MergeRequests, TLC

CONSTANTS h1, h2, u1, p1, p2

\* h2 is pushed on top of h1 and changes the diff.
MCAncestors == [h \in Heads |-> IF h = h1 THEN {h1} ELSE {h1, h}]

\* The handlers are alike.
ProcSymmetry == Permutations(Procs)
=============================================================================
