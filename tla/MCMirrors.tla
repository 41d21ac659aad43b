----------------------------- MODULE MCMirrors -----------------------------
(***************************************************************************)
(* A push mirror, 1, and a pull mirror, 2, on their own.                   *)
(***************************************************************************)
EXTENDS Mirrors

MCDirection == [m \in MirrorIds |-> IF m = 2 THEN "pull" ELSE "push"]

MirrorLiveSpec == MirrorSpec /\ MirrorFairness
=============================================================================
