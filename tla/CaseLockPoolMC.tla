---------------------------- MODULE CaseLockPoolMC ----------------------------
(* Instances of CaseLockPool for TLC: one reanalysis, synchronous requests   *)
(* of the same and of another case, and a plain read.                        *)
EXTENDS CaseLockPool, TLC

CONSTANTS a1, s1, s2, s3, g1, c1, c2

Targets == a1 :> c1 @@ s1 :> c1 @@ s2 :> c1 @@ s3 :> c2 @@ g1 :> c1
=============================================================================
