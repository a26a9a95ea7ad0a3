----------------------------- MODULE OnePassMC -----------------------------
(* Two runs of each of the scripts, with two attacks and one benign source; *)
(* scripts that are the same program are checked once.                      *)
EXTENDS OnePass, TLC

CONSTANTS f1, f2, c1

Catalog == INSTANCE OnePassScripts WITH Fixtures <- <<f1, f2>>, Channels <- <<c1>>

MCScripts == Catalog!AllScripts

Symmetry == Permutations(Runs)
=============================================================================
