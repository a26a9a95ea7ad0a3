--------------------------- MODULE CaseArchiveMC ---------------------------
(* Instances of CaseArchive for TLC.                                       *)
EXTENDS CaseArchive, TLC

Symmetry == Permutations(Files) \cup Permutations(Reqs)
=============================================================================
