------------------------ MODULE ArtifactEncryptionMC ------------------------
(* An instance of ArtifactEncryption for TLC.                              *)
EXTENDS ArtifactEncryption, TLC

Symmetry == Permutations(Files)
=============================================================================
