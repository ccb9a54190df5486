-------------------------- MODULE MCArtifactStore --------------------------
(* Finite instances of ArtifactStore for TLC. *)
EXTENDS ArtifactStore, TLC

\* Workers are interchangeable in the safety properties.
MCSymmetry == Permutations(Workers)
=============================================================================
