--------------------------- MODULE MCDownloadJobs ---------------------------
(* Finite instances of DownloadJobs for TLC. *)
EXTENDS DownloadJobs, TLC

\* Jobs and workers are interchangeable in every safety property.
MCSymmetry == Permutations(Jobs) \cup Permutations(Workers)
=============================================================================
