------------------------------ MODULE MCAIJobs ------------------------------
(* Instances of AIJobs for TLC.                                            *)
EXTENDS AIJobs, TLC

Symmetry == Permutations(Jobs)
=============================================================================
