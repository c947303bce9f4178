--------------------------- MODULE MC_DirCreation ---------------------------
(* The directory-creation model instantiated for TLC. *)
EXTENDS DirCreation, TLC

\* The processes are interchangeable.
ProcSymmetry == Permutations(Procs)
=============================================================================
