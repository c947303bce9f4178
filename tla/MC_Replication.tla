--------------------------- MODULE MC_Replication ---------------------------
(***************************************************************************)
(* Model-checking instance of Replication: three instances (a primary and *)
(* two replicas, so promote and eject have a sibling to migrate), model   *)
(* values for the instances, symmetry over them.                          *)
(***************************************************************************)
EXTENDS Replication, TLC

CONSTANTS i1, i2, i3

MCInstances == {i1, i2, i3}
Symmetry == Permutations(MCInstances)
=============================================================================
