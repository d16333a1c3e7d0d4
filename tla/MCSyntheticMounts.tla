-------------------------- MODULE MCSyntheticMounts --------------------------
(***************************************************************************)
(* Small instances of SyntheticMounts for TLC.                             *)
(***************************************************************************)
EXTENDS SyntheticMounts, TLC

Symmetry == Permutations(Procs) \cup Permutations(Inodes)
==============================================================================
