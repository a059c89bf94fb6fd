-------------------------- MODULE MCWorkloadMemory --------------------------
(***************************************************************************)
(* WorkloadMemory for TLC.                                                 *)
(***************************************************************************)
EXTENDS WorkloadMemory, TLC

Symmetry ==
  Permutations(Workloads) \cup Permutations(Cells) \cup
  Permutations(Replicas) \cup Permutations(Handlers)
=============================================================================
