------------------------- MODULE MCCapacityRegistry -------------------------
(***************************************************************************)
(* CapacityRegistry for TLC.                                               *)
(***************************************************************************)
EXTENDS CapacityRegistry, TLC

Amounts(ca, cc, ma, mc, n) ==
  [cpuAllocatable |-> ca, cpuCommitted |-> cc,
   memAllocatable |-> ma, memCommitted |-> mc, counts |-> n]

\* A half-used cell, and one that reports memory only and is overcommitted,
\* are accepted; a cell whose agent sees no nodes and a negative count are
\* not.
MCReports ==
  {Amounts(2, 1, 4, 1, 1), Amounts(0, 0, 2, 3, 1),
   Amounts(0, 1, 0, 1, 0), Amounts(2, 1, 2, 1, -1)}

Symmetry == Permutations(Cells)
=============================================================================
