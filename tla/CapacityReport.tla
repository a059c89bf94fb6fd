--------------------------- MODULE CapacityReport ---------------------------
(***************************************************************************)
(* The heartbeat an agent sends about its cell, and the two pure functions *)
(* of internal/hub/capacity/registry.go on it: whether the hub may store   *)
(* it, and how full it says the cell is.                                   *)
(*                                                                         *)
(* The cell name is a member of a non-empty set wherever a report is used, *)
(* and the three counts the hub only checks for a sign (nodes, pods, pod   *)
(* capacity) are the one field "counts", the least of them.                *)
(***************************************************************************)
EXTENDS Integers

\* The numbers of a heartbeat: milli-CPU, bytes and counts, all signed.
ReportType ==
  [cpuAllocatable : Int, cpuCommitted : Int,
   memAllocatable : Int, memCommitted : Int, counts : Int]

\* Nothing negative, and not both dimensions unallocatable: a cell with
\* nothing allocatable is one whose agent cannot see its nodes.
Validate(r) ==
  /\ r.counts >= 0
  /\ r.cpuAllocatable >= 0 /\ r.cpuCommitted >= 0
  /\ r.memAllocatable >= 0 /\ r.memCommitted >= 0
  /\ ~(r.cpuAllocatable = 0 /\ r.memAllocatable = 0)

-----------------------------------------------------------------------------
(***************************************************************************)
(* A utilisation is a ratio: the pair <<committed, allocatable>> with a    *)
(* positive second part.  Ratios are compared by cross multiplication,     *)
(* which is the order of the code's float64 quotients wherever those are   *)
(* exact.                                                                  *)
(***************************************************************************)
Idle == <<0, 1>>

AtMost(u, v) == u[1] * v[2] <= v[1] * u[2]

LessUsed(u, v) == u[1] * v[2] < v[1] * u[2]

Worse(u, v) == IF AtMost(u, v) THEN v ELSE u

\* The larger of CPU and memory pressure; a dimension with nothing
\* allocatable is skipped rather than counted as idle.
Utilisation(r) ==
  LET cpu == IF r.cpuAllocatable > 0
             THEN <<r.cpuCommitted, r.cpuAllocatable>> ELSE Idle
      mem == IF r.memAllocatable > 0
             THEN <<r.memCommitted, r.memAllocatable>> ELSE Idle
  IN  Worse(Worse(Idle, cpu), mem)
=============================================================================
