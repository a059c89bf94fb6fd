------------------------- MODULE MCClientPlacement --------------------------
(***************************************************************************)
(* ClientPlacement for TLC: deploys of one workload that fall back on the  *)
(* cache, and dry runs of it on dark cells that fall back on a pinned one. *)
(***************************************************************************)
EXTENDS ClientPlacement, TLC

CONSTANT c1

Option(dark, dry, stance) ==
  [workload |-> "w", dark |-> dark, dry |-> dry, stance |-> stance]

MCOptions == {Option(FALSE, FALSE, "last-known"), Option(TRUE, TRUE, c1)}

Symmetry == Permutations(Jobs)
=============================================================================
