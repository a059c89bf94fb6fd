------------------------- MODULE MCClusterRegistry --------------------------
(***************************************************************************)
(* The registry's objects and their controllers: cells and policies        *)
(* (ClusterRegistry), trust configurations (TrustConfig).  The two share   *)
(* no state, so a behaviour is one of either, told by whose budget its     *)
(* first step spends.                                                      *)
(***************************************************************************)
EXTENDS ClusterRegistry, TrustConfig

SpecOf(provider, block, inCluster, secretRef) ==
  [provider |-> provider, block |-> block, inCluster |-> inCluster,
   secretRef |-> secretRef]

\* The two that are in order, and one for each way not to be.
MCSpecs ==
  {SpecOf("kubernetes", "whole", FALSE, "spoke"),
   SpecOf("kubernetes", "whole", TRUE, Nil),
   SpecOf("kubernetes", "whole", TRUE, "spoke"),
   SpecOf("kubernetes", "unnamed", FALSE, "spoke"),
   SpecOf("aws", "absent", FALSE, "spoke")}

MCInit == Init /\ TrustInit

MCNext ==
  \/ trustSpent = 0 /\ secret = "missing" /\ Next /\ UNCHANGED trustVars
  \/ spent = 0 /\ TrustNext /\ UNCHANGED vars

MCSpec == MCInit /\ [][MCNext]_<<vars, trustVars>> /\ Fairness /\ TrustFairness
=============================================================================
