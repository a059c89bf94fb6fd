------------------------------ MODULE MCAgent -------------------------------
(***************************************************************************)
(* The cell agent: who reports and when (AgentReports), and what is        *)
(* measured (PodCharge).  The two share no state, so a behaviour is one of *)
(* either: the replicas with no pod, or a pod before the replicas start.   *)
(***************************************************************************)
EXTENDS AgentReports, PodCharge

InitContainers == [req : 1..3, always : BOOLEAN]

\* Up to three init containers.
MCPodSpecs ==
  [init : UNION {[1..n -> InitContainers] : n \in 0..3},
   main : {0, 2, 5}, overhead : {0, 1}]

NoPod == [init |-> <<>>, main |-> 0, overhead |-> 0]

MCInit == Init /\ PodInit

MCNext ==
  \/ spec = NoPod /\ phase = "Pending" /\ Next /\ UNCHANGED podVars
  \/ spec # NoPod /\ PodNext /\ UNCHANGED vars

MCSpec == MCInit /\ [][MCNext]_<<vars, podVars>>
=============================================================================
