----------------------------- MODULE PodCharge ------------------------------
(***************************************************************************)
(* What the agent charges a cell for one pod (internal/agent/collect.go),  *)
(* while the pod starts up, runs and ends.  How a pod starts up is the     *)
(* kubelet's: init containers one at a time and in order, sidecars among   *)
(* them left running, then the containers.  One resource stands for CPU    *)
(* and memory, which podRequests computes alike and independently.         *)
(***************************************************************************)
EXTENDS Integers, Sequences

CONSTANT PodSpecs   \* main is what the containers request together

InitContainer == [req : Nat, always : BOOLEAN]
PodSpec == [init : Seq(InitContainer), main : Nat, overhead : Nat]

ASSUME PodAssumption == PodSpecs \subseteq PodSpec

VARIABLES
  spec,      \* the pod's
  started,   \* init containers that have started
  up,        \* the ones that run
  held,      \* what the containers that run have reserved
  phase,     \* status.phase
  peak       \* history: the most that the pod has held at once

podVars == <<spec, started, up, held, phase, peak>>

Phases == {"Pending", "Running", "Succeeded", "Failed"}

PodTypeOK ==
  /\ spec \in PodSpecs
  /\ started \in 0..Len(spec.init) /\ up \subseteq 1..started /\ held \in Nat
  /\ phase \in Phases /\ peak \in Nat

-----------------------------------------------------------------------------
Larger(a, b) == IF a > b THEN a ELSE b

\* An init container that is charged on its own, as if no sidecar ran yet.
ChargeAlone(acc, c) ==
  [peak |-> Larger(acc.peak, c.req),
   sidecars |-> acc.sidecars + IF c.always THEN c.req ELSE 0]

\* One round of podRequests' loop over the init containers.
ChargeInit(acc, c) ==
  [peak |-> Larger(acc.peak, c.req + acc.sidecars),
   sidecars |-> acc.sidecars + IF c.always THEN c.req ELSE 0]

\* podRequests' running totals, after each round of that loop.
Charged(p) ==
  LET acc[n \in 0..Len(p.init)] ==
        IF n = 0 THEN [peak |-> 0, sidecars |-> 0]
        ELSE ChargeInit(acc[n - 1], p.init[n])
  IN  acc

\* podRequests.
PodRequests(p) ==
  LET init == Charged(p)[Len(p.init)]
  IN  Larger(p.main + init.sidecars, init.peak) + p.overhead

Terminal == phase \in {"Succeeded", "Failed"}

\* What Collect adds to the cell's committed capacity for the pod.
Committed == IF Terminal THEN 0 ELSE PodRequests(spec)

-----------------------------------------------------------------------------
(***************************************************************************)
(* The pod, as the kubelet runs it.                                        *)
(***************************************************************************)
\* The kubelet reserves for a container that starts.
Reserve(req) ==
  /\ held' = held + req
  /\ peak' = Larger(peak, held' + spec.overhead)

\* The init containers that run to their end have done so.
InitDone == \A i \in up : spec.init[i].always

PodInit ==
  /\ spec \in PodSpecs
  /\ started = 0 /\ up = {} /\ held = 0 /\ phase = "Pending" /\ peak = 0

StartInit ==
  /\ phase = "Pending" /\ InitDone /\ started < Len(spec.init)
  /\ started' = started + 1 /\ up' = up \cup {started'}
  /\ Reserve(spec.init[started'].req)
  /\ UNCHANGED <<spec, phase>>

EndInit(i) ==
  /\ i \in up /\ ~spec.init[i].always /\ phase = "Pending"
  /\ up' = up \ {i} /\ held' = held - spec.init[i].req
  /\ UNCHANGED <<spec, started, phase, peak>>

StartMain ==
  /\ phase = "Pending" /\ InitDone /\ started = Len(spec.init)
  /\ phase' = "Running"
  /\ Reserve(spec.main)
  /\ UNCHANGED <<spec, started, up>>

\* The containers are done, or the pod is evicted on its way there.
End ==
  /\ \/ phase = "Running" /\ phase' \in {"Succeeded", "Failed"}
     \/ phase = "Pending" /\ phase' = "Failed"
  /\ up' = {} /\ held' = 0
  /\ UNCHANGED <<spec, started, peak>>

\* Its controller makes a new one of it.
Replace ==
  /\ Terminal
  /\ started' = 0 /\ phase' = "Pending" /\ peak' = 0
  /\ UNCHANGED <<spec, up, held>>

PodNext == StartInit \/ (\E i \in up : EndInit(i)) \/ StartMain \/ End \/ Replace

PodSpecification == PodInit /\ [][PodNext]_podVars

-----------------------------------------------------------------------------
\* A pod that has not ended is charged neither less than it ever holds at
\* once, from its first init container to its last container, nor more than
\* it comes to hold, and one that has ended is charged nothing (podRequests,
\* Collect).
ChargeIsThePeak ==
  /\ ~Terminal => peak <= Committed
  /\ phase = "Running" => Committed = peak
  /\ Terminal => Committed = 0
=============================================================================
