-------------------------- MODULE PlacementEngine ---------------------------
(***************************************************************************)
(* The pure part of a placement decision (internal/hub/placement/policy.go *)
(* and engine.go, api/v1beta1/clusterstate.go): which policy governs a     *)
(* caller, which cells pass its filter, what an empty filter is refused    *)
(* with, and which survivor a strategy picks.                              *)
(*                                                                         *)
(* Cells and policies are natural numbers, their rank by name: the code    *)
(* sorts both by name and nothing else about a name matters.               *)
(***************************************************************************)
EXTENDS CapacityReport, FiniteSets

CONSTANT None   \* a key that holds nothing

-----------------------------------------------------------------------------
(***************************************************************************)
(* Cluster states.                                                         *)
(***************************************************************************)
\* Normalize: an unset state is LIVE.
Normalize(s) == IF s = "" THEN "LIVE" ELSE s

\* RejectsPlacement and AcceptsPlacement: DARK only when asked for, LIVE only
\* when not, and nothing else ever.
AcceptsPlacement(s, wantDark) ==
  \/ Normalize(s) = "LIVE" /\ ~wantDark
  \/ Normalize(s) = "DARK" /\ wantDark

-----------------------------------------------------------------------------
(***************************************************************************)
(* Policies.                                                               *)
(***************************************************************************)
\* matchSubject: the issuer always, the subject when the selector names one,
\* and every claim the selector names; a claim the caller lacks is no match.
MatchSubject(sel, id) ==
  /\ sel.issuer = id.issuer
  /\ sel.subject # "" => sel.subject = id.subject
  /\ \A k \in DOMAIN sel.claims :
       k \in DOMAIN id.claims /\ id.claims[k] = sel.claims[k]

Specificity(sel) ==
  Cardinality(DOMAIN sel.claims) + (IF sel.subject # "" THEN 1 ELSE 0)

\* How specifically a policy matches a caller: the best of its selectors.
Matches(policy, id, n) ==
  /\ \E sel \in policy.subjects : MatchSubject(sel, id) /\ Specificity(sel) = n
  /\ \A sel \in policy.subjects : MatchSubject(sel, id) => Specificity(sel) <= n

Governs(policies, id) ==
  {p \in DOMAIN policies :
     policies[p] # None /\ \E sel \in policies[p].subjects : MatchSubject(sel, id)}

\* selectPolicy: deny by default, the most specific match, ties to the first
\* name.  The result is a policy name, or None.
SelectPolicy(policies, id) ==
  LET rank(p) == CHOOSE n \in 0..9 : Matches(policies[p], id, n)
  IN  IF Governs(policies, id) = {} THEN None
      ELSE CHOOSE p \in Governs(policies, id) :
             \A q \in Governs(policies, id) :
               rank(q) < rank(p) \/ (rank(q) = rank(p) /\ p <= q)

-----------------------------------------------------------------------------
(***************************************************************************)
(* The filter.                                                             *)
(***************************************************************************)
\* The stage at which filter stops a registered cell, or "admitted".
StageOf(cluster, permits, wantDark, entry) ==
  IF cluster.label \notin permits THEN "permission"
  ELSE IF ~AcceptsPlacement(cluster.state, wantDark) THEN "state"
  ELSE IF entry = None \/ entry.health # "Fresh" THEN "capacity"
  ELSE "admitted"

\* filter: every registered cell, once, at the first stage that refuses it.
Filter(clusters, permits, wantDark, snapshot) ==
  [c \in {c \in DOMAIN clusters : clusters[c] # None} |->
     StageOf(clusters[c], permits, wantDark, snapshot[c])]

AtStage(candidates, stages) ==
  {c \in DOMAIN candidates : candidates[c] \in stages}

\* Decision.Admitted
Admitted(candidates) == AtStage(candidates, {"admitted"})

\* refusalFor: the furthest stage any cell reached.
RefusalFor(candidates) ==
  IF AtStage(candidates, {"capacity"}) # {} THEN "CapacityUnknown"
  ELSE IF AtStage(candidates, {"state", "admitted"}) # {} THEN "NoEligibleCells"
  ELSE "NoPermittedCells"

\* Decision.Confidence
Confidence(candidates) ==
  IF AtStage(candidates, {"capacity"}) # {} THEN "degraded" ELSE "high"

-----------------------------------------------------------------------------
(***************************************************************************)
(* The score.                                                              *)
(***************************************************************************)
\* The n-th member of a set of names, counting from zero.
Nth(S, n) == CHOOSE c \in S : Cardinality({d \in S : d < c}) = n

\* Round robin: the cursor modulo the number of survivors, by name.
RoundRobin(admitted, cursor) == Nth(admitted, cursor % Cardinality(admitted))

\* Least loaded: the lowest utilisation, ties to the first name.
LeastLoaded(admitted, snapshot) ==
  CHOOSE c \in admitted :
    \A d \in admitted \ {c} :
      \/ LessUsed(snapshot[c].utilisation, snapshot[d].utilisation)
      \/ /\ ~LessUsed(snapshot[d].utilisation, snapshot[c].utilisation)
         /\ c < d

\* strategyOf: least loaded unless the policy says otherwise.
StrategyOf(spec) == IF spec.strategy = "" THEN "LeastLoaded" ELSE spec.strategy

\* score
Score(strategy, admitted, cursor, snapshot) ==
  IF strategy = "RoundRobin" THEN RoundRobin(admitted, cursor)
  ELSE LeastLoaded(admitted, snapshot)
=============================================================================
