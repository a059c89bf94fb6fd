--------------------------- MODULE MCPlacementApi ---------------------------
(***************************************************************************)
(* Small instances of PlacementApi: two cells, two policies of which the   *)
(* second is the more specific, and requests that reach every outcome.     *)
(***************************************************************************)
EXTENDS PlacementApi, TLC

NoClaims == [k \in {} |-> ""]
Caller == [issuer |-> "ci", subject |-> "alice", claims |-> NoClaims]
Stranger == [issuer |-> "other", subject |-> "bob", claims |-> NoClaims]

Ask(id, dark, dry, valid, ttl) ==
  [id |-> id, workload |-> "w", dark |-> dark, dry |-> dry, valid |-> valid,
   ttl |-> ttl]

Deploy == Ask(Caller, FALSE, FALSE, TRUE, 90)
DryRun == Ask(Caller, FALSE, TRUE, TRUE, 0)
SmokeTest == Ask(Caller, TRUE, FALSE, TRUE, 0)
Malformed == Ask(Caller, FALSE, FALSE, FALSE, 0)
Uninvited == Ask(Stranger, FALSE, FALSE, TRUE, 0)

Selector(subject) == [issuer |-> "ci", subject |-> subject, claims |-> NoClaims]

\* Everyone from the issuer, into cells labelled a.
Wide == [subjects |-> {Selector("")}, allowDark |-> FALSE, selector |-> TRUE,
         permits |-> {"a"}, strategy |-> "", sticky |-> TRUE,
         ttl |-> [default |-> 0, max |-> 0]]

\* One caller, into every cell, dark cells included, in rotation unless the
\* workload has a record.
Narrow == [subjects |-> {Selector("alice")}, allowDark |-> TRUE,
           selector |-> TRUE, permits |-> {"a", "b"},
           strategy |-> "RoundRobin", sticky |-> TRUE,
           ttl |-> [default |-> 20, max |-> 240]]

\* The narrow policy with a selector that is no selector.
Broken == [Narrow EXCEPT !.selector = FALSE]

Cell(label, env, state) == [label |-> label, env |-> env, state |-> state]

MCClusterSpecs == {Cell("a", "prod", "LIVE"), Cell("a", "prod", "DRAINING"),
                   Cell("b", "dev", "DARK")}

Fresh(u) == [health |-> "Fresh", utilisation |-> u]
MCEntries == {Fresh(<<1, 2>>), [health |-> "Unknown", utilisation |-> Idle]}

MCInitClusters == (1 :> Cell("a", "prod", "LIVE") @@ 2 :> Cell("a", "dev", ""))
MCInitSnapshot == (1 :> Fresh(<<1, 2>>) @@ 2 :> Fresh(<<1, 3>>))
MCAllSpecs == MCClusterSpecs \cup {MCInitClusters[2]}
MCAllEntries == MCEntries \cup {MCInitSnapshot[2]}

MCInitPolicies == (1 :> Wide @@ 2 :> Narrow)

Recorded(cells) == [pw \in Policies \X Workloads |-> cells]
AnyRecorded == {Recorded({}), Recorded({1})}

AllRequests == {Deploy, DryRun, SmokeTest, Malformed, Uninvited}
AllPolicies == {Wide, Narrow, Broken}

AnyWiring == {[placer |-> TRUE, minter |-> TRUE],
              [placer |-> FALSE, minter |-> TRUE],
              [placer |-> TRUE, minter |-> FALSE]}
=============================================================================
