--------------------------- MODULE ClusterRegistry ---------------------------
(***************************************************************************)
(* The registry of cells and the controllers that report on it: the        *)
(* handlers that register a cell and change its state                      *)
(* (internal/hub/clusters.go, clusterstate.go), and the reconcilers of the *)
(* elected replica that publish what the hub makes of each Cluster and of  *)
(* a PlacementPolicy (cluster_controller.go, policy_controller.go).        *)
(*                                                                         *)
(* Handlers and reconcilers read an informer cache and write to the API    *)
(* server.  The cache catches up object by object; a change it sees is     *)
(* what puts work in a controller's queue.  An Update carries the version  *)
(* it read, so a reconcile is one step: whatever happens between its read  *)
(* and its write shows as a conflict.  One policy stands for all.          *)
(***************************************************************************)
EXTENDS Naturals, FiniteSets

CONSTANTS
  Cells,
  Budget,     \* bound: edits by operators, failures and restarts, together
  None

ASSUME RegistryAssumption == Budget \in Nat

States == {"LIVE", "DARK", "DRAINING"}
Items == Cells \cup {"policy"}

VARIABLES
  cells,     \* the Clusters: spec.state, a label, and status
  policy,    \* the PlacementPolicy, or None before it is created
  cache,     \* what the informers hold of the two
  queue,     \* the items waiting to be reconciled
  change,    \* a state change between its read and its patch, or None
  spent      \* how much of the budget is gone

vars == <<cells, policy, cache, queue, change, spent>>

\* gen is metadata.generation; uid, gen, relabels and writes together are the
\* object's version.  writes counts the updates of its status.
ClusterStatus == [state : States, accepting : BOOLEAN, gen : Nat]
Cluster ==
  [uid : Nat, state : States, labelled : BOOLEAN, gen : Nat,
   relabels : Nat, writes : Nat, status : ClusterStatus \cup {None}]

PolicyStatus ==
  [ready : {"CellsMatched", "NoCellsMatched", "InvalidSelector"},
   matched : 0..Cardinality(Cells), trusted : BOOLEAN, gen : Nat]
Policy ==
  [valid : BOOLEAN, trusted : BOOLEAN, gen : Nat, writes : Nat,
   status : PolicyStatus \cup {None}]

ASSUME NoneAssumption == None \notin Cluster /\ None \notin ClusterStatus

TypeOK ==
  /\ cells \in [Cells -> Cluster \cup {None}]
  /\ policy \in Policy \cup {None}
  /\ cache.cells \in [Cells -> Cluster \cup {None}]
  /\ cache.policy \in Policy \cup {None}
  /\ queue \subseteq Items
  /\ change \in [cell : Cells, read : Cluster, desired : States] \cup {None}
  /\ spent \in 0..Budget

Init ==
  /\ cells = [c \in Cells |-> None]
  /\ policy = None
  /\ cache = [cells |-> cells, policy |-> policy]
  /\ queue = {}
  /\ change = None
  /\ spent = 0

Spend == spent < Budget /\ spent' = spent + 1
Objects == <<cells, policy>>

-----------------------------------------------------------------------------
(***************************************************************************)
(* The HTTP API.                                                           *)
(***************************************************************************)
\* The payloads that decode and validate; the state may be left out.
Omitted == ""
Registrations == [state : States \cup {Omitted}, labelled : BOOLEAN]

\* toCluster, but for the default state.
New(reg) ==
  [uid |-> spent, state |-> reg.state, labelled |-> reg.labelled, gen |-> 1,
   relabels |-> 0, writes |-> 0, status |-> None]

\* handleRegisterCluster, of a payload that validates; a name that is taken
\* is a conflict.  An omitted state is LIVE.
Register(c, reg) ==
  /\ Spend
  /\ cells[c] = None
  /\ cells' = [cells EXCEPT ![c] =
       New([reg EXCEPT !.state = IF @ = Omitted THEN "LIVE" ELSE @])]
  /\ UNCHANGED <<policy, cache, queue, change>>

\* handleSetClusterState, up to its patch: the cell is read from the cache,
\* and one that is not there is a 404.
ReadState(c, desired) ==
  /\ Spend
  /\ change = None
  /\ cache.cells[c] # None
  /\ change' = [cell |-> c, read |-> cache.cells[c], desired |-> desired]
  /\ UNCHANGED <<Objects, cache, queue>>

\* The patch with the whole object in it.
PatchWhole ==
  /\ change # None
  /\ LET c == change.cell old == cells[c] IN
     IF old = None THEN UNCHANGED cells
     ELSE cells' = [cells EXCEPT ![c] =
            [old EXCEPT !.state = change.desired, !.gen = old.gen + 1,
                        !.labelled = change.read.labelled]]
  /\ change' = None
  /\ UNCHANGED <<policy, cache, queue, spent>>

\* The merge patch: the state, if it differs from the one that was read, and
\* otherwise nothing.  The API server raises the generation when the spec
\* changes, and answers with the object as it then is.  A cell that is gone
\* by now is an error.
PatchState ==
  /\ change # None
  /\ LET c == change.cell old == cells[c] IN
     cells' = [cells EXCEPT ![c] =
       IF old = None \/ change.read.state = change.desired
            \/ old.state = change.desired
       THEN old
       ELSE [old EXCEPT !.state = change.desired, !.gen = old.gen + 1]]
  /\ change' = None
  /\ UNCHANGED <<policy, cache, queue, spent>>

-----------------------------------------------------------------------------
(***************************************************************************)
(* Operators, at the API server.                                           *)
(***************************************************************************)
EditState(c, state) ==
  /\ Spend
  /\ cells[c] # None /\ cells[c].state # state
  /\ cells' = [cells EXCEPT ![c].state = state, ![c].gen = @ + 1]
  /\ UNCHANGED <<policy, cache, queue, change>>

Relabel(c) ==
  /\ Spend
  /\ cells[c] # None
  /\ cells' = [cells EXCEPT ![c].labelled = ~@, ![c].relabels = @ + 1]
  /\ UNCHANGED <<policy, cache, queue, change>>

Delete(c) ==
  /\ Spend
  /\ cells[c] # None
  /\ cells' = [cells EXCEPT ![c] = None]
  /\ UNCHANGED <<policy, cache, queue, change>>

CreatePolicy(valid, trusted) ==
  /\ Spend
  /\ policy = None
  /\ policy' = [valid |-> valid, trusted |-> trusted, gen |-> 1, writes |-> 0,
                status |-> None]
  /\ UNCHANGED <<cells, cache, queue, change>>

EditPolicy ==
  /\ Spend
  /\ policy # None
  /\ policy' = [policy EXCEPT !.valid = ~@, !.gen = @ + 1]
  /\ UNCHANGED <<cells, cache, queue, change>>

-----------------------------------------------------------------------------
(***************************************************************************)
(* The informers.                                                          *)
(***************************************************************************)
\* policiesInNamespace: the policies the cache holds.
CachedPolicies == IF cache.policy = None THEN {} ELSE {"policy"}

\* A Cluster event without the policy controller's watch on Clusters.
SyncCellAlone(c) ==
  /\ cache.cells[c] # cells[c]
  /\ cache' = [cache EXCEPT !.cells[c] = cells[c]]
  /\ queue' = queue \cup {c}
  /\ UNCHANGED <<Objects, change, spent>>

\* A Cluster event: for the cluster controller, and for every policy.
SyncCell(c) ==
  /\ cache.cells[c] # cells[c]
  /\ cache' = [cache EXCEPT !.cells[c] = cells[c]]
  /\ queue' = queue \cup {c} \cup CachedPolicies
  /\ UNCHANGED <<Objects, change, spent>>

SyncPolicy ==
  /\ cache.policy # policy
  /\ cache' = [cache EXCEPT !.policy = policy]
  /\ queue' = queue \cup {"policy"}
  /\ UNCHANGED <<Objects, change, spent>>

-----------------------------------------------------------------------------
(***************************************************************************)
(* The reconcilers.                                                        *)
(***************************************************************************)
\* The item is done with, or, if it failed, tried again.
Settle(item, ok) == queue' = IF ok THEN queue \ {item} ELSE queue

\* applyClusterStatus, with acceptingCondition.
StatusOf(cl) ==
  [state |-> cl.state, accepting |-> cl.state = "LIVE", gen |-> cl.gen]

\* equality, had it compared the timestamps.
EqualNever(a, b) == a = b /\ a = None

\* equality
Equal(a, b) == a = b

SameVersion(a, b) ==
  /\ a # None /\ b # None
  /\ <<a.uid, a.gen, a.relabels, a.writes>> = <<b.uid, b.gen, b.relabels, b.writes>>

Publish(c, status) ==
  cells' = [cells EXCEPT ![c].status = status, ![c].writes = @ + 1]

\* ClusterReconciler.Reconcile with no version in its update.
ReconcileCellUnlocked(c) ==
  /\ c \in queue
  /\ LET cl == cache.cells[c] IN
     IF cl = None \/ Equal(cl.status, StatusOf(cl)) \/ cells[c] = None
     THEN Settle(c, TRUE) /\ UNCHANGED cells
     ELSE Publish(c, StatusOf(cl)) /\ Settle(c, TRUE)
  /\ UNCHANGED <<policy, cache, change, spent>>

\* ClusterReconciler.Reconcile.  For a cell that is gone there is only its
\* capacity to forget.
ReconcileCell(c) ==
  /\ c \in queue
  /\ LET cl == cache.cells[c] IN
     IF cl = None \/ Equal(cl.status, StatusOf(cl))
     THEN Settle(c, TRUE) /\ UNCHANGED cells
     ELSE IF SameVersion(cl, cells[c])
     THEN Publish(c, StatusOf(cl)) /\ Settle(c, TRUE)
     ELSE Settle(c, FALSE) /\ UNCHANGED cells
  /\ UNCHANGED <<policy, cache, change, spent>>

Matching(of) == {c \in Cells : of[c] # None /\ of[c].labelled}

\* What PlacementPolicyReconciler makes of a policy, with issuerCondition.
PolicyStatusOf(p, of) ==
  LET n == IF p.valid THEN Cardinality(Matching(of)) ELSE 0 IN
  [ready |-> IF ~p.valid THEN "InvalidSelector"
             ELSE IF n = 0 THEN "NoCellsMatched" ELSE "CellsMatched",
   matched |-> n, trusted |-> p.trusted, gen |-> p.gen]

\* PlacementPolicyReconciler.Reconcile.
ReconcilePolicy ==
  /\ "policy" \in queue
  /\ LET p == cache.policy IN
     IF p = None \/ p.status = PolicyStatusOf(p, cache.cells)
     THEN Settle("policy", TRUE) /\ UNCHANGED policy
     ELSE IF p.gen = policy.gen /\ p.writes = policy.writes
     THEN /\ policy' = [policy EXCEPT !.status = PolicyStatusOf(p, cache.cells),
                                      !.writes = @ + 1]
          /\ Settle("policy", TRUE)
     ELSE Settle("policy", FALSE) /\ UNCHANGED policy
  /\ UNCHANGED <<cells, cache, change, spent>>

\* The elected replica is replaced: informers list everything before the
\* controllers start, and everything listed is reconciled.
Restart ==
  /\ Spend
  /\ cache' = [cells |-> cells, policy |-> policy]
  /\ queue' = {c \in Cells : cells[c] # None}
              \cup (IF policy = None THEN {} ELSE {"policy"})
  /\ change' = None
  /\ UNCHANGED Objects

-----------------------------------------------------------------------------
Api ==
  \/ \E c \in Cells, reg \in Registrations : Register(c, reg)
  \/ \E c \in Cells, s \in States : ReadState(c, s)
  \/ PatchState

Operator ==
  \/ \E c \in Cells, s \in States : EditState(c, s)
  \/ \E c \in Cells : Relabel(c) \/ Delete(c)
  \/ \E v, t \in BOOLEAN : CreatePolicy(v, t)
  \/ EditPolicy

Next ==
  \/ Api
  \/ Operator
  \/ \E c \in Cells : SyncCell(c) \/ ReconcileCell(c)
  \/ SyncPolicy \/ ReconcilePolicy
  \/ Restart

Spec == Init /\ [][Next]_vars

\* Watches deliver, and the controllers of whichever replica is elected work
\* through their queues, retries included.
Fairness ==
  /\ \A c \in Cells : WF_vars(SyncCell(c)) /\ WF_vars(ReconcileCell(c))
  /\ WF_vars(SyncPolicy) /\ WF_vars(ReconcilePolicy)

-----------------------------------------------------------------------------
(***************************************************************************)
(* What the registry promises.                                             *)
(***************************************************************************)
\* A state change touches nothing but the state, whatever was edited since it
\* read the cell; and the state is the one asked for, unless another change
\* had not reached the cache when it was read (handleSetClusterState computes
\* its patch from the cache, and a patch from LIVE to LIVE is empty).
StateChangeIsConfined ==
  [][change # None /\ change' = None /\ spent' = spent /\ cells[change.cell] # None =>
       LET old == cells[change.cell] new == cells'[change.cell] IN
       /\ new.labelled = old.labelled /\ new.status = old.status
       /\ \/ new.state = change.desired
          \/ new.state = old.state /\ change.read.state # old.state]_vars

\* A status that names the current generation tells the current state, also
\* when a cell was deleted and registered again under a reconciler that still
\* had the old one in its cache.
ClaimedGenerationIsTrue ==
  \A c \in Cells :
    cells[c] # None /\ cells[c].status # None =>
      /\ cells[c].status.gen <= cells[c].gen
      /\ cells[c].status.gen = cells[c].gen => cells[c].status = StatusOf(cells[c])

\* A cell's status is written at most once for each generation of its spec:
\* neither the controller's own writes nor stale caches, relabelling or
\* restarts make it write again (ADR-002: etcd writes follow operator edits).
WritesFollowEdits ==
  \A c \in Cells : cells[c] # None => cells[c].writes <= cells[c].gen

\* Every cell's status comes to show its state at its generation, and a
\* policy's status the cells it matches, whichever of the policy, the cells and
\* their labels was seen first (the watches of the two controllers).
StatusesSettle ==
  /\ <>[](\A c \in Cells : cells[c] # None => cells[c].status = StatusOf(cells[c]))
  /\ <>[](policy # None => policy.status = PolicyStatusOf(policy, cells))
=============================================================================
