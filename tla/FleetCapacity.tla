--------------------------- MODULE FleetCapacity ----------------------------
(***************************************************************************)
(* How heartbeats reach every hub replica, and how a replica that lost its *)
(* index in a restart gets warm again: the agents (internal/agent), the    *)
(* report handler (internal/hub/capacity.go), the relay to the other       *)
(* replicas (relay.go), the warm-up of a starting one (warmup.go) and the  *)
(* leader's reconciler of deleted Clusters (cluster_controller.go).        *)
(*                                                                         *)
(* A tick is one heartbeat interval.  An agent with a connection reports   *)
(* once in every tick, a relay ends within one (relayTimeout), and the     *)
(* warm-up check, which runs every second, is never a tick late.  Every    *)
(* Cluster declares its reporter.                                          *)
(***************************************************************************)
EXTENDS Integers, FiniteSets

CONSTANTS
  Cells, Replicas,
  Mortal,          \* cells that may be drained, deleted or lose their agent
  StaleAfter,       \* ticks after which an entry is Unknown
  Retention,       \* ticks after which an entry is dropped
  WarmupTimeout,   \* ticks a starting replica waits for the fleet
  MaxMishaps,       \* bound: restarts, lost relays, edits and agents stopping
  Nil

ASSUME FleetAssumption ==
  /\ StaleAfter \in Nat \ {0} /\ Retention \in Nat /\ Retention >= StaleAfter
  /\ WarmupTimeout \in Nat /\ MaxMishaps \in Nat
  /\ Replicas # {} /\ Nil \notin Replicas /\ Nil \notin 0..Retention + 1

VARIABLES
  cluster,    \* the API server's Clusters: live, draining or absent
  cache,      \* each replica's informer cache of them
  todo,       \* deleted cells in the leader's work queue
  leader,     \* the replica whose reconcilers run
  alive,      \* cells whose agent runs
  conn,       \* the replica an agent is connected to, or Nil
  sent,       \* agents that have reported in this tick
  net,        \* reports on the way or being handled
  index,      \* age of the entry per replica and cell, or Nil
  ready, warm,
  uptime,     \* ticks since the replica started, up to WarmupTimeout
  mishaps      \* restarts, lost relays, edits and stopped agents so far

operator == <<cluster, alive>>
fleetVars == <<operator, cache, todo, leader, conn, sent, net, index, ready,
               warm, uptime, mishaps>>

States == {"live", "draining", "absent"}
Ages == 0..Retention + 1
Message == [to : Replicas, cell : Cells, relayed : BOOLEAN,
            authorized : BOOLEAN]

FleetTypeOK ==
  /\ cluster \in [Cells -> States] /\ cache \in [Replicas -> [Cells -> States]]
  /\ todo \subseteq Cells /\ leader \in Replicas
  /\ alive \subseteq Cells /\ sent \subseteq Cells
  /\ conn \in [Cells -> Replicas \cup {Nil}]
  /\ net \subseteq Message
  /\ index \in [Replicas -> [Cells -> Ages \cup {Nil}]]
  /\ ready \in [Replicas -> BOOLEAN] /\ warm \in [Replicas -> BOOLEAN]
  /\ uptime \in [Replicas -> 0..WarmupTimeout]
  /\ mishaps \in 0..MaxMishaps

\* A fleet whose replicas are all starting: nothing is ready, no index holds
\* anything, and the agents are running.
FleetInit ==
  /\ cluster = [c \in Cells |-> "live"]
  /\ cache = [r \in Replicas |-> cluster]
  /\ todo = {} /\ leader = CHOOSE r \in Replicas : TRUE
  /\ alive = Cells /\ sent = {} /\ net = {}
  /\ conn = [c \in Cells |-> Nil]
  /\ index = [r \in Replicas |-> [c \in Cells |-> Nil]]
  /\ ready = [r \in Replicas |-> FALSE] /\ warm = [r \in Replicas |-> FALSE]
  /\ uptime = [r \in Replicas |-> 0]
  /\ mishaps = 0

-----------------------------------------------------------------------------
(***************************************************************************)
(* The agents.                                                             *)
(***************************************************************************)
\* HubClient.Report over the connection the client keeps or, failing one, a
\* new one through the Service, which routes to ready replicas.
Reachable(c) ==
  IF conn[c] # Nil THEN {conn[c]} ELSE {r \in Replicas : ready[r]}

\* Reporter.once: the cell is measured and the report sent.  A heartbeat that
\* finds no hub is tried again.
Heartbeat(c) ==
  /\ c \in alive \ sent
  /\ \E r \in Reachable(c) :
       /\ conn' = [conn EXCEPT ![c] = r]
       /\ net' = net \cup {[to |-> r, cell |-> c, relayed |-> FALSE,
                            authorized |-> FALSE]}
  /\ sent' = sent \cup {c}
  /\ UNCHANGED <<operator, cache, todo, leader, index, ready, warm, uptime,
                 mishaps>>

-----------------------------------------------------------------------------
(***************************************************************************)
(* handleReportCapacity, in two steps: the registry is read, then the      *)
(* index is written.                                                       *)
(***************************************************************************)
\* The handler, taking a report for a cell nobody registered.
AuthorizeAny(m) ==
  /\ m \in net /\ ~m.authorized
  /\ net' = (net \ {m}) \cup {[m EXCEPT !.authorized = TRUE]}
  /\ UNCHANGED <<operator, cache, todo, leader, conn, sent, index, ready, warm,
                 uptime, mishaps>>

\* The cached Cluster is read: without one the report is refused.
Authorize(m) ==
  /\ m \in net /\ ~m.authorized
  /\ net' = (net \ {m}) \cup
       (IF cache[m.to][m.cell] = "absent" THEN {}
        ELSE {[m EXCEPT !.authorized = TRUE]})
  /\ UNCHANGED <<operator, cache, todo, leader, conn, sent, index, ready, warm,
                 uptime, mishaps>>

\* Relay: the agent's report, marked, to every other replica, ready or not.
RelaysOf(m) ==
  {[to |-> r, cell |-> m.cell, relayed |-> TRUE, authorized |-> FALSE]
     : r \in Replicas \ {m.to}}

\* The handler, passing nothing on.
StoreAlone(m) ==
  /\ m \in net /\ m.authorized
  /\ index' = [index EXCEPT ![m.to][m.cell] = 0]
  /\ net' = net \ {m}
  /\ UNCHANGED <<operator, cache, todo, leader, conn, sent, ready, warm,
                 uptime, mishaps>>

\* Registry.Report, then the relay of a report that came from the agent.
Store(m) ==
  /\ m \in net /\ m.authorized
  /\ index' = [index EXCEPT ![m.to][m.cell] = 0]
  /\ net' = (net \ {m}) \cup (IF m.relayed THEN {} ELSE RelaysOf(m))
  /\ UNCHANGED <<operator, cache, todo, leader, conn, sent, ready, warm,
                 uptime, mishaps>>

Mishap ==
  /\ mishaps < MaxMishaps
  /\ mishaps' = mishaps + 1

\* A relay fails, or the peer lookup did: nothing retries it.
LoseRelay(m) ==
  /\ m \in net /\ m.relayed /\ Mishap
  /\ net' = net \ {m}
  /\ UNCHANGED <<operator, cache, todo, leader, conn, sent, index, ready, warm,
                 uptime>>

-----------------------------------------------------------------------------
(***************************************************************************)
(* Warm-up.                                                                *)
(***************************************************************************)
IsFresh(r, c) == index[r][c] # Nil /\ index[r][c] <= StaleAfter

\* FleetCoverage: every cell expected to report has a fresh entry.
Covered(r) == \A c \in Cells : cache[r][c] = "live" => IsFresh(r, c)

\* trackWarmth sees coverage: the replica is warm for good, and ready.
Warm(r) ==
  /\ ~warm[r] /\ Covered(r)
  /\ warm' = [warm EXCEPT ![r] = TRUE]
  /\ ready' = [ready EXCEPT ![r] = TRUE]
  /\ UNCHANGED <<operator, cache, todo, leader, conn, sent, net, index, uptime,
                 mishaps>>

\* awaitWarmth gives up: ready while cold.
Deadline(r) ==
  /\ ~ready[r] /\ uptime[r] = WarmupTimeout
  /\ ready' = [ready EXCEPT ![r] = TRUE]
  /\ UNCHANGED <<operator, cache, todo, leader, conn, sent, net, index, warm,
                 uptime, mishaps>>

\* A replica is replaced: its index and its connections go with it, and its
\* lease is released to any replica.
Restart(r) ==
  /\ Mishap
  /\ index' = [index EXCEPT ![r] = [c \in Cells |-> Nil]]
  /\ ready' = [ready EXCEPT ![r] = FALSE]
  /\ warm' = [warm EXCEPT ![r] = FALSE]
  /\ uptime' = [uptime EXCEPT ![r] = 0]
  /\ cache' = [cache EXCEPT ![r] = cluster]
  /\ conn' = [c \in Cells |-> IF conn[c] = r THEN Nil ELSE conn[c]]
  /\ net' = {m \in net : m.to # r}
  /\ IF leader = r THEN leader' \in Replicas /\ todo' = {}
     ELSE UNCHANGED <<leader, todo>>
  /\ UNCHANGED <<operator, sent>>

-----------------------------------------------------------------------------
(***************************************************************************)
(* The registry of Clusters.                                               *)
(***************************************************************************)
\* An operator drains or deletes a cell.
EditCluster(c, state) ==
  /\ c \in Mortal /\ cluster[c] # "absent" /\ cluster[c] # state /\ Mishap
  /\ cluster' = [cluster EXCEPT ![c] = state]
  /\ UNCHANGED <<alive, cache, todo, leader, conn, sent, net, index, ready,
                 warm, uptime>>

\* A replica's watch catches up.  Its reconciler, if it leads, gets the
\* deleted cells to look at.
Sync(r) ==
  /\ cache[r] # cluster
  /\ cache' = [cache EXCEPT ![r] = cluster]
  /\ todo' = IF leader = r
             THEN todo \cup {c \in Cells : cluster[c] = "absent"
                                           /\ cache[r][c] # "absent"}
             ELSE todo
  /\ UNCHANGED <<operator, leader, conn, sent, net, index, ready, warm, uptime,
                 mishaps>>

\* ClusterReconciler.Reconcile finds no Cluster: Registry.Forget.
Reconcile(c) ==
  /\ c \in todo /\ todo' = todo \ {c}
  /\ index' = [index EXCEPT ![leader][c] = Nil]
  /\ UNCHANGED <<operator, cache, leader, conn, sent, net, ready, warm, uptime,
                 mishaps>>

\* Registry.Prune drops what is past retention.
Prune(r) ==
  LET kept(c) == index[r][c] # Nil /\ index[r][c] <= Retention IN
  /\ index' = [index EXCEPT ![r] =
       [c \in Cells |-> IF kept(c) THEN index[r][c] ELSE Nil]]
  /\ index' # index
  /\ UNCHANGED <<operator, cache, todo, leader, conn, sent, net, ready, warm,
                 uptime, mishaps>>

-----------------------------------------------------------------------------
AgentStops(c) ==
  /\ c \in Mortal \cap alive /\ Mishap
  /\ alive' = alive \ {c}
  /\ conn' = [conn EXCEPT ![c] = Nil]
  /\ UNCHANGED <<cluster, cache, todo, leader, sent, net, index, ready, warm,
                 uptime>>

Older(a) == IF a = Nil \/ a = Retention + 1 THEN a ELSE a + 1

\* An interval passes: everything due in it has happened.
Beat ==
  /\ net = {}
  /\ \A c \in alive : Reachable(c) # {} => c \in sent
  /\ \A r \in Replicas :
       /\ ~warm[r] => ~Covered(r)
       /\ ~ready[r] => uptime[r] < WarmupTimeout
  /\ sent' = {}
  /\ index' = [r \in Replicas |-> [c \in Cells |-> Older(index[r][c])]]
  /\ uptime' = [r \in Replicas |->
       IF uptime[r] < WarmupTimeout THEN uptime[r] + 1 ELSE uptime[r]]
  /\ UNCHANGED <<operator, cache, todo, leader, conn, net, ready, warm, mishaps>>

Handle == \E m \in net : Authorize(m) \/ Store(m)

FleetNext ==
  \/ \E c \in Cells : Heartbeat(c)
  \/ \E m \in net : Authorize(m)
  \/ \E m \in net : Store(m)
  \/ \E m \in net : LoseRelay(m)
  \/ \E r \in Replicas : Warm(r)
  \/ \E r \in Replicas : Deadline(r)
  \/ \E r \in Replicas : Restart(r)
  \/ \E c \in Cells, s \in {"draining", "absent"} : EditCluster(c, s)
  \/ \E r \in Replicas : Sync(r)
  \/ \E c \in Cells : Reconcile(c)
  \/ \E r \in Replicas : Prune(r)
  \/ \E c \in Cells : AgentStops(c)
  \/ Beat

FleetSpec == FleetInit /\ [][FleetNext]_fleetVars

\* Everything the hub and a running agent do is done eventually; restarts,
\* losses, edits and an agent's end need not happen.
Fairness ==
  /\ WF_fleetVars(Handle) /\ WF_fleetVars(Beat)
  /\ WF_fleetVars(\E c \in Cells : Reconcile(c))
  /\ \A c \in Cells : WF_fleetVars(Heartbeat(c))
  /\ \A r \in Replicas :
       /\ WF_fleetVars(Warm(r)) /\ WF_fleetVars(Deadline(r))
       /\ WF_fleetVars(Sync(r)) /\ WF_fleetVars(Prune(r))

FairSpec == FleetSpec /\ Fairness

-----------------------------------------------------------------------------
\* If in the end the agent of every live cell runs, every replica ends warm,
\* whatever restarts and lost relays there were, a restart of all of them
\* included: the warm-up deadline breaks the circle of agents that need a
\* ready replica and replicas that need a report, the relay warms the replicas
\* no agent is connected to, and relaying ends (awaitWarmth, trackWarmth,
\* PeerRelay, the relay header of handleReportCapacity).
EveryReplicaWarms ==
  <>[](\A c \in Cells : cluster[c] = "live" => c \in alive)
    => <>[](\A r \in Replicas : warm[r] /\ ready[r])

\* Nothing is left that could store a report of c: every replica's cache has
\* seen it deleted, and no handler is past its look at the cache.
Refused(c) ==
  /\ \A r \in Replicas : cache[r][c] = "absent"
  /\ \A m \in net : m.cell = c => ~m.authorized

\* From then on no replica's entry of the cell is renewed, whatever its agent
\* sends, whatever is relayed late and whoever restarts or comes to lead: each
\* only ages until it is dropped (handleReportCapacity's registry check, which
\* relayed reports go through as well).
DeletedStaysOut ==
  [][\A c \in Cells : Refused(c) =>
       /\ Refused(c)'
       /\ \A r \in Replicas :
            index'[r][c] \in {Nil, index[r][c], Older(index[r][c])}]_fleetVars

\* The entry of a deleted cell leaves every replica's index, although its
\* agent goes on reporting and only the leader is told to forget it
\* (handleReportCapacity's registry check and Registry.Prune).
DeletedCellLapses ==
  \A c \in Mortal :
    cluster[c] = "absent" ~> [](\A r \in Replicas : index[r][c] = Nil)
=============================================================================
