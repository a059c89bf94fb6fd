--------------------------- MODULE WorkloadMemory ---------------------------
(***************************************************************************)
(* Where each workload was last placed under one policy, as the hub's      *)
(* replicas keep it (internal/hub/placement/memory.go): WorkloadPlacement  *)
(* objects in the API server, read through each replica's informer cache   *)
(* by a placement deciding (recall, keep), written back once a credential  *)
(* has been minted (remember, create), deleted by the elected replica's    *)
(* sweep, and garbage-collected with the policy object that owns them.     *)
(*                                                                         *)
(* Every API call is a step of its own, so placements of any replicas, the *)
(* sweep, operators and the garbage collector interleave between a read    *)
(* and the write it leads to.  A cache is the store as it was at the last  *)
(* Sync.  Which cells pass the filter is the environment's choice at each  *)
(* decision: capacity and caches differ between replicas.  Requests that   *)
(* keep does not serve (dark, no workload, stickiness None) touch nothing  *)
(* here.  One object exists per policy and workload, because its name is a *)
(* digest of the two.  An operator may delete a record; that one may also  *)
(* write another cell into it is left out, as the properties are about     *)
(* what the hub writes.                                                    *)
(***************************************************************************)
EXTENDS Naturals, FiniteSets

CONSTANTS
  Workloads, Cells, Replicas,
  Handlers,      \* placement requests in flight, hub-wide
  ExpireAfter,   \* MemoryOptions.ExpireAfter, in clock units
  RefreshAfter,  \* refreshAfter
  MaxPerPolicy,  \* MemoryOptions.MaxPerPolicy
  MaxNow,        \* bound: the clock stops here
  MaxWrites,     \* bound: writes to the object of one workload
  MaxUID,        \* bound: incarnations of the policy
  None

ASSUME WindowsAssumption ==
  /\ ExpireAfter \in Nat \ {0} /\ RefreshAfter \in Nat
  /\ RefreshAfter < ExpireAfter       \* Config.Validate: at least MinExpireAfter
  /\ MaxPerPolicy \in Nat \ {0}
  /\ MaxNow \in Nat /\ MaxWrites \in Nat /\ MaxUID \in Nat \ {0}

\* A WorkloadPlacement: its spec, the policy UID of its owner reference and
\* its resource version.
Record ==
  [cell : Cells, at : 0..MaxNow, owner : 1..MaxUID, version : 1..MaxWrites]

ASSUME NoneAssumption == None \notin Record

\* How the remembered cell fared in a decision: there was none to keep, or
\* it was kept, or it had not passed the filter.
Verdicts == {"nothing", "kept", "refused"}

\* A request between its decision and the end of Remember: what the decision
\* read (memo) and chose, and remember's clock reading once it has one.
InFlight ==
  [pc : {"mint", "update", "count", "create"},
   replica : Replicas, workload : Workloads,
   memo : Record \cup {None}, uid : 1..MaxUID,
   verdict : Verdicts, cell : Cells, now : 0..MaxNow]

VARIABLES
  now,       \* the clock, shared: replicas' clocks are assumed in step
  policy,    \* the policy object: its latest UID, and whether it exists
  store,     \* the API server's WorkloadPlacements, by workload
  version,   \* the last resource version given to each workload's object
  policies,  \* each replica's cached policy UID, 0 when it has none
  cache,     \* each replica's cached WorkloadPlacements
  requests,  \* requests in flight
  sweeping,  \* listed records the sweep has still to look at
  minted     \* history: the workloads and cells credentials were minted for

vars == <<now, policy, store, version, policies, cache, requests, sweeping,
          minted>>

TypeOK ==
  /\ now \in 0..MaxNow
  /\ policy \in [uid : 1..MaxUID, exists : BOOLEAN]
  /\ store \in [Workloads -> Record \cup {None}]
  /\ version \in [Workloads -> 0..MaxWrites]
  /\ policies \in [Replicas -> 0..MaxUID]
  /\ cache \in [Replicas -> [Workloads -> Record \cup {None}]]
  /\ requests \in [Handlers -> InFlight \cup {None}]
  /\ sweeping \in SUBSET (Workloads \X Record)
  /\ minted \in SUBSET (Workloads \X Cells)

Init ==
  /\ now = 0
  /\ policy = [uid |-> 1, exists |-> TRUE]
  /\ store = [w \in Workloads |-> None]
  /\ version = [w \in Workloads |-> 0]
  /\ policies = [r \in Replicas |-> 1]
  /\ cache = [r \in Replicas |-> store]
  /\ requests = [h \in Handlers |-> None]
  /\ sweeping = {}
  /\ minted = {}

Unheld(f) == {w \in Workloads : f[w] = None}

\* A live predicate that forgets the expiry.
LiveForever(rec) == rec.at <= now

\* live
Live(rec) == now - rec.at < ExpireAfter

\* The API server writes or deletes one object; a write takes a new version.
Put(w, rec) ==
  /\ version[w] < MaxWrites
  /\ version' = [version EXCEPT ![w] = @ + 1]
  /\ store' = [store EXCEPT
                 ![w] = [rec EXCEPT !.version = version[w] + 1]]

Remove(w) ==
  /\ store' = [store EXCEPT ![w] = None]
  /\ UNCHANGED version

Environment == <<now, policy, policies, cache>>
Objects == <<store, version>>

-----------------------------------------------------------------------------
(***************************************************************************)
(* A placement: Engine.Place from keep on, the mint, Remember.             *)
(***************************************************************************)
\* keep: the cell of a live record, when it passed the filter.
Verdict(rec, admitted) ==
  IF rec = None \/ ~Live(rec) THEN "nothing"
  ELSE IF rec.cell \in admitted THEN "kept"
  ELSE "refused"

\* The cell kept or, failing that, whichever admitted one the strategy picks.
Chosen(rec, admitted) ==
  IF Verdict(rec, admitted) = "kept" THEN {rec.cell} ELSE admitted

\* recall: what the cache holds.  A failed read is answered by placing
\* afresh.
Recall(r, w) == {cache[r][w], None}

\* Place: under the cached policy, with the cells that passed the filter.
Decide(h, r, w, admitted) ==
  /\ requests[h] = None
  /\ policies[r] # 0
  /\ admitted # {}
  /\ \E rec \in Recall(r, w) : \E cell \in Chosen(rec, admitted) :
       requests' = [requests EXCEPT ![h] =
         [pc |-> "mint", replica |-> r, workload |-> w, memo |-> rec,
          uid |-> policies[r], verdict |-> Verdict(rec, admitted),
          cell |-> cell, now |-> 0]]
  /\ UNCHANGED <<Environment, Objects, sweeping, minted>>

Done(h) == requests' = [requests EXCEPT ![h] = None]

\* On to create: of the memo only the policy UID still matters.
ToCreate(h, time) ==
  requests' = [requests EXCEPT ![h].pc = "count", ![h].now = time,
                               ![h].memo = None, ![h].verdict = "nothing"]

\* A mint refused, a dry run, a write error or timeout, a replica crashing:
\* the request ends where it stands and what it wrote stays.
Abandon(h) ==
  /\ requests[h] # None
  /\ Done(h)
  /\ UNCHANGED <<Environment, Objects, sweeping, minted>>

\* remember's branch before its first API call: nothing to do for a record
\* that names this cell and is younger than the refresh interval.
Branch(h) ==
  LET q == requests[h] IN
  IF q.memo = None THEN ToCreate(h, now)
  ELSE IF q.memo.cell = q.cell /\ now - q.memo.at < RefreshAfter
  THEN Done(h)
  ELSE requests' = [requests EXCEPT ![h].pc = "update", ![h].now = now]

\* The handler, remembering what was not given a credential.
RememberUnminted(h) ==
  /\ requests[h] # None /\ requests[h].pc = "mint"
  /\ Branch(h)
  /\ UNCHANGED <<Environment, Objects, sweeping, minted>>

\* handlePlacement: the cell issued a credential, and Remember is called.
Remember(h) ==
  /\ requests[h] # None /\ requests[h].pc = "mint"
  /\ minted' = minted \cup {<<requests[h].workload, requests[h].cell>>}
  /\ Branch(h)
  /\ UNCHANGED <<Environment, Objects, sweeping>>

\* Update with the optimistic lock lost.
UpdateUnlocked(h) ==
  LET q == requests[h] w == q.workload IN
  /\ q # None /\ q.pc = "update"
  /\ IF store[w] = None
     THEN ToCreate(h, q.now) /\ UNCHANGED Objects
     ELSE /\ Put(w, [q.memo EXCEPT !.cell = q.cell, !.at = q.now])
          /\ Done(h)
  /\ UNCHANGED <<Environment, sweeping, minted>>

\* remember's Update call: not found leads on to create, a conflict ends it,
\* and otherwise the object is rewritten with its owner reference unchanged.
Update(h) ==
  LET q == requests[h] w == q.workload IN
  /\ q # None /\ q.pc = "update"
  /\ \/ /\ store[w] = None
        /\ ToCreate(h, q.now)
        /\ UNCHANGED Objects
     \/ /\ store[w] # None /\ store[w].version # q.memo.version
        /\ Done(h)
        /\ UNCHANGED Objects
     \/ /\ store[w] # None /\ store[w].version = q.memo.version
        /\ Put(w, [q.memo EXCEPT !.cell = q.cell, !.at = q.now])
        /\ Done(h)
  /\ UNCHANGED <<Environment, sweeping, minted>>

\* create, up to its write: the policy's records are counted in the cache.
Count(h) ==
  LET q == requests[h]
      held == Workloads \ Unheld(cache[q.replica]) IN
  /\ q # None /\ q.pc = "count"
  /\ IF Cardinality(held) >= MaxPerPolicy
     THEN Done(h)
     ELSE requests' = [requests EXCEPT ![h].pc = "create"]
  /\ UNCHANGED <<Environment, Objects, sweeping, minted>>

\* create's Create call; an object that already exists is left alone.
Create(h) ==
  LET q == requests[h] w == q.workload IN
  /\ q # None /\ q.pc = "create"
  /\ IF store[w] = None
     THEN Put(w, [cell |-> q.cell, at |-> q.now, owner |-> q.uid,
                  version |-> 1])
     ELSE UNCHANGED Objects
  /\ Done(h)
  /\ UNCHANGED <<Environment, sweeping, minted>>

-----------------------------------------------------------------------------
(***************************************************************************)
(* The sweep of the elected replica, whichever that is at the time.        *)
(***************************************************************************)
\* sweep: the list is read from the cache once.
SweepList(r) ==
  /\ sweeping = {}
  /\ sweeping' = {<<w, cache[r][w]>> : w \in Workloads \ Unheld(cache[r])}
  /\ UNCHANGED <<Environment, Objects, requests, minted>>

\* sweep's loop body with the precondition on Delete lost.
SweepBlindly(w, rec) ==
  /\ <<w, rec>> \in sweeping
  /\ sweeping' = sweeping \ {<<w, rec>>}
  /\ IF ~Live(rec) /\ store[w] # None THEN Remove(w) ELSE UNCHANGED Objects
  /\ UNCHANGED <<Environment, requests, minted>>

\* sweep's loop body: a listed record that has expired is deleted if the
\* object is still at the version that was listed.
SweepRecord(w, rec) ==
  /\ <<w, rec>> \in sweeping
  /\ sweeping' = sweeping \ {<<w, rec>>}
  /\ IF ~Live(rec) /\ store[w] # None /\ store[w].version = rec.version
     THEN Remove(w) ELSE UNCHANGED Objects
  /\ UNCHANGED <<Environment, requests, minted>>

-----------------------------------------------------------------------------
(***************************************************************************)
(* Everyone else.                                                          *)
(***************************************************************************)
\* A replica's informers catch up with the API server.
Sync(r) ==
  /\ cache' = [cache EXCEPT ![r] = store]
  /\ UNCHANGED <<now, policy, policies, Objects, requests, sweeping, minted>>

SyncPolicy(r) ==
  /\ policies' = [policies EXCEPT
                    ![r] = IF policy.exists THEN policy.uid ELSE 0]
  /\ UNCHANGED <<now, policy, cache, Objects, requests, sweeping, minted>>

\* An operator deletes a record.
DeleteRecord(w) ==
  /\ store[w] # None
  /\ Remove(w)
  /\ UNCHANGED <<Environment, requests, sweeping, minted>>

\* An operator deletes the policy, or creates it again under its name: a new
\* object with a new UID.
DeletePolicy ==
  /\ policy.exists /\ policy.uid < MaxUID
  /\ policy' = [policy EXCEPT !.exists = FALSE]
  /\ UNCHANGED <<now, policies, cache, Objects, requests, sweeping, minted>>

CreatePolicy ==
  /\ ~policy.exists /\ policy.uid < MaxUID
  /\ policy' = [uid |-> policy.uid + 1, exists |-> TRUE]
  /\ UNCHANGED <<now, policies, cache, Objects, requests, sweeping, minted>>

Orphaned(w) ==
  store[w] # None /\ ~(policy.exists /\ store[w].owner = policy.uid)

\* Kubernetes deletes, in its own time, an object whose owner is gone.
Collect(w) ==
  /\ Orphaned(w)
  /\ Remove(w)
  /\ UNCHANGED <<Environment, requests, sweeping, minted>>

Tick ==
  /\ now < MaxNow
  /\ now' = now + 1
  /\ UNCHANGED <<policy, policies, cache, Objects, requests, sweeping, minted>>

Request(h) ==
  \/ \E r \in Replicas, w \in Workloads, admitted \in SUBSET Cells :
       Decide(h, r, w, admitted)
  \/ Abandon(h)
  \/ Remember(h)
  \/ Update(h)
  \/ Count(h)
  \/ Create(h)

Next ==
  \/ \E h \in Handlers : Request(h)
  \/ \E r \in Replicas : SweepList(r) \/ Sync(r) \/ SyncPolicy(r)
  \/ \E item \in sweeping : SweepRecord(item[1], item[2])
  \/ \E w \in Workloads : DeleteRecord(w) \/ Collect(w)
  \/ DeletePolicy
  \/ CreatePolicy
  \/ Tick

Spec == Init /\ [][Next]_vars

\* The elected replica sweeps on a ticker for as long as it runs, informers
\* keep up, and somebody is always elected.  Nothing is assumed of callers.
FairSpec ==
  /\ Spec
  /\ \A r \in Replicas : WF_vars(Sync(r)) /\ WF_vars(SweepList(r))
  /\ WF_vars(\E item \in sweeping : SweepRecord(item[1], item[2]))

-----------------------------------------------------------------------------
(***************************************************************************)
(* Properties.                                                             *)
(***************************************************************************)
\* Only a placement that was given a credential is remembered, through any
\* interleaving of replicas: the cell a record names has issued one for the
\* workload.
RememberedWasMinted ==
  \A w \in Workloads : store[w] # None => <<w, store[w].cell>> \in minted

\* The sweep changes no decision: what it deletes had expired at that moment,
\* even when a placement refreshed the record after the sweep listed it.
SweepTakesOnlyExpired ==
  [][\A w \in Workloads :
       (sweeping' # sweeping /\ store[w] # None /\ store'[w] = None)
         => ~Live(store[w])]_vars

\* A record is rewritten only for a cause.  It moves to another cell because
\* a placement that had read exactly this version found it expired or its
\* cell not admitted: one that decided earlier, on another replica or on a
\* stale cache, never overwrites a newer answer.  With its cell unchanged it
\* is rewritten at most once a refresh interval, however many replicas place
\* the workload.  And its date never goes back (keep, remember).
RewriteHasCause ==
  [][\A w \in Workloads :
       (store[w] # None /\ store'[w] # None /\ store'[w] # store[w])
         => /\ store'[w].at >= store[w].at
            /\ IF store'[w].cell = store[w].cell
               THEN store'[w].at - store[w].at >= RefreshAfter
               ELSE \E h \in Handlers :
                      /\ requests[h] # None /\ requests[h].memo = store[w]
                      /\ requests[h].verdict # "kept"]_vars

\* An expired record does not stay: it is swept, collected or refreshed, even
\* if the sweep first meets it in a stale cache and is refused.
ExpiredIsSwept ==
  \A w \in Workloads :
    (store[w] # None /\ now - store[w].at >= ExpireAfter)
      ~> (store[w] = None \/ now - store[w].at < ExpireAfter)

=============================================================================
