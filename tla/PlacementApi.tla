---------------------------- MODULE PlacementApi ----------------------------
(***************************************************************************)
(* POST /api/v1/placements on one hub replica: handlePlacement in          *)
(* internal/hub/placement_api.go, the engine it asks for a cell            *)
(* (internal/hub/placement/engine.go) and the broker it asks for a         *)
(* credential (internal/hub/broker), with concurrent requests, a registry  *)
(* that changes under them, a spoke that may not answer, and crashes.      *)
(*                                                                         *)
(* A handler serves one request.  clusters and policies are what the       *)
(* replica's informer cache holds, and snapshot what its capacity index    *)
(* returns; both change at any time.  The rate limiter is a verdict, and   *)
(* the workload memory the set of cells recorded for a workload, any of    *)
(* which a lagging cache may return: WorkloadMemory has its protocol.      *)
(***************************************************************************)
EXTENDS PlacementEngine, TokenTTL, Refusal, Sequences

CONSTANTS
  Handlers,       \* concurrent requests
  Cells,          \* registered or registrable cells, by name rank
  Policies,       \* policy names, by rank
  Requests,       \* [id, workload, dark, dry, valid, ttl]
  ClusterSpecs,   \* [label, env, state]
  PolicySpecs,    \* [subjects, allowDark, selector, permits, strategy, sticky, ttl]
  Entries,        \* capacity entries [health, utilisation]
  Lifetimes,      \* minutes a spoke may issue a token for
  Wirings,        \* [placer, minter : BOOLEAN]
  InitClusters, InitPolicies, InitSnapshot,
  InitRemembered, \* what earlier requests may have recorded
  Ceiling,        \* the hub's token ceiling, minutes
  Floor,          \* KubernetesMinTTL, minutes
  MaxEdits,       \* registry and capacity changes during a behaviour
  MaxCrashes

ASSUME NamesAssumption ==
  /\ Cells \subseteq Nat /\ IsFiniteSet(Cells)
  /\ Policies \subseteq Nat /\ IsFiniteSet(Policies)
ASSUME TTLAssumption ==
  /\ Ceiling \in Nat /\ Floor \in Nat /\ Lifetimes \subseteq Nat \ {0}
  /\ \A spec \in PolicySpecs : spec.ttl \in [default : Nat, max : Nat]
ASSUME SpecsAssumption ==
  /\ \A spec \in PolicySpecs :
       \A sel \in spec.subjects : Specificity(sel) \in 0..9
  /\ \A entry \in Entries : entry.utilisation \in Nat \X (Nat \ {0})
ASSUME InitAssumption ==
  /\ InitClusters \in [Cells -> ClusterSpecs \cup {None}]
  /\ InitPolicies \in [Policies -> PolicySpecs \cup {None}]
  /\ InitSnapshot \in [Cells -> Entries \cup {None}]

VARIABLES
  wired,       \* which parts of the server were built
  warm,        \* Server.warm
  clusters,    \* cached Clusters: [Cells -> ClusterSpecs or None]
  policies,    \* cached PlacementPolicies
  snapshot,    \* capacity.Snapshot: [Cells -> Entries or None]
  cursors,     \* Engine.cursors
  remembered,  \* cells recorded per policy and workload
  request,     \* the handlers' local state
  trail,       \* audit records written per request
  token,       \* the token a cell issued for the request, or None
  answer,      \* the response written, or None
  edits, crashes

registry == <<wired, warm, clusters, policies, snapshot, edits, crashes>>
vars == <<registry, cursors, remembered, request, trail, token, answer>>

Workloads == {r.workload : r \in Requests}
Steps == {"admit", "policy", "filter", "mint", "token", "issued", "remember",
          "done", "lost"}

\* A string that was not given.
Unset == ""

\* audit.Record: event, outcome, reason, cell and policy (None for none), and
\* the Kubernetes Event it left on the Cluster of the cell.
AuditRecord ==
  [event : {"placement", "mint"}, outcome : {"granted", "dry-run", "refused"},
   reason : Reasons \cup {Unset}, cell : Cells \cup {None},
   policy : Policies \cup {None},
   noted : {Unset, "Placed", "CredentialIssued", "MintFailed"}]

\* The local state of a handler: its request, its place in the handler, the
\* policy and cell decided on, the resolved lifetime, and two histories: the
\* cells that have accepted no placement of its kind, and those that have had
\* no fresh capacity, at any moment since it arrived.
Local ==
  [pc : Steps, req : Requests, policy : Policies \cup {None},
   spec : PolicySpecs \cup {None}, cell : Cells \cup {None},
   max : Nat, shut : SUBSET Cells, silent : SUBSET Cells]

\* A token as the cell issued it, and the response as it was written.
Token == [cell : Cells, life : Lifetimes, received : BOOLEAN]
Answer == [reason : Reasons \cup {Unset}, cell : Cells \cup {None}, life : Nat]

ASSUME NoneAssumption ==
  None \notin Local /\ None \notin Token /\ None \notin Cells

TypeOK ==
  /\ wired \in Wirings /\ warm \in BOOLEAN
  /\ clusters \in [Cells -> ClusterSpecs \cup {None}]
  /\ policies \in [Policies -> PolicySpecs \cup {None}]
  /\ snapshot \in [Cells -> Entries \cup {None}]
  /\ cursors \in [Policies -> 0..Cardinality(Handlers)]
  /\ remembered \in [Policies \X Workloads -> SUBSET Cells]
  /\ \A h \in Handlers :
       /\ request[h] = None \/ request[h] \in Local
       /\ Len(trail[h]) \in 0..2
       /\ \A i \in 1..Len(trail[h]) : trail[h][i] \in AuditRecord
       /\ token[h] = None \/ token[h] \in Token
       /\ answer[h] = None \/ answer[h] \in Answer
  /\ edits \in 0..MaxEdits /\ crashes \in 0..MaxCrashes

\* New, NewEngine and an empty trail; the caches have synced, and records of
\* earlier placements may be there.
Init ==
  /\ wired \in Wirings /\ warm = FALSE
  /\ clusters = InitClusters /\ policies = InitPolicies
  /\ snapshot = InitSnapshot
  /\ cursors = [p \in Policies |-> 0]
  /\ remembered \in InitRemembered
  /\ request = [h \in Handlers |-> None]
  /\ trail = [h \in Handlers |-> <<>>]
  /\ token = [h \in Handlers |-> None]
  /\ answer = [h \in Handlers |-> None]
  /\ edits = 0 /\ crashes = 0

-----------------------------------------------------------------------------
(***************************************************************************)
(* The pieces of the handler.                                              *)
(***************************************************************************)
At(h, step) == request[h] # None /\ request[h].pc = step

Goto(h, step) == request' = [request EXCEPT ![h].pc = step]

\* clusterEvent: a dry run and a refusal without a cell deserve no Event.
EventReason(event, outcome) ==
  CASE event = "placement" /\ outcome = "granted" -> "Placed"
    [] event = "mint" /\ outcome = "granted" -> "CredentialIssued"
    [] event = "mint" /\ outcome = "refused" -> "MintFailed"
    [] OTHER -> Unset

\* clusterEvents.Notify: an Event needs the Cluster, as the cache has it now.
Notify(event, outcome, cell) ==
  IF cell = None THEN Unset
  ELSE IF clusters[cell] = None THEN Unset ELSE EventReason(event, outcome)

\* Auditor.Record: the log, then the Event.
Audited(h, event, outcome, reason, cell, policy) ==
  trail' = [trail EXCEPT ![h] =
    Append(@, [event |-> event, outcome |-> outcome, reason |-> reason,
               cell |-> cell, policy |-> policy,
               noted |-> Notify(event, outcome, cell)])]

Answered(h, reason, cell, life) ==
  answer' = [answer EXCEPT ![h] =
               [reason |-> reason, cell |-> cell, life |-> life]]

\* refuse: the refusal is audited, then written.
RefuseKnowing(h, event, reason, policy) ==
  /\ Audited(h, event, "refused", reason, request[h].cell, policy)
  /\ Answered(h, reason, None, 0)
  /\ Goto(h, "done")
  /\ UNCHANGED <<registry, cursors, remembered>>

\* refuse, with what the handler has put in its record so far.
Refuse(h, event, reason) ==
  /\ RefuseKnowing(h, event, reason, request[h].policy)
  /\ UNCHANGED token

\* Place returned an error; a RefusedError says which policy was consulted.
PlaceFails(h, err, policy) ==
  /\ RefuseKnowing(h, "placement", PlacementRefusal(err), policy)
  /\ UNCHANGED token

-----------------------------------------------------------------------------
(***************************************************************************)
(* Placement.                                                              *)
(***************************************************************************)
Shut(dark, cl) ==
  {c \in Cells : cl[c] = None \/ ~AcceptsPlacement(cl[c].state, dark)}

Silent(sn) == {c \in Cells : sn[c] = None \/ sn[c].health # "Fresh"}

Arrive(h, r) ==
  /\ request[h] = None
  /\ request' = [request EXCEPT ![h] =
       [pc |-> "admit", req |-> r, policy |-> None, spec |-> None,
        cell |-> None, max |-> 0,
        shut |-> Shut(r.dark, clusters), silent |-> Silent(snapshot)]]
  /\ UNCHANGED <<registry, cursors, remembered, trail, token, answer>>

\* The checks, made only once the replica is warm: a request waits for that.
AdmitWaits(h) ==
  /\ At(h, "admit") /\ warm
  /\ \/ Refuse(h, "placement", "RateLimited")
     \/ ~wired.placer /\ Refuse(h, "placement", "PlacementUnavailable")
     \/ /\ wired.placer /\ ~request[h].req.valid
        /\ Refuse(h, "placement", "InvalidRequest")
     \/ /\ wired.placer /\ request[h].req.valid
        /\ Goto(h, "policy")
        /\ UNCHANGED <<registry, cursors, remembered, trail, token, answer>>

\* The checks before the engine is asked, in the handler's order.
Admit(h) ==
  /\ At(h, "admit")
  /\ \/ Refuse(h, "placement", "RateLimited")
     \/ /\ ~(wired.placer /\ warm)
        /\ Refuse(h, "placement", "PlacementUnavailable")
     \/ /\ wired.placer /\ warm /\ ~request[h].req.valid
        /\ Refuse(h, "placement", "InvalidRequest")
     \/ /\ wired.placer /\ warm /\ request[h].req.valid
        /\ Goto(h, "policy")
        /\ UNCHANGED <<registry, cursors, remembered, trail, token, answer>>

\* policyFor, on the cached policies.
PolicyFor(id) == SelectPolicy(policies, id)

\* candidates, on the cached Clusters and the capacity index.
Candidates(q) == Filter(clusters, q.spec.permits, q.req.dark, snapshot)

\* policyFor, the dark check, and the selector candidates compiles.  A failed
\* list and an invalid selector are no RefusedError: no policy is recorded.
ChoosePolicy(h) ==
  LET req == request[h].req
      p == PolicyFor(req.id)
  IN
  /\ At(h, "policy")
  /\ \/ PlaceFails(h, "listing", None)
     \/ p = None /\ PlaceFails(h, "NoPolicy", None)
     \/ /\ p # None /\ req.dark /\ ~policies[p].allowDark
        /\ PlaceFails(h, "DarkNotPermitted", p)
     \/ /\ p # None /\ (req.dark => policies[p].allowDark)
        /\ ~policies[p].selector
        /\ PlaceFails(h, "invalid selector", None)
     \/ /\ p # None /\ (req.dark => policies[p].allowDark)
        /\ policies[p].selector
        /\ request' = [request EXCEPT ![h].pc = "filter", ![h].policy = p,
                                      ![h].spec = policies[p]]
        /\ UNCHANGED <<registry, cursors, remembered, trail, token, answer>>

\* Whether keep consults the memory at all.
Sticky(q) == q.spec.sticky /\ ~q.req.dark

Key(q) == <<q.policy, q.req.workload>>

\* keep: a recorded cell, if the filter admitted it.  A record may be absent
\* from the cache, or expired.
Kept(q, admitted) ==
  IF Sticky(q) THEN (remembered[Key(q)] \cap admitted) ELSE {}

\* The audit record of a decision, and the answer to a dry run.
Decided(h, c) ==
  LET q == request[h] IN
  /\ Audited(h, "placement", IF q.req.dry THEN "dry-run" ELSE "granted", Unset,
             c, q.policy)
  /\ request' = [request EXCEPT ![h].cell = c,
                                ![h].pc = IF q.req.dry THEN "done" ELSE "mint"]
  /\ IF q.req.dry THEN Answered(h, Unset, c, 0) ELSE UNCHANGED answer
  /\ UNCHANGED <<registry, remembered, token>>

\* The decision, kept in a recorded cell whether or not the filter admits it.
PlaceKeepsAny(h) ==
  LET q == request[h]
      cands == Candidates(q)
      adm == Admitted(cands)
  IN
  /\ At(h, "filter")
  /\ \/ /\ adm = {}
        /\ PlaceFails(h, RefusalFor(cands), q.policy)
     \/ /\ adm # {} /\ UNCHANGED cursors
        /\ \E c \in remembered[Key(q)] : Decided(h, c)
     \/ /\ adm # {}
        /\ Decided(h, Score(StrategyOf(q.spec), adm, cursors[q.policy], snapshot))
        /\ UNCHANGED cursors

\* candidates and the rest of Place: an empty filter is refused by the
\* furthest stage, a recorded survivor is kept, otherwise one is scored.
Place(h) ==
  LET q == request[h]
      cands == Candidates(q)
      adm == Admitted(cands)
  IN
  /\ At(h, "filter")
  /\ \/ /\ adm = {}
        /\ PlaceFails(h, RefusalFor(cands), q.policy)
     \/ /\ \E c \in Kept(q, adm) : Decided(h, c)
        /\ UNCHANGED cursors
     \/ /\ adm # {}
        /\ Decided(h, Score(StrategyOf(q.spec), adm, cursors[q.policy], snapshot))
        /\ cursors' = IF StrategyOf(q.spec) = "RoundRobin"
                      THEN [cursors EXCEPT ![q.policy] = @ + 1] ELSE cursors

-----------------------------------------------------------------------------
(***************************************************************************)
(* Minting.                                                                *)
(***************************************************************************)
\* clusterByName, on the cached Clusters.
ClusterByName(c) == clusters[c]

\* The cell is read again, and Broker.Mint up to the TokenRequest: no broker,
\* a cell no longer registered, an unusable trust configuration or spoke
\* credential, or a bound below the provider's floor.
Mint(h) ==
  LET q == request[h] cl == ClusterByName(q.cell)
      ttl == ResolveTTL(cl.env, q.spec.ttl, q.req.ttl, Ceiling, Floor)
  IN
  /\ At(h, "mint")
  /\ \/ ~wired.minter /\ Refuse(h, "mint", "MintUnavailable")
     \/ wired.minter /\ Refuse(h, "mint", "MintFailed")
     \/ /\ wired.minter /\ cl # None /\ ttl.ok
        /\ request' = [request EXCEPT ![h].pc = "token", ![h].max = ttl.max]
        /\ UNCHANGED <<registry, cursors, remembered, trail, token, answer>>

\* The cell's API server issues a token and replies.
SpokeIssues(h, life) ==
  /\ At(h, "token")
  /\ token' = [token EXCEPT ![h] =
       [cell |-> request[h].cell, life |-> life, received |-> FALSE]]
  /\ Goto(h, "issued")
  /\ UNCHANGED <<registry, cursors, remembered, trail, answer>>

\* The TokenRequest, its failure reported as a hub that could not decide.
TokenRequestFailsOpen(h) ==
  /\ At(h, "token") \/ At(h, "issued")
  /\ Refuse(h, "mint", "PlacementUnavailable")

\* The TokenRequest fails: refused by the cell, or mintTimeout ran out, or
\* the client hung up, in the last two perhaps after the token was issued.
TokenRequestFails(h) ==
  /\ At(h, "token") \/ At(h, "issued")
  /\ Refuse(h, "mint", "MintFailed")

Received(h) == token' = [token EXCEPT ![h].received = TRUE]

\* The credential, taken whatever lifetime the cell gave it.
TakeUnchecked(h) ==
  /\ At(h, "issued") /\ Received(h)
  /\ Audited(h, "mint", "granted", Unset, request[h].cell, request[h].policy)
  /\ Goto(h, "remember")
  /\ UNCHANGED <<registry, cursors, remembered, answer>>

\* The credential, answered before it is audited.
TakeUnaudited(h) ==
  /\ At(h, "issued") /\ Received(h)
  /\ Goto(h, "remember")
  /\ UNCHANGED <<registry, cursors, remembered, trail, answer>>

\* The reply is in: a credential that outlives the bound by more than a
\* minute is discarded, any other is audited before it is answered.
Take(h) ==
  LET q == request[h] IN
  /\ At(h, "issued") /\ Received(h)
  /\ \/ /\ token[h].life > q.max + 1
        /\ RefuseKnowing(h, "mint", "MintFailed", q.policy)
     \/ /\ token[h].life <= q.max + 1
        /\ Audited(h, "mint", "granted", Unset, q.cell, q.policy)
        /\ Goto(h, "remember")
        /\ UNCHANGED <<registry, cursors, remembered, answer>>

\* Engine.Remember, which may fail and costs the request nothing, and the
\* response with the credential.
Respond(h) ==
  LET q == request[h] IN
  /\ At(h, "remember")
  /\ \/ UNCHANGED remembered
     \/ /\ Sticky(q)
        /\ remembered' = [remembered EXCEPT ![Key(q)] = @ \cup {q.cell}]
  /\ Answered(h, Unset, q.cell, token[h].life)
  /\ Goto(h, "done")
  /\ UNCHANGED <<registry, cursors, trail, token>>

-----------------------------------------------------------------------------
(***************************************************************************)
(* The replica around the handlers.                                        *)
(***************************************************************************)
\* Requests under way after the caches have become cl and sn.
Noticed(cl, sn) ==
  [h \in Handlers |->
     IF request[h] = None THEN None
     ELSE [request[h] EXCEPT !.shut = @ \cap Shut(request[h].req.dark, cl),
                             !.silent = @ \cap Silent(sn)]]

Over(h) == At(h, "done") \/ At(h, "lost")

\* Once every request is over, changes and crashes are of no interest.
Underway == \E h \in Handlers : ~Over(h)

\* A change is of interest to requests that are still to read it.
Awaited(steps) ==
  /\ wired.placer
  /\ {h \in Handlers :
        request[h] = None \/ (request[h].req.valid /\ request[h].pc \in steps)} # {}

Edit(steps) ==
  /\ edits < MaxEdits /\ edits' = edits + 1
  /\ Awaited(steps)
  /\ UNCHANGED <<wired, warm, crashes, cursors, remembered, trail, token, answer>>

\* A watch event: a Cluster is registered, edited or deleted.
ClusterEvent(c, spec) ==
  /\ Edit({"admit", "policy", "filter", "mint"})
  /\ clusters[c] # spec
  /\ clusters' = [clusters EXCEPT ![c] = spec]
  /\ request' = Noticed(clusters', snapshot)
  /\ UNCHANGED <<policies, snapshot>>

\* A watch event: a PlacementPolicy is created, edited or deleted.
PolicyEvent(p, spec) ==
  /\ Edit({"admit", "policy"})
  /\ policies[p] # spec
  /\ policies' = [policies EXCEPT ![p] = spec]
  /\ UNCHANGED <<clusters, snapshot, request>>

\* A heartbeat arrives, goes stale or lapses.
CapacityEvent(c, entry) ==
  /\ Edit({"admit", "policy", "filter"})
  /\ snapshot[c] # entry
  /\ snapshot' = [snapshot EXCEPT ![c] = entry]
  /\ request' = Noticed(clusters, snapshot')
  /\ UNCHANGED <<policies, clusters>>

\* trackWarmth
Warm ==
  /\ ~warm /\ warm' = TRUE
  /\ UNCHANGED <<wired, clusters, policies, snapshot, edits, crashes, cursors,
                 remembered, request, trail, token, answer>>

\* The process dies and is replaced: its requests, its capacity index, its
\* cursors and its warmth go with it; the trail was written out.
Crash ==
  /\ crashes < MaxCrashes /\ crashes' = crashes + 1 /\ Underway
  /\ warm' = FALSE
  /\ snapshot' = [c \in Cells |-> None]
  /\ cursors' = [p \in Policies |-> 0]
  /\ request' = [h \in Handlers |->
       IF request[h] # None /\ request[h].pc # "done"
       THEN [request[h] EXCEPT !.pc = "lost"] ELSE request[h]]
  /\ UNCHANGED <<wired, clusters, policies, edits, remembered, trail, token,
                 answer>>

\* The steps the hub itself takes in a request.
Handle(h) ==
  \/ Admit(h) \/ ChoosePolicy(h) \/ Place(h)
  \/ Mint(h) \/ TokenRequestFails(h) \/ Take(h) \/ Respond(h)

Terminated ==
  /\ ~Underway
  /\ UNCHANGED vars

Next ==
  \/ \E h \in Handlers, r \in Requests : Arrive(h, r)
  \/ \E h \in Handlers : Handle(h)
  \/ \E h \in Handlers, life \in Lifetimes : SpokeIssues(h, life)
  \/ \E c \in Cells, spec \in ClusterSpecs \cup {None} : ClusterEvent(c, spec)
  \/ \E p \in Policies, spec \in PolicySpecs \cup {None} : PolicyEvent(p, spec)
  \/ \E c \in Cells, entry \in Entries \cup {None} : CapacityEvent(c, entry)
  \/ Warm
  \/ Crash
  \/ Terminated

Spec == Init /\ [][Next]_vars

FairSpec == Spec /\ \A h \in Handlers : WF_vars(Handle(h))
-----------------------------------------------------------------------------
(***************************************************************************)
(* What the trail, the response and the issued token say of each other.    *)
(***************************************************************************)
Says(a, event, outcome) == a.event = event /\ a.outcome = outcome

\* Every request that was answered has exactly the audit records its answer
\* claims, written first and naming the same cell and policy: one refusal
\* with the same reason, one dry-run decision, or a granted decision followed
\* by the mint's own outcome.  The Events on the Cluster say no more than
\* that: none of a dry run, and no credential issued that was refused
\* (refuse and the two audit.Record calls of handlePlacement, Notify).
TrailTellsAnswer ==
  \A h \in Handlers : answer[h] # None =>
    LET t == trail[h] a == answer[h] IN
    \/ /\ Len(t) = 1 /\ Says(t[1], "placement", "refused")
       /\ t[1].reason = a.reason /\ a.reason # Unset /\ t[1].cell = None
       /\ t[1].noted = Unset
    \/ /\ Len(t) = 1 /\ Says(t[1], "placement", "dry-run")
       /\ request[h].req.dry /\ t[1].noted = Unset
       /\ a = [reason |-> Unset, cell |-> t[1].cell, life |-> 0]
    \/ /\ Len(t) = 2 /\ Says(t[1], "placement", "granted")
       /\ t[2].event = "mint" /\ ~request[h].req.dry
       /\ t[2].cell = t[1].cell /\ t[2].policy = t[1].policy
       /\ \/ /\ t[2].outcome = "refused" /\ t[2].reason = a.reason
             /\ a.reason # Unset /\ t[2].noted \in {Unset, "MintFailed"}
          \/ /\ t[2].outcome = "granted" /\ a.cell = t[1].cell
             /\ a.reason = Unset /\ a.life > 0
             /\ t[2].noted \in {Unset, "CredentialIssued"}

\* A cell is granted only if, at some moment since the request arrived, it
\* accepted placements of that kind, and at some moment it had fresh
\* capacity: neither a remembered cell nor a policy read earlier takes a
\* placement to a cell that was closed all along (Engine.Place and keep).
GrantedCellWasOpen ==
  \A h \in Handlers :
    request[h] # None /\ request[h].cell # None =>
      request[h].cell \notin request[h].shut \cup request[h].silent

\* A refusal that a client's stance may answer with a cached placement is
\* never given once a cell has issued a token, and never without a decision
\* still to be made: minting sits on the closed side of the line
\* (refusal.Optimisation and the mint path of handlePlacement).
FallbackOnlyBeforeMint ==
  \A h \in Handlers :
    answer[h] # None /\ answer[h].reason \in Optimisation =>
      token[h] = None /\ request[h].cell = None

\* No credential leaves the hub with a lifetime above its ceiling, whatever
\* the policy allows, the caller asks for and the cell issues, beyond the
\* minute allowed for clock skew; a ceiling of zero is none (ResolveTTL and
\* the check in Broker.Mint).
HandedOutWithinCeiling ==
  \A h \in Handlers :
    (answer[h] # None /\ Ceiling > 0) => answer[h].life <= Ceiling + 1

\* The placement a handler stands for: the cell decided on, what was issued,
\* and whether it died with the process.
Chose(q) == IF q = None THEN None ELSE q.cell
Got(tok) == IF tok = None THEN {} ELSE {<<tok.cell, tok.life>>}
Died(q) == q # None /\ q.pc = "lost"

Chosen == [h \in Handlers |-> Chose(request[h])]
Issued == [h \in Handlers |-> Got(token[h])]
Gone == [h \in Handlers |-> Died(request[h])]

Abstract == INSTANCE Placement WITH chosen <- Chosen, issued <- Issued,
                                    gone <- Gone

\* Every request is a placement as Placement promises it: decided once, with
\* at most one token, from the cell decided on, and answered once, with that
\* token if it is within the ceiling, or with a refusal.  One that a stance
\* may answer ends it before anything was decided or issued
\* (handlePlacement, Engine.Place and Broker.Mint).
ImplementsPlacement == Abstract!Spec

\* Every request that arrives is answered unless the process dies: a cold
\* replica refuses rather than waits, and no step waits for a cell without a
\* deadline (the check of Server.warm, and mintTimeout).
EveryRequestEnds ==
  \A h \in Handlers :
    request[h] # None ~> (At(h, "lost") \/ answer[h] # None)

=============================================================================
