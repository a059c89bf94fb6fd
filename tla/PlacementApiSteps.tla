-------------------------- MODULE PlacementApiSteps -------------------------
(***************************************************************************)
(* The inductive invariant of PlacementApi, that every step preserves it,  *)
(* and that every step is one of Placement or none, for any number of      *)
(* concurrent requests and any registry.  What it takes from the engine is *)
(* one formula, EngineChooses, that PlacementApiProofs proves before it    *)
(* concludes.                                                              *)
(***************************************************************************)
EXTENDS PlacementApi, TLAPS

\* The choices of the engine exist: a policy found governs by a spec it has,
\* and a score over survivors is one of them.
EngineChooses ==
  /\ \A pols \in [Policies -> PolicySpecs \cup {None}] : \A id :
       SelectPolicy(pols, id) # None =>
         /\ SelectPolicy(pols, id) \in Policies
         /\ pols[SelectPolicy(pols, id)] \in PolicySpecs
  /\ \A S \in SUBSET Cells, cursor \in Nat : \A sn, strategy :
       /\ S # {}
       /\ \A c \in S : sn[c].utilisation \in Nat \X (Nat \ {0})
       => Score(strategy, S, cursor, sn) \in S

-----------------------------------------------------------------------------
(***************************************************************************)
(* The inductive invariant, handler by handler.                            *)
(***************************************************************************)
\* The types the argument needs.  The bound TypeOK gives the cursors counts
\* the decisions of a behaviour; here they are just natural numbers.
Typed ==
  /\ clusters \in [Cells -> ClusterSpecs \cup {None}]
  /\ policies \in [Policies -> PolicySpecs \cup {None}]
  /\ snapshot \in [Cells -> Entries \cup {None}]
  /\ cursors \in [Policies -> Nat]
  /\ request \in [Handlers -> Local \cup {None}]
  /\ trail \in [Handlers -> Seq(AuditRecord)]
  /\ token \in [Handlers -> Token \cup {None}]
  /\ answer \in [Handlers -> Answer \cup {None}]

\* A cell closed or silent all along is so now, and is not the one chosen.
Watched(q, cl, sn) ==
  /\ q.shut \subseteq Shut(q.req.dark, cl) /\ q.silent \subseteq Silent(sn)
  /\ q.cell # None => q.cell \notin q.shut \cup q.silent

\* The record of the decision.
Recorded(q, t) ==
  /\ Says(t[1], "placement", "granted")
  /\ t[1].cell = q.cell /\ t[1].policy = q.policy

\* What TrailTellsAnswer says of one handler.
Told(q, t, a) ==
  \/ /\ Len(t) = 1 /\ Says(t[1], "placement", "refused")
     /\ t[1].reason = a.reason /\ a.reason # Unset /\ t[1].cell = None
     /\ t[1].noted = Unset
  \/ /\ Len(t) = 1 /\ Says(t[1], "placement", "dry-run")
     /\ q.req.dry /\ t[1].noted = Unset
     /\ a = [reason |-> Unset, cell |-> t[1].cell, life |-> 0]
  \/ /\ Len(t) = 2 /\ Says(t[1], "placement", "granted")
     /\ t[2].event = "mint" /\ ~q.req.dry
     /\ t[2].cell = t[1].cell /\ t[2].policy = t[1].policy
     /\ \/ /\ t[2].outcome = "refused" /\ t[2].reason = a.reason
           /\ a.reason # Unset /\ t[2].noted \in {Unset, "MintFailed"}
        \/ /\ t[2].outcome = "granted" /\ a.cell = t[1].cell
           /\ a.reason = Unset /\ a.life > 0
           /\ t[2].noted \in {Unset, "CredentialIssued"}

\* What a handler has done by each point of its code.
Stage(q, t, tok, a) ==
  /\ q.pc \in {"admit", "policy", "filter"} => q.cell = None /\ t = <<>>
  /\ q.pc \in {"admit", "policy", "filter", "mint", "token"} => tok = None
  /\ q.pc \in {"filter", "mint", "token", "issued", "remember"} =>
       q.policy \in Policies /\ q.spec \in PolicySpecs
  /\ q.pc \in {"mint", "token", "issued", "remember"} =>
       q.cell \in Cells /\ ~q.req.dry /\ Recorded(q, t)
  /\ q.pc \in {"mint", "token", "issued"} => Len(t) = 1
  /\ (q.pc \in {"token", "issued", "remember"} /\ Ceiling > 0) =>
       q.max <= Ceiling
  /\ q.pc \in {"issued", "remember"} => tok # None /\ tok.cell = q.cell
  /\ q.pc = "remember" =>
       /\ tok.life <= q.max + 1
       /\ Len(t) = 2 /\ Says(t[2], "mint", "granted")
       /\ t[2].cell = q.cell /\ t[2].policy = q.policy
       /\ t[2].noted \in {Unset, "CredentialIssued"}
  /\ a # None =>
       /\ q.pc = "done" /\ Told(q, t, a)
       /\ a.reason \in Optimisation => tok = None /\ q.cell = None
       /\ Ceiling > 0 => a.life <= Ceiling + 1

Good(h) ==
  /\ request[h] = None => trail[h] = <<>> /\ token[h] = None /\ answer[h] = None
  /\ request[h] # None =>
       /\ Watched(request[h], clusters, snapshot)
       /\ Stage(request[h], trail[h], token[h], answer[h])

IInv == Typed /\ \A h \in Handlers : Good(h)

\* A step of one handler that leaves the caches alone is judged by what it
\* does to that handler.
LEMMA HandlerStep ==
  ASSUME IInv, NEW h \in Handlers, Typed', Good(h)', UNCHANGED <<clusters, snapshot>>,
         \A i \in Handlers \ {h} :
           /\ request'[i] = request[i] /\ trail'[i] = trail[i]
           /\ token'[i] = token[i] /\ answer'[i] = answer[i]
  PROVE  IInv'
<1>1. ASSUME NEW i \in Handlers, i # h PROVE Good(i)'
  <2>1. Good(i)
    BY Zenon DEF IInv
  <2>2. /\ request'[i] = request[i] /\ trail'[i] = trail[i]
        /\ token'[i] = token[i] /\ answer'[i] = answer[i]
        /\ clusters' = clusters /\ snapshot' = snapshot
    BY <1>1, Zenon
  <2> QED
    BY <2>1, <2>2, Zenon DEF Good
<1> QED
  BY <1>1, Zenon DEF IInv

\* The pieces of a step: moving on, auditing, answering.
LEMMA Moves ==
  ASSUME Typed, NEW h \in Handlers, request[h] # None, NEW step \in Steps,
         Goto(h, step)
  PROVE  /\ request' \in [Handlers -> Local \cup {None}]
         /\ request'[h] # None /\ request'[h].pc = step
         /\ request'[h].req = request[h].req
         /\ request'[h].policy = request[h].policy
         /\ request'[h].spec = request[h].spec
         /\ request'[h].cell = request[h].cell
         /\ request'[h].max = request[h].max
         /\ request'[h].shut = request[h].shut
         /\ request'[h].silent = request[h].silent
         /\ \A i \in Handlers \ {h} : request'[i] = request[i]
<1> DEFINE q == request[h]
           r == [q EXCEPT !.pc = step]
<1>1. q \in Local
  BY Zenon DEF Typed
<1>2. r \in Local
  BY <1>1, Zenon DEF Local
<1>3. /\ r.pc = step /\ r.req = q.req /\ r.policy = q.policy
      /\ r.spec = q.spec /\ r.cell = q.cell /\ r.max = q.max
      /\ r.shut = q.shut /\ r.silent = q.silent
  BY <1>1, Zenon DEF Local
<1>4. request' = [request EXCEPT ![h] = r]
  BY Zenon DEF Goto
<1> HIDE DEF r
<1>5. request'[h] = r
  BY <1>4, Zenon DEF Typed
<1>6. r # None
  BY <1>2, NoneAssumption, Zenon
<1>7. /\ request' \in [Handlers -> Local \cup {None}]
      /\ \A i \in Handlers \ {h} : request'[i] = request[i]
  BY <1>2, <1>4, Zenon DEF Typed
<1> QED
  BY <1>3, <1>5, <1>6, <1>7, Zenon

LEMMA UnsetDiffers == Unset \notin Reasons
BY Zenon DEF Unset, Reasons

LEMMA Appended ==
  ASSUME NEW S, NEW t \in Seq(S), NEW e \in S
  PROVE  /\ Append(t, e) \in Seq(S) /\ Len(Append(t, e)) = Len(t) + 1
         /\ Len(t) = 1 => Append(t, e)[1] = t[1]
         /\ Append(t, e)[Len(t) + 1] = e
<1>1. \A i \in 1..Len(t) : Append(t, e)[i] = t[i]
  OBVIOUS
<1>2. Len(t) = 1 => 1 \in 1..Len(t)
  OBVIOUS
<1>3. Len(t) = 1 => Append(t, e)[1] = t[1]
  BY <1>1, <1>2, Zenon
<1> QED
  BY <1>3

LEMMA AppendedRecord ==
  ASSUME NEW t \in Seq(AuditRecord), NEW rec \in AuditRecord
  PROVE  /\ Append(t, rec) \in Seq(AuditRecord)
         /\ Len(Append(t, rec)) = Len(t) + 1
         /\ Len(t) = 1 => Append(t, rec)[1] = t[1]
         /\ Append(t, rec)[Len(t) + 1] = rec
BY Appended

\* The trail of one handler has one more record.
Wrote(h, event, outcome, reason, cell, policy) ==
  LET a == trail'[h][Len(trail[h]) + 1] IN
  /\ trail' \in [Handlers -> Seq(AuditRecord)]
  /\ \A i \in Handlers \ {h} : trail'[i] = trail[i]
  /\ Len(trail'[h]) = Len(trail[h]) + 1
  /\ Len(trail[h]) = 1 => trail'[h][1] = trail[h][1]
  /\ Says(a, event, outcome) /\ a.reason = reason
  /\ a.cell = cell /\ a.policy = policy
  /\ a.noted = Notify(event, outcome, cell)

LEMMA Audits ==
  ASSUME Typed, NEW h \in Handlers, NEW event \in {"placement", "mint"},
         NEW outcome \in {"granted", "dry-run", "refused"},
         NEW reason \in Reasons \cup {Unset}, NEW cell \in Cells \cup {None},
         NEW policy \in Policies \cup {None},
         Audited(h, event, outcome, reason, cell, policy)
  PROVE  Wrote(h, event, outcome, reason, cell, policy)
<1> DEFINE n == Notify(event, outcome, cell)
           a == [event |-> event, outcome |-> outcome, reason |-> reason,
                 cell |-> cell, policy |-> policy, noted |-> n]
<1>1. n \in {Unset, "Placed", "CredentialIssued", "MintFailed"}
  BY Zenon DEF Notify, EventReason
<1>2. a \in AuditRecord
  BY <1>1, Zenon DEF AuditRecord
<1>3. trail' = [trail EXCEPT ![h] = Append(@, a)]
  BY Zenon DEF Audited
<1>4. PICK rec \in AuditRecord : rec = a
  BY <1>2, Zenon
<1>5. /\ Says(rec, event, outcome) /\ rec.reason = reason
      /\ rec.cell = cell /\ rec.policy = policy /\ rec.noted = n
  BY <1>4, Zenon DEF Says
<1>6. PICK t \in Seq(AuditRecord) : t = trail[h]
  BY Zenon DEF Typed
<1>7. trail'[h] = Append(t, rec)
  BY <1>3, <1>4, <1>6, Zenon DEF Typed
<1>8. /\ Append(t, rec) \in Seq(AuditRecord)
      /\ Len(Append(t, rec)) = Len(t) + 1
      /\ Len(t) = 1 => Append(t, rec)[1] = t[1]
      /\ Append(t, rec)[Len(t) + 1] = rec
  BY AppendedRecord, Zenon
<1>9. /\ trail' \in [Handlers -> Seq(AuditRecord)]
      /\ \A i \in Handlers \ {h} : trail'[i] = trail[i]
  BY <1>3, <1>4, <1>6, <1>8, Zenon DEF Typed
<1> QED
  BY <1>5, <1>6, <1>7, <1>8, <1>9, Zenon DEF Wrote

LEMMA Answers ==
  ASSUME Typed, NEW h \in Handlers, NEW reason \in Reasons \cup {Unset},
         NEW cell \in Cells \cup {None}, NEW life \in Nat,
         Answered(h, reason, cell, life)
  PROVE  /\ answer' \in [Handlers -> Answer \cup {None}]
         /\ answer'[h] = [reason |-> reason, cell |-> cell, life |-> life]
         /\ \A i \in Handlers \ {h} : answer'[i] = answer[i]
BY Zenon DEF Answered, Typed, Answer

-----------------------------------------------------------------------------
(***************************************************************************)
(* One lemma per step of the handler.                                      *)
(***************************************************************************)
LEMMA Frame ==
  ASSUME Typed, UNCHANGED registry,
         cursors' = cursors \/ cursors' \in [Policies -> Nat],
         request' \in [Handlers -> Local \cup {None}],
         trail' \in [Handlers -> Seq(AuditRecord)],
         token' \in [Handlers -> Token \cup {None}],
         answer' \in [Handlers -> Answer \cup {None}]
  PROVE  Typed' /\ UNCHANGED <<clusters, snapshot>>
BY Zenon DEF Typed, registry

\* A refusal before the decision: one record, no cell, no token.
LEMMA EarlyRefusal ==
  ASSUME IInv, NEW h \in Handlers, request[h] # None,
         request[h].pc \in {"admit", "policy", "filter"},
         NEW reason \in Reasons, NEW policy \in Policies \cup {None},
         RefuseKnowing(h, "placement", reason, policy), UNCHANGED token
  PROVE  IInv'
<1> DEFINE q == request[h]
<1>1. /\ Typed /\ Watched(q, clusters, snapshot)
      /\ q.cell = None /\ trail[h] = <<>> /\ token[h] = None
  BY Zenon DEF IInv, Good, Stage
<1>2. /\ Audited(h, "placement", "refused", reason, q.cell, policy)
      /\ Answered(h, reason, None, 0) /\ Goto(h, "done")
      /\ UNCHANGED <<registry, cursors, remembered>>
  BY Zenon DEF RefuseKnowing
<1>3. /\ q.cell \in Cells \cup {None} /\ reason \in Reasons \cup {Unset}
      /\ "done" \in Steps /\ reason # Unset
  BY <1>1, UnsetDiffers, Zenon DEF Steps
<1>4. /\ trail' \in [Handlers -> Seq(AuditRecord)]
      /\ \A i \in Handlers \ {h} : trail'[i] = trail[i]
      /\ Len(trail'[h]) = 1
      /\ Says(trail'[h][1], "placement", "refused")
      /\ trail'[h][1].reason = reason /\ trail'[h][1].cell = None
      /\ trail'[h][1].noted = Unset
  <2>1. Len(trail[h]) = 0
    BY <1>1
  <2>2. /\ trail' \in [Handlers -> Seq(AuditRecord)]
        /\ \A i \in Handlers \ {h} : trail'[i] = trail[i]
        /\ Len(trail'[h]) = 0 + 1
        /\ LET a == trail'[h][0 + 1] IN
             /\ Says(a, "placement", "refused") /\ a.reason = reason
             /\ a.cell = None /\ a.policy = policy
             /\ a.noted = Notify("placement", "refused", None)
    <3>1. Wrote(h, "placement", "refused", reason, q.cell, policy)
      BY <1>1, <1>2, <1>3, Audits, Zenon
    <3> QED
      BY <1>1, <2>1, <3>1, Zenon DEF Wrote
  <2>3. Notify("placement", "refused", None) = Unset
    BY Zenon DEF Notify
  <2> QED
    BY <2>2, <2>3
<1>5. /\ answer' \in [Handlers -> Answer \cup {None}]
      /\ answer'[h] = [reason |-> reason, cell |-> None, life |-> 0]
      /\ \A i \in Handlers \ {h} : answer'[i] = answer[i]
  BY <1>1, <1>2, <1>3, Answers, Zenon
<1>6. /\ request' \in [Handlers -> Local \cup {None}]
      /\ request'[h] # None /\ request'[h].pc = "done"
      /\ request'[h].req = q.req /\ request'[h].cell = None
      /\ request'[h].shut = q.shut /\ request'[h].silent = q.silent
      /\ \A i \in Handlers \ {h} : request'[i] = request[i]
  BY <1>1, <1>2, <1>3, Moves, Zenon
<1>7. token' = token /\ token' \in [Handlers -> Token \cup {None}]
  BY <1>1, Zenon DEF Typed
<1>8. Typed' /\ UNCHANGED <<clusters, snapshot>>
  BY <1>1, <1>2, <1>4, <1>5, <1>6, <1>7, Frame, Zenon
<1>9. Watched(request'[h], clusters', snapshot')
  BY <1>1, <1>6, <1>8, Zenon DEF Watched
<1>10. Told(request'[h], trail'[h], answer'[h])
  BY <1>3, <1>4, <1>5 DEF Told
<1>11. Stage(request'[h], trail'[h], token'[h], answer'[h])
  <2>1. answer'[h].life = 0 /\ (Ceiling > 0 => 0 <= Ceiling + 1)
    BY <1>5, TTLAssumption
  <2> QED
    BY <1>1, <1>6, <1>7, <1>10, <2>1, Zenon DEF Stage
<1>12. Good(h)'
  BY <1>6, <1>9, <1>11, Zenon DEF Good
<1> QED
  BY <1>4, <1>5, <1>6, <1>7, <1>8, <1>12, HandlerStep, Zenon

\* A refusal of the mint: a second record for the same cell, and a reason no
\* stance may answer.
LEMMA LateRefusal ==
  ASSUME IInv, NEW h \in Handlers, request[h] # None,
         request[h].pc \in {"mint", "token", "issued"},
         NEW reason \in {"MintUnavailable", "MintFailed"},
         RefuseKnowing(h, "mint", reason, request[h].policy),
         token' \in [Handlers -> Token \cup {None}],
         \A i \in Handlers \ {h} : token'[i] = token[i]
  PROVE  IInv'
<1> DEFINE q == request[h]
<1>1. /\ Typed /\ Watched(q, clusters, snapshot)
      /\ q.cell \in Cells /\ q.policy \in Policies /\ ~q.req.dry
      /\ Recorded(q, trail[h]) /\ Len(trail[h]) = 1
  BY Zenon DEF IInv, Good, Stage
<1>2. /\ Audited(h, "mint", "refused", reason, q.cell, q.policy)
      /\ Answered(h, reason, None, 0) /\ Goto(h, "done")
      /\ UNCHANGED <<registry, cursors, remembered>>
  BY Zenon DEF RefuseKnowing
<1>3. /\ reason \in Reasons \cup {Unset} /\ "done" \in Steps /\ reason # Unset
      /\ reason \notin Optimisation
  <2>1. reason \in Reasons /\ reason \notin Optimisation /\ "done" \in Steps
    BY Zenon DEF Steps, Reasons, Optimisation
  <2> QED
    BY <2>1, UnsetDiffers, Zenon
<1>4. /\ trail' \in [Handlers -> Seq(AuditRecord)]
      /\ \A i \in Handlers \ {h} : trail'[i] = trail[i]
      /\ Len(trail'[h]) = 2 /\ Recorded(q, trail'[h])
      /\ Says(trail'[h][2], "mint", "refused")
      /\ trail'[h][2].reason = reason /\ trail'[h][2].cell = q.cell
      /\ trail'[h][2].policy = q.policy
      /\ trail'[h][2].noted \in {Unset, "MintFailed"}
  <2>1. /\ trail' \in [Handlers -> Seq(AuditRecord)]
        /\ \A i \in Handlers \ {h} : trail'[i] = trail[i]
        /\ Len(trail'[h]) = 1 + 1
        /\ trail'[h][1] = trail[h][1]
        /\ LET a == trail'[h][1 + 1] IN
             /\ Says(a, "mint", "refused") /\ a.reason = reason
             /\ a.cell = q.cell /\ a.policy = q.policy
             /\ a.noted = Notify("mint", "refused", q.cell)
    <3>1. Wrote(h, "mint", "refused", reason, q.cell, q.policy)
      BY <1>1, <1>2, <1>3, Audits, Zenon
    <3> QED
      BY <1>1, <3>1, Zenon DEF Wrote
  <2>2. Notify("mint", "refused", q.cell) \in {Unset, "MintFailed"}
    BY Zenon DEF Notify, EventReason
  <2> QED
    BY <1>1, <2>1, <2>2 DEF Recorded
<1>5. /\ answer' \in [Handlers -> Answer \cup {None}]
      /\ answer'[h] = [reason |-> reason, cell |-> None, life |-> 0]
      /\ \A i \in Handlers \ {h} : answer'[i] = answer[i]
  BY <1>1, <1>2, <1>3, Answers, Zenon
<1>6. /\ request' \in [Handlers -> Local \cup {None}]
      /\ request'[h] # None /\ request'[h].pc = "done"
      /\ request'[h].req = q.req /\ request'[h].cell = q.cell
      /\ request'[h].shut = q.shut /\ request'[h].silent = q.silent
      /\ \A i \in Handlers \ {h} : request'[i] = request[i]
  BY <1>1, <1>2, <1>3, Moves
<1>8. Typed' /\ UNCHANGED <<clusters, snapshot>>
  BY <1>1, <1>2, <1>4, <1>5, <1>6, Frame, Zenon
<1>9. Watched(request'[h], clusters', snapshot')
  BY <1>1, <1>6, <1>8, Zenon DEF Watched
<1>10. Told(request'[h], trail'[h], answer'[h])
  BY <1>1, <1>3, <1>4, <1>5, <1>6 DEF Told, Recorded, Says
<1>11. Stage(request'[h], trail'[h], token'[h], answer'[h])
  <2>1. answer'[h].life = 0 /\ (Ceiling > 0 => 0 <= Ceiling + 1)
    BY <1>5, TTLAssumption
  <2>2. answer'[h].reason \notin Optimisation
    BY <1>3, <1>5
  <2> QED
    BY <1>6, <1>10, <2>1, <2>2, Zenon DEF Stage
<1>12. Good(h)'
  BY <1>6, <1>9, <1>11, Zenon DEF Good
<1> QED
  BY <1>4, <1>5, <1>6, <1>8, <1>12, HandlerStep, Zenon

\* A step that only moves the handler on.
LEMMA QuietStep ==
  ASSUME IInv, NEW h \in Handlers, NEW r \in Local,
         request' = [request EXCEPT ![h] = r],
         UNCHANGED <<registry, cursors, trail, token, answer>>,
         Watched(r, clusters, snapshot), Stage(r, trail[h], token[h], answer[h])
  PROVE  IInv'
<1>1. /\ request' \in [Handlers -> Local \cup {None}] /\ request'[h] = r
      /\ \A i \in Handlers \ {h} : request'[i] = request[i]
  BY Zenon DEF IInv, Typed
<1>2. Typed' /\ UNCHANGED <<clusters, snapshot>>
  BY <1>1, Frame, Zenon DEF IInv, Typed
<1>3. Good(h)'
  <2>1. r # None
    BY NoneAssumption, Zenon
  <2> QED
    BY <1>1, <1>2, <2>1, Zenon DEF Good
<1> QED
  BY <1>1, <1>2, <1>3, HandlerStep, Zenon

LEMMA ArriveStep ==
  ASSUME IInv, NEW h \in Handlers, NEW r \in Requests, Arrive(h, r)
  PROVE  IInv'
<1> DEFINE q == [pc |-> "admit", req |-> r, policy |-> None, spec |-> None,
                 cell |-> None, max |-> 0, shut |-> Shut(r.dark, clusters),
                 silent |-> Silent(snapshot)]
<1>1. trail[h] = <<>> /\ token[h] = None /\ answer[h] = None
  BY Zenon DEF Arrive, IInv, Good
<1>2. Shut(r.dark, clusters) \in SUBSET Cells /\ Silent(snapshot) \in SUBSET Cells
  BY Zenon DEF Shut, Silent
<1>3. q \in Local
  BY <1>2, Zenon DEF Local, Steps
<1>4. /\ q.pc = "admit" /\ q.cell = None /\ q.req = r
      /\ q.shut = Shut(r.dark, clusters) /\ q.silent = Silent(snapshot)
  BY Zenon
<1>5. request' = [request EXCEPT ![h] = q]
  BY Zenon DEF Arrive
<1> HIDE DEF q
<1>6. Watched(q, clusters, snapshot)
  BY <1>4, Zenon DEF Watched
<1>7. Stage(q, trail[h], token[h], answer[h])
  BY <1>1, <1>4, Zenon DEF Stage
<1> QED
  BY <1>3, <1>5, <1>6, <1>7, QuietStep, Zenon DEF Arrive

\* refuse before the decision, with the policy the handler knows.
LEMMA EarlyRefuse ==
  ASSUME IInv, NEW h \in Handlers, request[h] # None,
         request[h].pc \in {"admit", "policy", "filter"},
         NEW reason \in Reasons, Refuse(h, "placement", reason)
  PROVE  IInv'
<1>1. request[h].policy \in Policies \cup {None}
  BY Zenon DEF IInv, Typed, Local
<1> QED
  BY <1>1, EarlyRefusal, Zenon DEF Refuse

LEMMA PlaceFailsStep ==
  ASSUME IInv, NEW h \in Handlers, request[h] # None,
         request[h].pc \in {"admit", "policy", "filter"}, NEW err,
         NEW policy \in Policies \cup {None}, PlaceFails(h, err, policy)
  PROVE  IInv'
<1>1. PlacementRefusal(err) \in Reasons
  BY Zenon DEF PlacementRefusal, EngineErrors, Reasons
<1> QED
  BY <1>1, EarlyRefusal, Zenon DEF PlaceFails

LEMMA AdmitStep ==
  ASSUME IInv, NEW h \in Handlers, Admit(h) PROVE IInv'
<1>1. request[h] # None /\ request[h].pc = "admit"
  BY Zenon DEF Admit, At
<1>2. /\ "RateLimited" \in Reasons /\ "PlacementUnavailable" \in Reasons
      /\ "InvalidRequest" \in Reasons
  BY Zenon DEF Reasons
<1>3. ASSUME Goto(h, "policy"),
             UNCHANGED <<registry, cursors, remembered, trail, token, answer>>
      PROVE  IInv'
  <2> DEFINE q == request[h]
             r == [q EXCEPT !.pc = "policy"]
  <2>1. /\ q \in Local /\ Watched(q, clusters, snapshot)
        /\ Stage(q, trail[h], token[h], answer[h])
    BY <1>1, Zenon DEF IInv, Typed, Good
  <2>2. r \in Local
    BY <2>1, Zenon DEF Local, Steps
  <2>3. /\ r.pc = "policy" /\ r.req = q.req /\ r.cell = q.cell
        /\ r.shut = q.shut /\ r.silent = q.silent
    BY <2>1, Zenon DEF Local
  <2>4. request' = [request EXCEPT ![h] = r]
    BY <1>3, Zenon DEF Goto
  <2> HIDE DEF r
  <2>5. Watched(r, clusters, snapshot)
    BY <2>1, <2>3, Zenon DEF Watched
  <2>6. Stage(r, trail[h], token[h], answer[h])
    BY <1>1, <2>1, <2>3, Zenon DEF Stage
  <2> QED
    BY <1>3, <2>2, <2>4, <2>5, <2>6, QuietStep, Zenon
<1> QED
  BY <1>1, <1>2, <1>3, EarlyRefuse, Zenon DEF Admit

LEMMA ChoosePolicyStep ==
  ASSUME EngineChooses, IInv, NEW h \in Handlers, ChoosePolicy(h) PROVE IInv'
<1> DEFINE q == request[h]
           p == PolicyFor(q.req.id)
<1>1. q # None /\ q.pc = "policy"
  BY Zenon DEF ChoosePolicy, At
<1>2. p # None => p \in Policies /\ policies[p] \in PolicySpecs
  BY Zenon DEF IInv, Typed, PolicyFor, EngineChooses
<1>3. p # None => p \in Policies \cup {None}
  BY <1>2, Zenon
<1> HIDE DEF p
<1>4. ASSUME p # None,
             request' = [request EXCEPT ![h].pc = "filter", ![h].policy = p,
                                        ![h].spec = policies[p]],
             UNCHANGED <<registry, cursors, remembered, trail, token, answer>>
      PROVE  IInv'
  <2> DEFINE r == [q EXCEPT !.pc = "filter", !.policy = p, !.spec = policies[p]]
  <2>1. /\ q \in Local /\ Watched(q, clusters, snapshot)
        /\ Stage(q, trail[h], token[h], answer[h])
    BY <1>1, Zenon DEF IInv, Typed, Good
  <2>2. r \in Local
    BY <1>2, <1>4, <2>1, Zenon DEF Local, Steps
  <2>3. /\ r.pc = "filter" /\ r.req = q.req /\ r.cell = q.cell
        /\ r.shut = q.shut /\ r.silent = q.silent
        /\ r.policy = p /\ r.spec = policies[p]
    BY <2>1, Zenon DEF Local
  <2>4. request' = [request EXCEPT ![h] = r]
    BY <1>4, Zenon
  <2> HIDE DEF r
  <2>5. Watched(r, clusters, snapshot)
    BY <2>1, <2>3, Zenon DEF Watched
  <2>6. Stage(r, trail[h], token[h], answer[h])
    BY <1>1, <1>2, <1>4, <2>1, <2>3, Zenon DEF Stage
  <2> QED
    BY <1>4, <2>2, <2>4, <2>5, <2>6, QuietStep, Zenon
<1>5. ASSUME NEW err, NEW policy \in Policies \cup {None},
             PlaceFails(h, err, policy)
      PROVE  IInv'
  BY <1>1, <1>5, PlaceFailsStep, Zenon
<1> QED
  BY <1>3, <1>4, <1>5, Zenon DEF ChoosePolicy, p

\* What the filter has established about a cell it admits.
LEMMA AdmittedCells ==
  ASSUME Typed, NEW permits, NEW dark
  PROVE  LET S == Admitted(Filter(clusters, permits, dark, snapshot)) IN
         /\ S \in SUBSET Cells
         /\ \A c \in S :
              /\ c \notin Shut(dark, clusters) /\ c \notin Silent(snapshot)
              /\ snapshot[c].utilisation \in Nat \X (Nat \ {0})
<1> DEFINE F == Filter(clusters, permits, dark, snapshot)
           S == Admitted(F)
<1>1. \A c \in S :
        /\ c \in Cells /\ clusters[c] # None
        /\ StageOf(clusters[c], permits, dark, snapshot[c]) = "admitted"
  BY Zenon DEF Admitted, AtStage, Filter, Typed
<1> HIDE DEF S
<1>2. ASSUME NEW c \in S
      PROVE  /\ AcceptsPlacement(clusters[c].state, dark)
             /\ snapshot[c] # None /\ snapshot[c].health = "Fresh"
  BY <1>1, Zenon DEF StageOf
<1>3. S \in SUBSET Cells
  BY <1>1, Zenon
<1>4. ASSUME NEW c \in S
      PROVE  /\ c \notin Shut(dark, clusters) /\ c \notin Silent(snapshot)
             /\ snapshot[c].utilisation \in Nat \X (Nat \ {0})
  <2>1. c \notin Shut(dark, clusters)
    BY <1>1, <1>2, Zenon DEF Shut
  <2>2. c \notin Silent(snapshot)
    BY <1>2, Zenon DEF Silent
  <2>3. snapshot[c] \in Entries
    BY <1>1, <1>2, Zenon DEF Typed
  <2> QED
    BY <2>1, <2>2, <2>3, SpecsAssumption, Zenon
<1> QED
  BY <1>3, <1>4, Zenon DEF S

\* A decision for an admitted cell: audited, and answered if it was a dry run.
LEMMA DecidedStep ==
  ASSUME IInv, NEW h \in Handlers, request[h] # None,
         request[h].pc = "filter", NEW c \in Cells,
         c \notin Shut(request[h].req.dark, clusters), c \notin Silent(snapshot),
         Decided(h, c), cursors' = cursors \/ cursors' \in [Policies -> Nat]
  PROVE  IInv'
<1> DEFINE q == request[h]
           dry == q.req.dry
           outcome == IF dry THEN "dry-run" ELSE "granted"
           step == IF dry THEN "done" ELSE "mint"
           r == [q EXCEPT !.cell = c, !.pc = step]
<1>1. /\ Typed /\ q \in Local /\ Watched(q, clusters, snapshot)
      /\ Stage(q, trail[h], token[h], answer[h])
  BY Zenon DEF IInv, Typed, Good
<1>2. /\ q.policy \in Policies /\ q.spec \in PolicySpecs
      /\ trail[h] = <<>> /\ token[h] = None /\ answer[h] = None
  BY <1>1, Zenon DEF Stage
<1>3. r \in Local
  BY <1>1, Zenon DEF Local, Steps
<1>4. /\ r.pc = step /\ r.cell = c /\ r.req = q.req /\ r.policy = q.policy
      /\ r.spec = q.spec /\ r.shut = q.shut /\ r.silent = q.silent
  BY <1>1, Zenon DEF Local
<1>5. /\ Audited(h, "placement", outcome, Unset, c, q.policy)
      /\ request' = [request EXCEPT ![h] = r]
      /\ IF dry THEN Answered(h, Unset, c, 0) ELSE UNCHANGED answer
      /\ UNCHANGED <<registry, remembered, token>>
  BY Zenon DEF Decided
<1>6. /\ outcome \in {"granted", "dry-run", "refused"}
      /\ dry => outcome = "dry-run" /\ step = "done"
      /\ ~dry => outcome = "granted" /\ step = "mint"
  BY Zenon
<1> HIDE DEF r, outcome, step
<1>7. Wrote(h, "placement", outcome, Unset, c, q.policy)
  BY <1>1, <1>2, <1>5, <1>6, Audits, Zenon
<1>8. /\ Len(trail'[h]) = 1 /\ Says(trail'[h][1], "placement", outcome)
      /\ trail'[h][1].cell = c /\ trail'[h][1].policy = q.policy
      /\ trail'[h][1].noted = Notify("placement", outcome, c)
      /\ trail' \in [Handlers -> Seq(AuditRecord)]
      /\ \A i \in Handlers \ {h} : trail'[i] = trail[i]
  <2>1. Len(trail[h]) = 0
    BY <1>2
  <2> QED
    BY <1>7, <2>1 DEF Wrote
<1>9. /\ request' \in [Handlers -> Local \cup {None}]
      /\ request'[h] = r /\ r # None
      /\ \A i \in Handlers \ {h} : request'[i] = request[i]
  BY <1>1, <1>3, <1>5, NoneAssumption, Zenon DEF Typed
<1>10. /\ answer' \in [Handlers -> Answer \cup {None}]
       /\ \A i \in Handlers \ {h} : answer'[i] = answer[i]
       /\ dry => answer'[h] = [reason |-> Unset, cell |-> c, life |-> 0]
       /\ ~dry => answer'[h] = None
  <2>1. CASE dry
    BY <1>1, <1>5, <2>1, Answers
  <2>2. CASE ~dry
    BY <1>1, <1>2, <1>5, <2>2, Zenon DEF Typed
  <2> QED
    BY <2>1, <2>2, Zenon
<1>11. token' = token /\ token' \in [Handlers -> Token \cup {None}]
  BY <1>1, <1>5, Zenon DEF Typed
<1>12. Typed' /\ UNCHANGED <<clusters, snapshot>>
  BY <1>1, <1>5, <1>8, <1>9, <1>10, <1>11, Frame, Zenon
<1>13. Watched(r, clusters', snapshot')
  BY <1>1, <1>4, <1>12, Zenon DEF Watched
<1>14. Stage(r, trail'[h], token'[h], answer'[h])
  <2>1. CASE dry
    <3>1. trail'[h][1].noted = Unset
      BY <1>6, <1>8, <2>1, Zenon DEF Notify, EventReason
    <3>2. Told(r, trail'[h], answer'[h])
      BY <1>4, <1>6, <1>8, <1>10, <2>1, <3>1, Zenon DEF Told
    <3>3. answer'[h].life = 0 /\ (Ceiling > 0 => 0 <= Ceiling + 1)
      BY <1>10, <2>1, TTLAssumption
    <3>4. answer'[h].reason \notin Optimisation
      <4>1. Optimisation \subseteq Reasons
        BY Zenon DEF Optimisation, Reasons
      <4> QED
        BY <1>10, <2>1, <4>1, UnsetDiffers
    <3> QED
      BY <1>4, <1>6, <2>1, <3>2, <3>3, <3>4, Zenon DEF Stage
  <2>2. CASE ~dry
    BY <1>2, <1>4, <1>6, <1>8, <1>10, <1>11, <2>2, Zenon DEF Stage, Recorded
  <2> QED
    BY <2>1, <2>2, Zenon
<1>15. Good(h)'
  BY <1>9, <1>13, <1>14, Zenon DEF Good
<1> QED
  BY <1>8, <1>9, <1>10, <1>11, <1>12, <1>15, HandlerStep, Zenon

LEMMA PlaceStep ==
  ASSUME EngineChooses, IInv, NEW h \in Handlers, Place(h) PROVE IInv'
<1> DEFINE q == request[h]
           S == Admitted(Candidates(q))
           k == cursors[q.policy]
<1>1. /\ q # None /\ q.pc = "filter" /\ Typed
      /\ q.policy \in Policies /\ q.policy \in Policies \cup {None}
  BY Zenon DEF Place, At, IInv, Good, Stage
<1>2. /\ S \in SUBSET Cells
      /\ \A c \in S :
           /\ c \notin Shut(q.req.dark, clusters) /\ c \notin Silent(snapshot)
           /\ snapshot[c].utilisation \in Nat \X (Nat \ {0})
  BY <1>1, AdmittedCells, Zenon DEF Candidates
<1>3. k \in Nat
  BY <1>1, Zenon DEF Typed
<1> HIDE DEF S
<1>4. ASSUME NEW c \in S, Decided(h, c),
             cursors' = cursors \/ cursors' \in [Policies -> Nat]
      PROVE  IInv'
  BY <1>1, <1>2, <1>4, DecidedStep, Zenon
<1>5. ASSUME NEW err, PlaceFails(h, err, q.policy) PROVE IInv'
  BY <1>1, <1>5, PlaceFailsStep, Zenon
<1>6. ASSUME NEW c \in Kept(q, S), Decided(h, c), UNCHANGED cursors PROVE IInv'
  <2>1. c \in S
    BY <1>6, Zenon DEF Kept
  <2> QED
    BY <1>4, <1>6, <2>1, Zenon
<1>7. ASSUME S # {}, NEW strategy, Decided(h, Score(strategy, S, k, snapshot)),
             \/ cursors' = [cursors EXCEPT ![q.policy] = @ + 1]
             \/ cursors' = cursors
      PROVE  IInv'
  <2>1. Score(strategy, S, k, snapshot) \in S
    BY <1>2, <1>3, <1>7, Zenon DEF EngineChooses
  <2>2. cursors' = cursors \/ cursors' \in [Policies -> Nat]
    BY <1>1, <1>3, <1>7 DEF Typed
  <2> QED
    BY <1>4, <1>7, <2>1, <2>2, Zenon
<1> QED
  BY <1>5, <1>6, <1>7, Zenon DEF Place, S

\* The bound that ResolveTTL leaves is a duration within the ceiling.
LEMMA BoundWithinCeiling ==
  ASSUME NEW env, NEW policy \in [default : Nat, max : Nat], NEW requested
  PROVE  LET max == ResolveTTL(env, policy, requested, Ceiling, Floor).max IN
         max \in Nat /\ (Ceiling > 0 => max <= Ceiling)
<1> DEFINE o == Overridden(BoundsFor(env), policy)
<1>1. o.max \in Nat
  BY Zenon DEF Overridden, BoundsFor
<1>2. ResolveTTL(env, policy, requested, Ceiling, Floor).max
        = Ceiled(o, Ceiling).max
  BY Zenon DEF ResolveTTL
<1> HIDE DEF o
<1>3. /\ Ceiled(o, Ceiling).max \in Nat
      /\ Ceiling > 0 => Ceiled(o, Ceiling).max <= Ceiling
  BY <1>1, TTLAssumption DEF Ceiled, Least
<1> QED
  BY <1>2, <1>3, Zenon

\* refuse once the cell is decided on.
LEMMA LateRefuse ==
  ASSUME IInv, NEW h \in Handlers, request[h] # None,
         request[h].pc \in {"mint", "token", "issued"},
         NEW reason \in {"MintUnavailable", "MintFailed"},
         Refuse(h, "mint", reason)
  PROVE  IInv'
BY LateRefusal, Zenon DEF Refuse, IInv, Typed

LEMMA MintStep ==
  ASSUME IInv, NEW h \in Handlers, Mint(h) PROVE IInv'
<1> DEFINE q == request[h]
           max == ResolveTTL(ClusterByName(q.cell).env, q.spec.ttl, q.req.ttl,
                             Ceiling, Floor).max
<1>1. /\ q # None /\ q.pc = "mint" /\ q \in Local
      /\ Watched(q, clusters, snapshot)
      /\ Stage(q, trail[h], token[h], answer[h])
  BY Zenon DEF Mint, At, IInv, Typed, Good
<1>2. max \in Nat /\ (Ceiling > 0 => max <= Ceiling)
  <2>1. q.spec.ttl \in [default : Nat, max : Nat]
    BY <1>1, TTLAssumption, Zenon DEF Stage
  <2> QED
    BY <2>1, BoundWithinCeiling, Zenon
<1> HIDE DEF max
<1>3. ASSUME request' = [request EXCEPT ![h].pc = "token", ![h].max = max],
             UNCHANGED <<registry, cursors, remembered, trail, token, answer>>
      PROVE  IInv'
  <2> DEFINE r == [q EXCEPT !.pc = "token", !.max = max]
  <2>1. r \in Local
    BY <1>1, <1>2, Zenon DEF Local, Steps
  <2>2. /\ r.pc = "token" /\ r.max = max /\ r.req = q.req /\ r.cell = q.cell
        /\ r.policy = q.policy /\ r.spec = q.spec
        /\ r.shut = q.shut /\ r.silent = q.silent
    BY <1>1, Zenon DEF Local
  <2>3. request' = [request EXCEPT ![h] = r]
    BY <1>3, Zenon
  <2> HIDE DEF r
  <2>4. Watched(r, clusters, snapshot)
    BY <1>1, <2>2, Zenon DEF Watched
  <2>5. Stage(r, trail[h], token[h], answer[h])
    BY <1>1, <1>2, <2>2, Zenon DEF Stage, Recorded
  <2> QED
    BY <1>3, <2>1, <2>3, <2>4, <2>5, QuietStep, Zenon
<1> QED
  BY <1>1, <1>3, LateRefuse, Zenon DEF Mint, max

LEMMA SpokeIssuesStep ==
  ASSUME IInv, NEW h \in Handlers, NEW life \in Lifetimes, SpokeIssues(h, life)
  PROVE  IInv'
<1> DEFINE q == request[h]
           tok == [cell |-> q.cell, life |-> life, received |-> FALSE]
<1>1. /\ q # None /\ q.pc = "token" /\ Typed
      /\ Watched(q, clusters, snapshot)
      /\ Stage(q, trail[h], token[h], answer[h])
  BY Zenon DEF SpokeIssues, At, IInv, Good
<1>2. tok \in Token /\ q.cell \in Cells
  BY <1>1, Zenon DEF Stage, Token
<1>3. /\ token' = [token EXCEPT ![h] = tok] /\ Goto(h, "issued")
      /\ UNCHANGED <<registry, cursors, remembered, trail, answer>>
  BY Zenon DEF SpokeIssues
<1>4. tok # None /\ tok.cell = q.cell
  BY <1>2, NoneAssumption, Zenon
<1> HIDE DEF tok
<1>5. /\ token' \in [Handlers -> Token \cup {None}] /\ token'[h] = tok
      /\ \A i \in Handlers \ {h} : token'[i] = token[i]
  BY <1>1, <1>2, <1>3, Zenon DEF Typed
<1>6. /\ request' \in [Handlers -> Local \cup {None}]
      /\ request'[h] # None /\ request'[h].pc = "issued"
      /\ request'[h].req = q.req /\ request'[h].policy = q.policy
      /\ request'[h].spec = q.spec /\ request'[h].cell = q.cell
      /\ request'[h].max = q.max
      /\ request'[h].shut = q.shut /\ request'[h].silent = q.silent
      /\ \A i \in Handlers \ {h} : request'[i] = request[i]
  <2>1. "issued" \in Steps
    BY Zenon DEF Steps
  <2> QED
    BY <1>1, <1>3, <2>1, Moves, Zenon
<1>7. Typed' /\ UNCHANGED <<clusters, snapshot>>
  BY <1>1, <1>3, <1>5, <1>6, Frame, Zenon DEF Typed
<1>8. Watched(request'[h], clusters', snapshot')
  BY <1>1, <1>6, <1>7, Zenon DEF Watched
<1>9. Stage(request'[h], trail'[h], token'[h], answer'[h])
  BY <1>1, <1>3, <1>4, <1>5, <1>6, Zenon DEF Stage, Recorded
<1>10. Good(h)'
  BY <1>6, <1>8, <1>9, Zenon DEF Good
<1> QED
  BY <1>3, <1>5, <1>6, <1>7, <1>10, HandlerStep, Zenon

LEMMA TokenRequestFailsStep ==
  ASSUME IInv, NEW h \in Handlers, TokenRequestFails(h) PROVE IInv'
BY LateRefuse, Zenon DEF TokenRequestFails, At

\* The token a handler has received.
LEMMA ReceivedToken ==
  ASSUME IInv, NEW h \in Handlers, token[h] # None, Received(h)
  PROVE  /\ token' \in [Handlers -> Token \cup {None}]
         /\ token'[h] # None /\ token'[h].life = token[h].life
         /\ token'[h].cell = token[h].cell
         /\ token[h].life \in Nat /\ token[h].life > 0
         /\ \A i \in Handlers \ {h} : token'[i] = token[i]
<1> DEFINE tok == [token[h] EXCEPT !.received = TRUE]
<1>1. token[h] \in Token
  BY Zenon DEF IInv, Typed
<1>2. /\ tok \in Token /\ tok.life = token[h].life /\ tok.cell = token[h].cell
      /\ token[h].life \in Lifetimes
  BY <1>1, Zenon DEF Token
<1>3. token' = [token EXCEPT ![h] = tok]
  BY Zenon DEF Received
<1>4. tok # None
  BY <1>2, NoneAssumption, Zenon
<1> HIDE DEF tok
<1>5. /\ token' \in [Handlers -> Token \cup {None}] /\ token'[h] = tok
      /\ \A i \in Handlers \ {h} : token'[i] = token[i]
  BY <1>2, <1>3, Zenon DEF IInv, Typed
<1>6. token[h].life \in Nat \ {0}
  BY <1>2, TTLAssumption, Zenon
<1>7. token[h].life \in Nat /\ token[h].life > 0
  BY <1>6
<1> QED
  BY <1>2, <1>4, <1>5, <1>7, Zenon

LEMMA TakeStep ==
  ASSUME IInv, NEW h \in Handlers, Take(h) PROVE IInv'
<1> DEFINE q == request[h]
<1>1. /\ q # None /\ q.pc = "issued" /\ Typed
      /\ Watched(q, clusters, snapshot)
      /\ Stage(q, trail[h], token[h], answer[h])
  BY Zenon DEF Take, At, IInv, Good
<1>2. /\ q.cell \in Cells /\ q.policy \in Policies /\ q.spec \in PolicySpecs
      /\ ~q.req.dry /\ Recorded(q, trail[h]) /\ Len(trail[h]) = 1
      /\ Ceiling > 0 => q.max <= Ceiling
      /\ answer[h] = None /\ token[h] # None /\ token[h].cell = q.cell
  BY <1>1, Zenon DEF Stage
<1>3. Received(h)
  BY Zenon DEF Take
<1>4. /\ token' \in [Handlers -> Token \cup {None}]
      /\ token'[h] # None /\ token'[h].life = token[h].life
      /\ token'[h].cell = token[h].cell
      /\ \A i \in Handlers \ {h} : token'[i] = token[i]
  BY <1>2, <1>3, ReceivedToken, Zenon
<1>5. CASE RefuseKnowing(h, "mint", "MintFailed", q.policy)
  BY <1>1, <1>4, <1>5, LateRefusal, Zenon
<1>6. ASSUME token[h].life <= q.max + 1,
             Audited(h, "mint", "granted", Unset, q.cell, q.policy),
             Goto(h, "remember"),
             UNCHANGED <<registry, cursors, remembered, answer>>
      PROVE  IInv'
  <2>1. Wrote(h, "mint", "granted", Unset, q.cell, q.policy)
    BY <1>1, <1>2, <1>6, Audits, Zenon
  <2>2. /\ trail' \in [Handlers -> Seq(AuditRecord)]
        /\ \A i \in Handlers \ {h} : trail'[i] = trail[i]
        /\ Len(trail'[h]) = 2 /\ Recorded(q, trail'[h])
        /\ Says(trail'[h][2], "mint", "granted")
        /\ trail'[h][2].cell = q.cell /\ trail'[h][2].policy = q.policy
        /\ trail'[h][2].noted = Notify("mint", "granted", q.cell)
    BY <1>2, <2>1 DEF Wrote, Recorded
  <2>3. Notify("mint", "granted", q.cell) \in {Unset, "CredentialIssued"}
    BY Zenon DEF Notify, EventReason
  <2>4. /\ request' \in [Handlers -> Local \cup {None}]
        /\ request'[h] # None /\ request'[h].pc = "remember"
        /\ request'[h].req = q.req /\ request'[h].policy = q.policy
        /\ request'[h].spec = q.spec /\ request'[h].cell = q.cell
        /\ request'[h].max = q.max
        /\ request'[h].shut = q.shut /\ request'[h].silent = q.silent
        /\ \A i \in Handlers \ {h} : request'[i] = request[i]
    <3>1. "remember" \in Steps
      BY Zenon DEF Steps
    <3> QED
      BY <1>1, <1>6, <3>1, Moves, Zenon
  <2>5. Typed' /\ UNCHANGED <<clusters, snapshot>>
    BY <1>1, <1>4, <1>6, <2>2, <2>4, Frame, Zenon DEF Typed
  <2>6. Watched(request'[h], clusters', snapshot')
    BY <1>1, <2>4, <2>5, Zenon DEF Watched
  <2>7. answer'[h] = None
    BY <1>2, <1>6, Zenon
  <2>8. Stage(request'[h], trail'[h], token'[h], answer'[h])
    BY <1>2, <1>4, <1>6, <2>2, <2>3, <2>4, <2>7, Zenon DEF Stage, Recorded
  <2>9. Good(h)'
    BY <2>4, <2>6, <2>8, Zenon DEF Good
  <2> QED
    BY <1>4, <1>6, <2>2, <2>4, <2>5, <2>9, HandlerStep, Zenon
<1> QED
  BY <1>5, <1>6, Zenon DEF Take

LEMMA RespondStep ==
  ASSUME IInv, NEW h \in Handlers, Respond(h) PROVE IInv'
<1> DEFINE q == request[h]
           life == token[h].life
<1>1. /\ q # None /\ q.pc = "remember" /\ Typed /\ q \in Local
      /\ Watched(q, clusters, snapshot)
      /\ Stage(q, trail[h], token[h], answer[h])
  BY Zenon DEF Respond, At, IInv, Typed, Good
<1>2. /\ q.cell \in Cells /\ ~q.req.dry /\ Recorded(q, trail[h])
      /\ Ceiling > 0 => q.max <= Ceiling
      /\ token[h] # None /\ life <= q.max + 1
      /\ Len(trail[h]) = 2 /\ Says(trail[h][2], "mint", "granted")
      /\ trail[h][2].cell = q.cell /\ trail[h][2].policy = q.policy
      /\ trail[h][2].noted \in {Unset, "CredentialIssued"}
  BY <1>1, Zenon DEF Stage
<1>3. life \in Nat /\ life > 0 /\ q.max \in Nat
  <2>1. life \in Lifetimes
    BY <1>1, <1>2, Zenon DEF Typed, Token
  <2>2. life \in Nat \ {0}
    BY <2>1, TTLAssumption, Zenon
  <2>3. q.max \in Nat
    BY <1>1, Zenon DEF Local
  <2> HIDE DEF life
  <2> QED
    BY <2>2, <2>3
<1>4. /\ Answered(h, Unset, q.cell, life) /\ Goto(h, "done")
      /\ UNCHANGED <<registry, cursors, trail, token>>
  BY Zenon DEF Respond
<1>5. Ceiling > 0 => life <= Ceiling + 1
  <2> HIDE DEF life
  <2> QED
    BY <1>2, <1>3, TTLAssumption
<1>6. /\ answer' \in [Handlers -> Answer \cup {None}]
      /\ answer'[h] = [reason |-> Unset, cell |-> q.cell, life |-> life]
      /\ \A i \in Handlers \ {h} : answer'[i] = answer[i]
  <2> HIDE DEF life
  <2> QED
    BY <1>1, <1>2, <1>3, <1>4, Answers, Zenon
<1>7. /\ request' \in [Handlers -> Local \cup {None}]
      /\ request'[h] # None /\ request'[h].pc = "done"
      /\ request'[h].req = q.req /\ request'[h].cell = q.cell
      /\ request'[h].shut = q.shut /\ request'[h].silent = q.silent
      /\ \A i \in Handlers \ {h} : request'[i] = request[i]
  <2>1. "done" \in Steps
    BY Zenon DEF Steps
  <2> QED
    BY <1>1, <1>4, <2>1, Moves, Zenon
<1> HIDE DEF life
<1>8. Typed' /\ UNCHANGED <<clusters, snapshot>>
  BY <1>1, <1>4, <1>6, <1>7, Frame, Zenon DEF Typed
<1>9. Watched(request'[h], clusters', snapshot')
  BY <1>1, <1>7, <1>8, Zenon DEF Watched
<1>10. Told(request'[h], trail'[h], answer'[h])
  BY <1>2, <1>3, <1>4, <1>6, <1>7 DEF Told, Recorded, Says
<1>11. Stage(request'[h], trail'[h], token'[h], answer'[h])
  <2>1. Optimisation \subseteq Reasons
    BY Zenon DEF Optimisation, Reasons
  <2>2. answer'[h].reason \notin Optimisation /\ answer'[h].life = life
    BY <1>6, <2>1, UnsetDiffers
  <2> QED
    BY <1>5, <1>7, <1>10, <2>2, Zenon DEF Stage
<1>12. Good(h)'
  BY <1>7, <1>9, <1>11, Zenon DEF Good
<1> QED
  BY <1>4, <1>6, <1>7, <1>8, <1>12, HandlerStep, Zenon

-----------------------------------------------------------------------------
(***************************************************************************)
(* The replica around the handlers.                                        *)
(***************************************************************************)
\* The caches become cl and sn, and every request under way has noticed.
LEMMA NoticedStep ==
  ASSUME IInv, NEW cl, NEW sn, request' = Noticed(cl, sn),
         clusters' = cl, snapshot' = sn,
         cl \in [Cells -> ClusterSpecs \cup {None}],
         sn \in [Cells -> Entries \cup {None}],
         UNCHANGED <<policies, cursors, trail, token, answer>>
  PROVE  IInv'
<1>1. ASSUME NEW h \in Handlers, request[h] # None
      PROVE  LET q == request[h] r == request'[h] IN
             /\ r \in Local /\ r.pc = q.pc /\ r.req = q.req
             /\ r.policy = q.policy /\ r.spec = q.spec /\ r.cell = q.cell
             /\ r.max = q.max
             /\ r.shut = q.shut \cap Shut(q.req.dark, cl)
             /\ r.silent = q.silent \cap Silent(sn)
  <2> DEFINE q == request[h]
             s == q.shut \cap Shut(q.req.dark, cl)
             n == q.silent \cap Silent(sn)
             r == [q EXCEPT !.shut = s, !.silent = n]
  <2>1. q \in Local
    BY <1>1, Zenon DEF IInv, Typed
  <2>2. s \in SUBSET Cells /\ n \in SUBSET Cells
    BY <2>1, Zenon DEF Local
  <2>3. request'[h] = r
    BY <1>1, Zenon DEF Noticed
  <2> HIDE DEF s, n
  <2>4. /\ r \in Local /\ r.pc = q.pc /\ r.req = q.req
        /\ r.policy = q.policy /\ r.spec = q.spec /\ r.cell = q.cell
        /\ r.max = q.max /\ r.shut = s /\ r.silent = n
    BY <2>1, <2>2, Zenon DEF Local
  <2> QED
    BY <2>3, <2>4, Zenon DEF s, n
<1>2. ASSUME NEW h \in Handlers, request[h] = None PROVE request'[h] = None
  BY <1>2, Zenon DEF Noticed
<1>3. Typed'
  <2>1. request' \in [Handlers -> Local \cup {None}]
    BY <1>1, <1>2, Zenon DEF Noticed
  <2> QED
    BY <2>1, Zenon DEF IInv, Typed
<1>4. ASSUME NEW h \in Handlers PROVE Good(h)'
  <2>1. CASE request[h] = None
    BY <1>2, <2>1, Zenon DEF IInv, Good
  <2>2. CASE request[h] # None
    <3>1. request'[h] # None
      BY <1>1, <2>2, NoneAssumption, Zenon
    <3>2. Watched(request'[h], cl, sn)
      BY <1>1, <2>2 DEF IInv, Good, Watched
    <3>3. Stage(request'[h], trail[h], token[h], answer[h])
      <4>1. Stage(request[h], trail[h], token[h], answer[h])
        BY <2>2, Zenon DEF IInv, Good
      <4>2. /\ request'[h].pc = request[h].pc /\ request'[h].req = request[h].req
            /\ request'[h].policy = request[h].policy
            /\ request'[h].spec = request[h].spec
            /\ request'[h].cell = request[h].cell
            /\ request'[h].max = request[h].max
        BY <1>1, <2>2, Zenon
      <4>3. /\ Recorded(request[h], trail[h]) <=> Recorded(request'[h], trail[h])
            /\ Told(request[h], trail[h], answer[h])
                 <=> Told(request'[h], trail[h], answer[h])
        BY <4>2, Zenon DEF Recorded, Told
      <4> QED
        BY <4>1, <4>2, <4>3, Zenon DEF Stage
    <3> QED
      BY <3>1, <3>2, <3>3, Zenon DEF Good
  <2> QED
    BY <2>1, <2>2, Zenon
<1> QED
  BY <1>3, <1>4, Zenon DEF IInv

LEMMA ClusterEventStep ==
  ASSUME IInv, NEW c \in Cells, NEW spec \in ClusterSpecs \cup {None},
         ClusterEvent(c, spec)
  PROVE  IInv'
<1>1. clusters' \in [Cells -> ClusterSpecs \cup {None}]
  BY Zenon DEF ClusterEvent, IInv, Typed
<1>2. snapshot \in [Cells -> Entries \cup {None}]
  BY Zenon DEF IInv, Typed
<1>3. request' = Noticed(clusters', snapshot) /\ snapshot' = snapshot
      /\ UNCHANGED <<policies, cursors, trail, token, answer>>
  BY Zenon DEF ClusterEvent, Edit
<1> QED
  BY <1>1, <1>2, <1>3, NoticedStep, Zenon

LEMMA CapacityEventStep ==
  ASSUME IInv, NEW c \in Cells, NEW entry \in Entries \cup {None},
         CapacityEvent(c, entry)
  PROVE  IInv'
<1>1. snapshot' \in [Cells -> Entries \cup {None}]
  BY Zenon DEF CapacityEvent, IInv, Typed
<1>2. clusters \in [Cells -> ClusterSpecs \cup {None}]
  BY Zenon DEF IInv, Typed
<1>3. request' = Noticed(clusters, snapshot') /\ clusters' = clusters
      /\ UNCHANGED <<policies, cursors, trail, token, answer>>
  BY Zenon DEF CapacityEvent, Edit
<1> QED
  BY <1>1, <1>2, <1>3, NoticedStep, Zenon

\* A step that touches no request and no cache a request is judged by.
LEMMA IdleStep ==
  ASSUME IInv, policies' \in [Policies -> PolicySpecs \cup {None}],
         UNCHANGED <<clusters, snapshot, cursors, request, trail, token, answer>>
  PROVE  IInv'
BY Zenon DEF IInv, Typed, Good

LEMMA CrashStep ==
  ASSUME IInv, Crash PROVE IInv'
<1>1. ASSUME NEW h \in Handlers, request[h] # None
      PROVE  /\ request'[h] \in Local /\ request'[h] # None
             /\ request'[h].cell = request[h].cell
             /\ request'[h].shut = request[h].shut
             /\ request'[h].silent = request[h].silent
             /\ request'[h].req = request[h].req
             /\ \/ request'[h].pc = "lost" /\ request[h].pc # "done"
                \/ request'[h] = request[h] /\ request[h].pc = "done"
  <2> DEFINE q == request[h]
             r == [q EXCEPT !.pc = "lost"]
  <2>1. q \in Local
    BY <1>1, Zenon DEF IInv, Typed
  <2>2. /\ r \in Local /\ r.pc = "lost" /\ r.cell = q.cell /\ r.req = q.req
        /\ r.shut = q.shut /\ r.silent = q.silent
    BY <2>1, Zenon DEF Local, Steps
  <2>3. request'[h] = IF q.pc # "done" THEN r ELSE q
    BY <1>1, Zenon DEF Crash
  <2> HIDE DEF r
  <2> QED
    BY <1>1, <2>1, <2>2, <2>3, NoneAssumption, Zenon
<1>2. ASSUME NEW h \in Handlers, request[h] = None PROVE request'[h] = None
  BY <1>2, Zenon DEF Crash
<1>3. Typed'
  <2>1. request' \in [Handlers -> Local \cup {None}]
    BY <1>1, <1>2, Zenon DEF Crash
  <2> QED
    BY <2>1, Zenon DEF Crash, IInv, Typed
<1>4. Silent(snapshot') = Cells
  BY Zenon DEF Crash, Silent
<1>5. ASSUME NEW h \in Handlers PROVE Good(h)'
  <2>1. CASE request[h] = None
    BY <1>2, <2>1, Zenon DEF Crash, IInv, Good
  <2>2. CASE request[h] # None
    <3>1. /\ Watched(request[h], clusters, snapshot)
          /\ Stage(request[h], trail[h], token[h], answer[h])
          /\ request[h].silent \subseteq Cells
      BY <2>2, Zenon DEF IInv, Good, Typed, Local
    <3>2. Watched(request'[h], clusters', snapshot')
      BY <1>1, <1>4, <2>2, <3>1, Zenon DEF Watched, Crash
    <3>3. Stage(request'[h], trail[h], token[h], answer[h])
      <4>1. CASE request'[h] = request[h]
        BY <3>1, <4>1, Zenon
      <4>2. CASE request'[h].pc = "lost" /\ request[h].pc # "done"
        <5>1. answer[h] = None
          BY <3>1, <4>2, Zenon DEF Stage
        <5> QED
          BY <4>2, <5>1, Zenon DEF Stage
      <4> QED
        BY <1>1, <2>2, <4>1, <4>2, Zenon
    <3> QED
      BY <1>1, <2>2, <3>2, <3>3, Zenon DEF Good, Crash
  <2> QED
    BY <2>1, <2>2, Zenon
<1> QED
  BY <1>3, <1>5, Zenon DEF IInv

LEMMA InitIInv == Init => IInv
<1> SUFFICES ASSUME Init PROVE IInv
  BY Zenon
<1>1. Typed
  <2>1. <<>> \in Seq(AuditRecord)
    OBVIOUS
  <2> QED
    BY <2>1, InitAssumption, Zenon DEF Init, Typed
<1> QED
  BY <1>1, Zenon DEF Init, IInv, Good

LEMMA NextIInv ==
  ASSUME EngineChooses PROVE IInv /\ [Next]_vars => IInv'
<1> SUFFICES ASSUME IInv, [Next]_vars PROVE IInv'
  BY Zenon
<1>1. policies \in [Policies -> PolicySpecs \cup {None}]
  BY Zenon DEF IInv, Typed
<1>2. ASSUME NEW p \in Policies, NEW spec \in PolicySpecs \cup {None},
             PolicyEvent(p, spec)
      PROVE  IInv'
  BY <1>1, <1>2, IdleStep, Zenon DEF PolicyEvent, Edit
<1>3. CASE Warm
  BY <1>1, <1>3, IdleStep, Zenon DEF Warm
<1>4. CASE UNCHANGED vars
  BY <1>1, <1>4, IdleStep, Zenon DEF vars, registry
<1>5. ASSUME NEW h \in Handlers, Handle(h) PROVE IInv'
  BY <1>5, AdmitStep, ChoosePolicyStep, PlaceStep, MintStep,
     TokenRequestFailsStep, TakeStep, RespondStep, Zenon DEF Handle
<1> QED
  BY <1>2, <1>3, <1>4, <1>5, ArriveStep, SpokeIssuesStep, ClusterEventStep,
     CapacityEventStep, CrashStep, Zenon DEF Next, Terminated

-----------------------------------------------------------------------------
(***************************************************************************)
(* The handlers implement Placement.                                       *)
(***************************************************************************)
\* A step of one handler, as Placement sees it.
LEMMA ViewOfOne ==
  ASSUME NEW h \in Handlers, \A i \in Handlers \ {h} : request'[i] = request[i]
  PROVE  /\ Chosen' = [Chosen EXCEPT ![h] = Chose(request'[h])]
         /\ Gone' = [Gone EXCEPT ![h] = Died(request'[h])]
BY Zenon DEF Chosen, Gone

\* A step that leaves the cell and the fate of every request alone.
LEMMA ViewKept ==
  ASSUME \A i \in Handlers : /\ Chose(request'[i]) = Chose(request[i])
                             /\ Died(request'[i]) = Died(request[i])
  PROVE  Chosen' = Chosen /\ Gone' = Gone
BY Zenon DEF Chosen, Gone

\* Tokens are seen by their cell and lifetime.
LEMMA TokensKept ==
  ASSUME \A i \in Handlers : Got(token'[i]) = Got(token[i])
  PROVE  Issued' = Issued
BY Zenon DEF Issued

\* A handler at work has not answered.
LEMMA AtWork ==
  ASSUME IInv, NEW h \in Handlers, request[h] # None,
         request[h].pc \notin {"done", "lost"}
  PROVE  /\ Abstract!Pending(h) /\ Chosen[h] = request[h].cell
         /\ request[h] \in Local /\ Typed
         /\ Stage(request[h], trail[h], token[h], answer[h])
<1>1. /\ Typed /\ request[h] \in Local
      /\ Stage(request[h], trail[h], token[h], answer[h])
  BY Zenon DEF IInv, Typed, Good
<1>2. answer[h] = None
  BY <1>1, Zenon DEF Stage
<1>3. Gone[h] = FALSE /\ Chosen[h] = request[h].cell
  BY Zenon DEF Gone, Died, Chosen, Chose
<1> QED
  BY <1>1, <1>2, <1>3, Zenon DEF Abstract!Pending

\* A handler that moves on.
LEMMA MoveView ==
  ASSUME IInv, NEW h \in Handlers, request[h] # None, request[h].pc # "lost",
         NEW step \in Steps, step # "lost", Goto(h, step)
  PROVE  Chosen' = Chosen /\ Gone' = Gone
<1>1. Typed
  BY Zenon DEF IInv
<1>2. /\ request'[h] # None /\ request'[h].pc = step
      /\ request'[h].cell = request[h].cell
      /\ \A i \in Handlers \ {h} : request'[i] = request[i]
  BY <1>1, Moves, Zenon
<1>3. ASSUME NEW i \in Handlers
      PROVE  /\ Chose(request'[i]) = Chose(request[i])
             /\ Died(request'[i]) = Died(request[i])
  <2>1. CASE i = h
    BY <1>2, <2>1, Zenon DEF Chose, Died
  <2>2. CASE i # h
    BY <1>2, <2>2, Zenon
  <2> QED
    BY <2>1, <2>2, Zenon
<1> QED
  BY <1>3, ViewKept, Zenon

Stutter == UNCHANGED <<Chosen, Issued, answer, Gone>>

\* A step that only moves the handler on, to whatever local state.
LEMMA QuietView ==
  ASSUME IInv, NEW h \in Handlers, request[h] # None, request[h].pc # "lost",
         NEW r \in Local, request' = [request EXCEPT ![h] = r],
         r.cell = request[h].cell, r.pc # "lost", UNCHANGED <<token, answer>>
  PROVE  Stutter
<1>1. /\ request'[h] = r /\ r # None
      /\ \A i \in Handlers \ {h} : request'[i] = request[i]
  BY NoneAssumption, Zenon DEF IInv, Typed
<1>2. ASSUME NEW i \in Handlers
      PROVE  /\ Chose(request'[i]) = Chose(request[i])
             /\ Died(request'[i]) = Died(request[i])
  <2>1. CASE i = h
    BY <1>1, <2>1, Zenon DEF Chose, Died
  <2>2. CASE i # h
    BY <1>1, <2>2, Zenon
  <2> QED
    BY <2>1, <2>2, Zenon
<1>3. Issued' = Issued
  BY Zenon DEF Issued
<1> QED
  BY <1>2, <1>3, ViewKept, Zenon DEF Stutter

LEMMA ArriveView ==
  ASSUME IInv, NEW h \in Handlers, NEW r \in Requests, Arrive(h, r)
  PROVE  Stutter
<1> DEFINE q == [pc |-> "admit", req |-> r, policy |-> None, spec |-> None,
                 cell |-> None, max |-> 0, shut |-> Shut(r.dark, clusters),
                 silent |-> Silent(snapshot)]
<1>1. /\ request[h] = None /\ request' = [request EXCEPT ![h] = q]
      /\ token' = token /\ answer' = answer
  BY Zenon DEF Arrive
<1>2. q.cell = None /\ q.pc = "admit"
  BY Zenon
<1> HIDE DEF q
<1>3. ASSUME NEW i \in Handlers
      PROVE  /\ Chose(request'[i]) = Chose(request[i])
             /\ Died(request'[i]) = Died(request[i])
  <2>1. CASE i = h
    <3>1. request'[i] = q
      BY <1>1, <2>1, Zenon DEF IInv, Typed
    <3> QED
      BY <1>1, <1>2, <2>1, <3>1, Zenon DEF Chose, Died
  <2>2. CASE i # h
    BY <1>1, <2>2, Zenon DEF IInv, Typed
  <2> QED
    BY <2>1, <2>2, Zenon
<1>4. Issued' = Issued
  BY <1>1, Zenon DEF Issued
<1> QED
  BY <1>1, <1>3, <1>4, ViewKept, Zenon DEF Stutter

\* The hub and Placement speak of the same reasons.
LEMMA SameReasons ==
  Abstract!Reasons = Reasons /\ Abstract!Optimisation = Optimisation
BY Zenon DEF Abstract!Reasons, Reasons, Abstract!Optimisation, Optimisation

\* A refusal before the decision is Placement's Refuse.
LEMMA EarlyView ==
  ASSUME IInv, NEW h \in Handlers, request[h] # None,
         request[h].pc \in {"admit", "policy", "filter"}, NEW event,
         NEW reason \in Reasons, NEW policy,
         RefuseKnowing(h, event, reason, policy), UNCHANGED token
  PROVE  Abstract!Next
<1>1. /\ Abstract!Pending(h) /\ Chosen[h] = request[h].cell
      /\ Stage(request[h], trail[h], token[h], answer[h])
  BY AtWork, Zenon
<1>2. Chosen[h] = None
  BY <1>1, Zenon DEF Stage
<1>3. /\ Answered(h, reason, None, 0) /\ Goto(h, "done")
  BY Zenon DEF RefuseKnowing
<1>4. Chosen' = Chosen /\ Gone' = Gone
  <2>1. "done" \in Steps /\ request[h].pc # "lost"
    BY Zenon DEF Steps
  <2> QED
    BY <1>3, <2>1, MoveView, Zenon
<1>5. Issued' = Issued
  BY Zenon DEF Issued
<1>6. Abstract!Refuse(h, reason)
  BY <1>1, <1>2, <1>3, <1>4, <1>5, Zenon
     DEF Abstract!Refuse, Abstract!Answered, Answered
<1> QED
  BY <1>6, SameReasons, Zenon DEF Abstract!Next

\* A refusal of the mint is Placement's Fail.
LEMMA LateView ==
  ASSUME IInv, NEW h \in Handlers, request[h] # None,
         request[h].pc \in {"mint", "token", "issued"},
         NEW reason \in {"MintUnavailable", "MintFailed"}, NEW event, NEW policy,
         RefuseKnowing(h, event, reason, policy), Issued' = Issued
  PROVE  Abstract!Next
<1>1. /\ Abstract!Pending(h) /\ Chosen[h] = request[h].cell
      /\ Stage(request[h], trail[h], token[h], answer[h])
  BY AtWork, Zenon
<1>2. Chosen[h] # None
  <2>1. request[h].cell \in Cells
    BY <1>1, Zenon DEF Stage
  <2> QED
    BY <1>1, <2>1, NoneAssumption, Zenon
<1>3. /\ Answered(h, reason, None, 0) /\ Goto(h, "done")
  BY Zenon DEF RefuseKnowing
<1>4. Chosen' = Chosen /\ Gone' = Gone
  <2>1. "done" \in Steps /\ request[h].pc # "lost"
    BY Zenon DEF Steps
  <2> QED
    BY <1>3, <2>1, MoveView, Zenon
<1>5. reason \in Reasons /\ reason \notin Optimisation
  BY Zenon DEF Reasons, Optimisation
<1>6. Abstract!Fail(h, reason)
  BY <1>1, <1>2, <1>3, <1>4, <1>5, SameReasons, Zenon
     DEF Abstract!Fail, Abstract!Answered, Answered
<1> QED
  BY <1>5, <1>6, SameReasons, Zenon DEF Abstract!Next

LEMMA PlaceFailsView ==
  ASSUME IInv, NEW h \in Handlers, request[h] # None,
         request[h].pc \in {"admit", "policy", "filter"}, NEW err, NEW policy,
         PlaceFails(h, err, policy)
  PROVE  Abstract!Next
<1>1. PlacementRefusal(err) \in Reasons
  BY Zenon DEF PlacementRefusal, EngineErrors, Reasons
<1> QED
  BY <1>1, EarlyView, Zenon DEF PlaceFails

LEMMA AdmitView ==
  ASSUME IInv, NEW h \in Handlers, Admit(h)
  PROVE  Abstract!Next \/ Stutter
<1>1. request[h] # None /\ request[h].pc = "admit"
  BY Zenon DEF Admit, At
<1>2. /\ "RateLimited" \in Reasons /\ "PlacementUnavailable" \in Reasons
      /\ "InvalidRequest" \in Reasons
  BY Zenon DEF Reasons
<1>3. ASSUME NEW reason \in Reasons, Refuse(h, "placement", reason)
      PROVE  Abstract!Next
  BY <1>1, <1>3, EarlyView, Zenon DEF Refuse
<1>4. ASSUME Goto(h, "policy"), UNCHANGED <<token, answer>> PROVE Stutter
  <2>1. "policy" \in Steps
    BY Zenon DEF Steps
  <2>2. Chosen' = Chosen /\ Gone' = Gone
    BY <1>1, <1>4, <2>1, MoveView, Zenon
  <2>3. Issued' = Issued
    BY <1>4, Zenon DEF Issued
  <2> QED
    BY <1>4, <2>2, <2>3, Zenon DEF Stutter
<1> QED
  BY <1>2, <1>3, <1>4, Zenon DEF Admit

LEMMA ChoosePolicyView ==
  ASSUME EngineChooses, IInv, NEW h \in Handlers, ChoosePolicy(h)
  PROVE  Abstract!Next \/ Stutter
<1> DEFINE q == request[h]
           p == PolicyFor(q.req.id)
<1>1. q # None /\ q.pc = "policy" /\ q \in Local
  BY Zenon DEF ChoosePolicy, At, IInv, Typed
<1>2. ASSUME NEW err, NEW policy, PlaceFails(h, err, policy)
      PROVE  Abstract!Next
  BY <1>1, <1>2, PlaceFailsView, Zenon
<1> HIDE DEF p
<1>3. ASSUME p # None,
             request' = [request EXCEPT ![h].pc = "filter", ![h].policy = p,
                                        ![h].spec = policies[p]],
             UNCHANGED <<token, answer>>
      PROVE  Stutter
  <2> DEFINE r == [q EXCEPT !.pc = "filter", !.policy = p, !.spec = policies[p]]
  <2>1. p \in Policies /\ policies[p] \in PolicySpecs
    BY <1>3, Zenon DEF IInv, Typed, PolicyFor, EngineChooses, p
  <2>2. r \in Local
    BY <1>1, <2>1, Zenon DEF Local, Steps
  <2>3. r.pc = "filter" /\ r.cell = q.cell
    BY <1>1, Zenon DEF Local
  <2>4. request' = [request EXCEPT ![h] = r]
    BY <1>3, Zenon
  <2> HIDE DEF r
  <2> QED
    BY <1>1, <1>3, <2>2, <2>3, <2>4, QuietView, Zenon
<1> QED
  BY <1>2, <1>3, Zenon DEF ChoosePolicy, p

\* A decision is Placement's Decide, and Preview for a dry run.
LEMMA DecidedView ==
  ASSUME IInv, NEW h \in Handlers, request[h] # None,
         request[h].pc = "filter", NEW c \in Cells, Decided(h, c)
  PROVE  Abstract!Next
<1> DEFINE q == request[h]
           step == IF q.req.dry THEN "done" ELSE "mint"
           r == [q EXCEPT !.cell = c, !.pc = step]
<1>1. /\ Abstract!Pending(h) /\ Chosen[h] = q.cell /\ q \in Local
      /\ Stage(q, trail[h], token[h], answer[h])
  BY AtWork, Zenon
<1>2. Chosen[h] = None
  BY <1>1, Zenon DEF Stage
<1>3. r \in Local /\ r.cell = c /\ r.pc = step /\ step # "lost"
  BY <1>1, Zenon DEF Local, Steps
<1>4. /\ request' = [request EXCEPT ![h] = r]
      /\ IF q.req.dry THEN Answered(h, Unset, c, 0) ELSE UNCHANGED answer
      /\ token' = token
  BY Zenon DEF Decided
<1> HIDE DEF r, step
<1>5. /\ request'[h] = r /\ r # None
      /\ \A i \in Handlers \ {h} : request'[i] = request[i]
  BY <1>3, <1>4, NoneAssumption, Zenon DEF IInv, Typed
<1>6. Chosen' = [Chosen EXCEPT ![h] = c]
  <2>1. Chose(request'[h]) = c
    BY <1>3, <1>5, Zenon DEF Chose
  <2> QED
    BY <1>5, <2>1, ViewOfOne, Zenon
<1>7. Gone' = Gone
  <2>1. \A i \in Handlers : Died(request'[i]) = Died(request[i])
    <3>1. Died(request'[h]) = FALSE /\ Died(request[h]) = FALSE
      BY <1>3, <1>5, Zenon DEF Died
    <3> QED
      BY <1>5, <3>1, Zenon
  <2> QED
    BY <2>1, Zenon DEF Gone
<1>8. Issued' = Issued
  BY <1>4, Zenon DEF Issued
<1>9. CASE q.req.dry
  <2>1. Abstract!Preview(h, c)
    BY <1>1, <1>2, <1>4, <1>6, <1>7, <1>8, <1>9, Zenon
       DEF Abstract!Preview, Abstract!Answered, Answered
  <2> QED
    BY <2>1, Zenon DEF Abstract!Next
<1>10. CASE ~q.req.dry
  <2>1. Abstract!Decide(h, c)
    BY <1>1, <1>2, <1>4, <1>6, <1>7, <1>8, <1>10, Zenon DEF Abstract!Decide
  <2> QED
    BY <2>1, Zenon DEF Abstract!Next
<1> QED
  BY <1>9, <1>10, Zenon

LEMMA PlaceView ==
  ASSUME EngineChooses, IInv, NEW h \in Handlers, Place(h)
  PROVE  Abstract!Next
<1> DEFINE q == request[h]
           S == Admitted(Candidates(q))
           k == cursors[q.policy]
<1>1. /\ q # None /\ q.pc = "filter" /\ Typed /\ q.policy \in Policies
  BY Zenon DEF Place, At, IInv, Good, Stage
<1>2. /\ S \in SUBSET Cells
      /\ \A c \in S : snapshot[c].utilisation \in Nat \X (Nat \ {0})
  BY <1>1, AdmittedCells, Zenon DEF Candidates
<1>3. k \in Nat
  BY <1>1, Zenon DEF Typed
<1> HIDE DEF S
<1>4. ASSUME NEW c \in S, Decided(h, c) PROVE Abstract!Next
  BY <1>1, <1>2, <1>4, DecidedView, Zenon
<1>5. ASSUME NEW err, PlaceFails(h, err, q.policy) PROVE Abstract!Next
  BY <1>1, <1>5, PlaceFailsView, Zenon
<1>6. ASSUME NEW c \in Kept(q, S), Decided(h, c) PROVE Abstract!Next
  <2>1. c \in S
    BY <1>6, Zenon DEF Kept
  <2> QED
    BY <1>4, <1>6, <2>1, Zenon
<1>7. ASSUME S # {}, NEW strategy, Decided(h, Score(strategy, S, k, snapshot))
      PROVE  Abstract!Next
  <2>1. Score(strategy, S, k, snapshot) \in S
    BY <1>2, <1>3, <1>7, Zenon DEF EngineChooses
  <2> QED
    BY <1>4, <1>7, <2>1, Zenon
<1> QED
  BY <1>5, <1>6, <1>7, Zenon DEF Place, S

LEMMA MintView ==
  ASSUME IInv, NEW h \in Handlers, Mint(h)
  PROVE  Abstract!Next \/ Stutter
<1> DEFINE q == request[h]
           max == ResolveTTL(ClusterByName(q.cell).env, q.spec.ttl, q.req.ttl,
                             Ceiling, Floor).max
<1>1. /\ q # None /\ q.pc = "mint" /\ q \in Local
      /\ Stage(q, trail[h], token[h], answer[h])
  BY Zenon DEF Mint, At, IInv, Typed, Good
<1>2. max \in Nat
  <2>1. q.spec.ttl \in [default : Nat, max : Nat]
    BY <1>1, TTLAssumption, Zenon DEF Stage
  <2> QED
    BY <2>1, BoundWithinCeiling, Zenon
<1> HIDE DEF max
<1>3. ASSUME request' = [request EXCEPT ![h].pc = "token", ![h].max = max],
             UNCHANGED <<token, answer>>
      PROVE  Stutter
  <2> DEFINE r == [q EXCEPT !.pc = "token", !.max = max]
  <2>1. r \in Local /\ r.pc = "token" /\ r.cell = q.cell
    BY <1>1, <1>2, Zenon DEF Local, Steps
  <2>2. request' = [request EXCEPT ![h] = r]
    BY <1>3, Zenon
  <2> HIDE DEF r
  <2> QED
    BY <1>1, <1>3, <2>1, <2>2, QuietView, Zenon
<1>4. ASSUME NEW reason \in {"MintUnavailable", "MintFailed"},
             Refuse(h, "mint", reason)
      PROVE  Abstract!Next
  <2>1. Issued' = Issued
    BY <1>4, Zenon DEF Refuse, Issued
  <2> QED
    BY <1>1, <1>4, <2>1, LateView, Zenon DEF Refuse
<1> QED
  BY <1>3, <1>4, Zenon DEF Mint, max

LEMMA SpokeIssuesView ==
  ASSUME IInv, NEW h \in Handlers, NEW life \in Lifetimes, SpokeIssues(h, life)
  PROVE  Abstract!Next
<1> DEFINE q == request[h]
           tok == [cell |-> q.cell, life |-> life, received |-> FALSE]
<1>1. /\ q # None /\ q.pc = "token" /\ Goto(h, "issued")
      /\ token' = [token EXCEPT ![h] = tok] /\ answer' = answer
  BY Zenon DEF SpokeIssues, At
<1>2. /\ Abstract!Pending(h) /\ Chosen[h] = q.cell /\ Typed
      /\ Stage(q, trail[h], token[h], answer[h])
  BY <1>1, AtWork, Zenon
<1>3. q.cell \in Cells /\ token[h] = None
  BY <1>1, <1>2, Zenon DEF Stage
<1>4. tok # None /\ tok.cell = q.cell /\ tok.life = life
  <2>1. tok \in Token
    BY <1>3, Zenon DEF Token
  <2> QED
    BY <2>1, NoneAssumption, Zenon
<1> HIDE DEF tok
<1>5. Chosen' = Chosen /\ Gone' = Gone
  <2>1. "issued" \in Steps
    BY Zenon DEF Steps
  <2> QED
    BY <1>1, <2>1, MoveView, Zenon
<1>6. Issued[h] = {}
  BY <1>3, Zenon DEF Issued, Got
<1>7. Issued' = [Issued EXCEPT ![h] = {<<Chosen[h], life>>}]
  <2>1. /\ Got(token'[h]) = {<<Chosen[h], life>>}
        /\ \A i \in Handlers \ {h} : token'[i] = token[i]
    BY <1>1, <1>2, <1>4, Zenon DEF Typed, Got
  <2> QED
    BY <2>1, Zenon DEF Issued
<1>8. Abstract!Issue(h, life)
  <2>1. Chosen[h] # None /\ answer[h] = None
    BY <1>2, <1>3, NoneAssumption, Zenon DEF Abstract!Pending
  <2> QED
    BY <1>1, <1>5, <1>6, <1>7, <2>1, Zenon DEF Abstract!Issue
<1> QED
  BY <1>8, Zenon DEF Abstract!Next

LEMMA TokenRequestFailsView ==
  ASSUME IInv, NEW h \in Handlers, TokenRequestFails(h)
  PROVE  Abstract!Next
<1>1. Issued' = Issued
  BY Zenon DEF TokenRequestFails, Refuse, Issued
<1> QED
  BY <1>1, LateView, Zenon DEF TokenRequestFails, Refuse, At

LEMMA TakeView ==
  ASSUME IInv, NEW h \in Handlers, Take(h)
  PROVE  Abstract!Next \/ Stutter
<1>1. request[h] # None /\ request[h].pc = "issued" /\ Received(h)
  BY Zenon DEF Take, At
<1>2. token[h] # None
  BY <1>1, AtWork, Zenon DEF Stage
<1>3. Issued' = Issued
  <2>1. /\ token'[h] # None /\ token'[h].life = token[h].life
        /\ token'[h].cell = token[h].cell
        /\ \A i \in Handlers \ {h} : token'[i] = token[i]
    BY <1>1, <1>2, ReceivedToken, Zenon
  <2>2. Got(token'[h]) = Got(token[h])
    BY <1>2, <2>1, Zenon DEF Got
  <2> QED
    BY <2>1, <2>2, TokensKept, Zenon
<1>4. CASE RefuseKnowing(h, "mint", "MintFailed", request[h].policy)
  BY <1>1, <1>3, <1>4, LateView, Zenon
<1>5. CASE Goto(h, "remember") /\ answer' = answer
  <2>1. "remember" \in Steps
    BY Zenon DEF Steps
  <2>2. Chosen' = Chosen /\ Gone' = Gone
    BY <1>1, <1>5, <2>1, MoveView, Zenon
  <2> QED
    BY <1>3, <1>5, <2>2, Zenon DEF Stutter
<1> QED
  BY <1>4, <1>5, Zenon DEF Take

\* The response is Placement's Grant.
LEMMA RespondView ==
  ASSUME IInv, NEW h \in Handlers, Respond(h)
  PROVE  Abstract!Next
<1> DEFINE q == request[h]
           life == token[h].life
<1>1. /\ q # None /\ q.pc = "remember" /\ Goto(h, "done")
      /\ Answered(h, Unset, q.cell, life) /\ token' = token
  BY Zenon DEF Respond, At
<1>2. /\ Abstract!Pending(h) /\ Chosen[h] = q.cell /\ q \in Local
      /\ Stage(q, trail[h], token[h], answer[h]) /\ Typed
  BY <1>1, AtWork, Zenon
<1>3. /\ token[h] # None /\ token[h].cell = q.cell
      /\ life <= q.max + 1 /\ (Ceiling > 0 => q.max <= Ceiling)
  BY <1>1, <1>2, Zenon DEF Stage
<1>4. life \in Lifetimes /\ life \in Nat /\ q.max \in Nat
  BY <1>2, <1>3, TTLAssumption, Zenon DEF Typed, Token, Local
<1>5. <<Chosen[h], life>> \in Issued[h]
  BY <1>2, <1>3, Zenon DEF Issued, Got
<1> HIDE DEF life
<1>6. Ceiling > 0 => life <= Ceiling + 1
  BY <1>3, <1>4, TTLAssumption
<1>7. Chosen' = Chosen /\ Gone' = Gone
  <2>1. "done" \in Steps
    BY Zenon DEF Steps
  <2> QED
    BY <1>1, <2>1, MoveView, Zenon
<1>8. Issued' = Issued
  BY <1>1, Zenon DEF Issued
<1>9. Abstract!Grant(h, life)
  BY <1>1, <1>2, <1>5, <1>6, <1>7, <1>8, Zenon
     DEF Abstract!Grant, Abstract!Answered, Answered
<1> QED
  BY <1>4, <1>9, Zenon DEF Abstract!Next

\* What requests notice of the registry does not show.
LEMMA NoticedView ==
  ASSUME IInv, NEW cl, NEW sn, request' = Noticed(cl, sn),
         UNCHANGED <<token, answer>>
  PROVE  Stutter
<1>1. ASSUME NEW h \in Handlers
      PROVE  /\ Chose(request'[h]) = Chose(request[h])
             /\ Died(request'[h]) = Died(request[h])
  <2>1. CASE request[h] = None
    <3>1. request'[h] = None
      BY <2>1, Zenon DEF Noticed
    <3> QED
      BY <2>1, <3>1, Zenon DEF Chose, Died
  <2>2. CASE request[h] # None
    <3> DEFINE q == request[h]
               s == q.shut \cap Shut(q.req.dark, cl)
               n == q.silent \cap Silent(sn)
               r == [q EXCEPT !.shut = s, !.silent = n]
    <3>1. q \in Local
      BY <2>2, Zenon DEF IInv, Typed
    <3>2. s \in SUBSET Cells /\ n \in SUBSET Cells
      BY <3>1, Zenon DEF Local
    <3>3. request'[h] = r
      BY <2>2, Zenon DEF Noticed
    <3> HIDE DEF s, n
    <3>4. r \in Local /\ r.pc = q.pc /\ r.cell = q.cell
      BY <3>1, <3>2, Zenon DEF Local
    <3> HIDE DEF r
    <3>5. r # None
      BY <3>4, NoneAssumption, Zenon
    <3> QED
      BY <2>2, <3>3, <3>4, <3>5, Zenon DEF Chose, Died
  <2> QED
    BY <2>1, <2>2, Zenon
<1>2. Issued' = Issued
  BY Zenon DEF Issued
<1> QED
  BY <1>1, <1>2, ViewKept, Zenon DEF Stutter

\* The death of the process is Placement's Die.
LEMMA CrashView ==
  ASSUME IInv, Crash PROVE Abstract!Next
<1> DEFINE lost == {h \in Handlers : request[h] # None /\ request[h].pc # "done"}
<1>1. ASSUME NEW h \in Handlers
      PROVE  /\ Chose(request'[h]) = Chose(request[h])
             /\ Died(request'[h]) = (Died(request[h]) \/ h \in lost)
             /\ h \in lost => answer[h] = None
  <2> DEFINE q == request[h]
             r == [q EXCEPT !.pc = "lost"]
  <2>1. request'[h] = IF q # None /\ q.pc # "done" THEN r ELSE q
    BY Zenon DEF Crash
  <2>2. CASE h \in lost
    <3>1. q \in Local /\ Stage(q, trail[h], token[h], answer[h])
      BY <2>2, Zenon DEF IInv, Typed, Good
    <3>2. r \in Local /\ r.pc = "lost" /\ r.cell = q.cell
      BY <3>1, Zenon DEF Local, Steps
    <3> HIDE DEF r
    <3>3. r # None /\ request'[h] = r
      BY <2>1, <2>2, <3>2, NoneAssumption, Zenon
    <3>4. answer[h] = None
      BY <2>2, <3>1, Zenon DEF Stage
    <3> QED
      BY <2>2, <3>2, <3>3, <3>4, Zenon DEF Chose, Died
  <2>3. CASE h \notin lost
    <3>1. request'[h] = q
      BY <2>1, <2>3, Zenon
    <3> HIDE DEF lost
    <3> QED
      BY <2>3, <3>1, Zenon DEF Died
  <2> QED
    BY <2>2, <2>3, Zenon
<1>2. lost \in SUBSET Handlers
  OBVIOUS
<1> HIDE DEF lost
<1>3. Chosen' = Chosen
  BY <1>1, Zenon DEF Chosen
<1>4. Gone' = [h \in Handlers |-> Gone[h] \/ h \in lost]
  BY <1>1, Zenon DEF Gone
<1>5. Issued' = Issued /\ answer' = answer
  BY Zenon DEF Crash, Issued
<1>6. Abstract!Die(lost)
  BY <1>1, <1>2, <1>3, <1>4, <1>5, Zenon DEF Abstract!Die
<1> QED
  BY <1>2, <1>6, Zenon DEF Abstract!Next

LEMMA IdleView ==
  ASSUME UNCHANGED <<request, token, answer>> PROVE Stutter
BY Zenon DEF Stutter, Chosen, Issued, Gone

LEMMA NextView ==
  ASSUME EngineChooses
  PROVE  IInv /\ [Next]_vars => Abstract!Next \/ Stutter
<1> SUFFICES ASSUME IInv, [Next]_vars PROVE Abstract!Next \/ Stutter
  BY Zenon
<1>1. ASSUME NEW c \in Cells, NEW spec \in ClusterSpecs \cup {None},
             ClusterEvent(c, spec)
      PROVE  Stutter
  BY <1>1, NoticedView, Zenon DEF ClusterEvent, Edit
<1>2. ASSUME NEW c \in Cells, NEW entry \in Entries \cup {None},
             CapacityEvent(c, entry)
      PROVE  Stutter
  BY <1>2, NoticedView, Zenon DEF CapacityEvent, Edit
<1>3. ASSUME NEW p \in Policies, NEW spec \in PolicySpecs \cup {None},
             PolicyEvent(p, spec)
      PROVE  Stutter
  BY <1>3, IdleView, Zenon DEF PolicyEvent, Edit
<1>4. CASE Warm
  BY <1>4, IdleView, Zenon DEF Warm
<1>5. CASE UNCHANGED vars
  BY <1>5, IdleView, Zenon DEF vars
<1>6. ASSUME NEW h \in Handlers, Handle(h) PROVE Abstract!Next \/ Stutter
  BY <1>6, AdmitView, ChoosePolicyView, PlaceView, MintView,
     TokenRequestFailsView, TakeView, RespondView, Zenon DEF Handle
<1> QED
  BY <1>1, <1>2, <1>3, <1>4, <1>5, <1>6, ArriveView, SpokeIssuesView, CrashView,
     Zenon DEF Next, Terminated
=============================================================================
