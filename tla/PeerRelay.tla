----------------------------- MODULE PeerRelay ------------------------------
(***************************************************************************)
(* One replica passing the capacity reports it receives on to the other    *)
(* replicas (internal/hub/relay.go).  Every report starts a goroutine of   *)
(* its own that looks the peers up, sends the report to each of them at    *)
(* once and notes how it went, so what is noted comes from lookups and     *)
(* sends of different times and in any order.                              *)
(*                                                                         *)
(* What is remembered, failing and lookupFailed, decides what is logged:   *)
(* a failure when it starts and when it clears.                            *)
(***************************************************************************)
CONSTANTS
  Peers,    \* addresses of other replicas, in use or not
  Self,     \* this replica's own address
  Relays    \* reports that may be under way at once

VARIABLES
  dns,           \* the lookup works
  addresses,     \* what it returns
  up,            \* peers that accept a relayed report in time
  relay,         \* the goroutines
  failing,       \* PeerRelay.failing
  lookupFailed   \* PeerRelay.lookupFailed

memory == <<failing, lookupFailed>>
vars == <<dns, addresses, up, relay, failing, lookupFailed>>

\* A goroutine: the peers it listed and, of those, the ones not yet sent to,
\* and the ones that accepted or failed and are not yet noted.
Goroutine ==
  [pc : {"idle", "lookup", "listed", "unlisted", "forget", "send"},
   peers : SUBSET Peers, accepted : SUBSET Peers, failed : SUBSET Peers]

Idle == [pc |-> "idle", peers |-> {}, accepted |-> {}, failed |-> {}]

TypeOK ==
  /\ dns \in BOOLEAN
  /\ addresses \in SUBSET (Peers \cup {Self}) /\ up \in SUBSET Peers
  /\ relay \in [Relays -> Goroutine]
  /\ failing \in SUBSET Peers /\ lookupFailed \in BOOLEAN

\* NewPeerRelay
Init ==
  /\ dns = TRUE /\ addresses = Peers \cup {Self} /\ up = Peers
  /\ relay = [r \in Relays |-> Idle]
  /\ failing = {} /\ lookupFailed = FALSE

-----------------------------------------------------------------------------
At(r, pc) == relay[r].pc = pc

\* Relay: a report of an agent's own was stored.
Relay(r) ==
  /\ At(r, "idle")
  /\ relay' = [relay EXCEPT ![r].pc = "lookup"]
  /\ UNCHANGED <<dns, addresses, up, memory>>

\* resolvePeers: everybody listed but this replica.
ResolvePeers == addresses \ {Self}

\* relay's lookup returns.
Lookup(r) ==
  /\ At(r, "lookup")
  /\ relay' = [relay EXCEPT
       ![r] = IF dns THEN [@ EXCEPT !.pc = "listed", !.peers = ResolvePeers]
              ELSE [@ EXCEPT !.pc = "unlisted"]]
  /\ UNCHANGED <<dns, addresses, up, memory>>

\* noteLookup, under the mutex; after an error the goroutine ends.
NoteLookup(r) ==
  /\ At(r, "listed") \/ At(r, "unlisted")
  /\ lookupFailed' = At(r, "unlisted")
  /\ relay' = [relay EXCEPT
       ![r] = IF At(r, "unlisted") THEN Idle ELSE [@ EXCEPT !.pc = "forget"]]
  /\ UNCHANGED <<dns, addresses, up, failing>>

\* The goroutine once its peers are to be sent to, or have all been noted.
Sending(g) ==
  IF g.peers \cup g.accepted \cup g.failed = {} THEN Idle
  ELSE [g EXCEPT !.pc = "send"]

\* relay without forgetAllBut.
ForgetNobody(r) ==
  /\ At(r, "forget")
  /\ relay' = [relay EXCEPT ![r] = Sending(@)]
  /\ UNCHANGED <<dns, addresses, up, memory>>

\* forgetAllBut, under the mutex.
ForgetAllBut(r) ==
  /\ At(r, "forget")
  /\ failing' = failing \cap relay[r].peers
  /\ relay' = [relay EXCEPT ![r] = Sending(@)]
  /\ UNCHANGED <<dns, addresses, up, lookupFailed>>

\* send: answered 202, or an error, another status or the relay's timeout.
Send(r, p) ==
  /\ At(r, "send") /\ p \in relay[r].peers
  /\ relay' = [relay EXCEPT
       ![r] = IF p \in up
              THEN [@ EXCEPT !.peers = @ \ {p}, !.accepted = @ \cup {p}]
              ELSE [@ EXCEPT !.peers = @ \ {p}, !.failed = @ \cup {p}]]
  /\ UNCHANGED <<dns, addresses, up, memory>>

\* note, under the mutex.
Note(r, p) ==
  /\ At(r, "send") /\ p \in relay[r].accepted \cup relay[r].failed
  /\ failing' = IF p \in relay[r].failed THEN failing \cup {p} ELSE failing \ {p}
  /\ relay' = [relay EXCEPT ![r] =
       Sending([@ EXCEPT !.accepted = @ \ {p}, !.failed = @ \ {p}])]
  /\ UNCHANGED <<dns, addresses, up, lookupFailed>>

\* Replicas come, go and fail, and so does the name service.
Environment ==
  /\ \/ dns' = ~dns /\ UNCHANGED <<addresses, up>>
     \/ \E p \in Peers :
          \/ /\ addresses' = IF p \in addresses THEN addresses \ {p}
                             ELSE addresses \cup {p}
             /\ UNCHANGED <<dns, up>>
          \/ /\ up' = IF p \in up THEN up \ {p} ELSE up \cup {p}
             /\ UNCHANGED <<dns, addresses>>
  /\ UNCHANGED <<relay, memory>>

Proceed(r) ==
  \/ Relay(r) \/ Lookup(r) \/ NoteLookup(r) \/ ForgetAllBut(r)
  \/ \E p \in Peers : Send(r, p) \/ Note(r, p)

Next == Environment \/ \E r \in Relays : Proceed(r)

Spec == Init /\ [][Next]_vars

\* Reports keep coming, as long as any agent is connected to this replica,
\* and every goroutine ends, at the latest with the relay's timeout.
Fairness == \A r \in Relays : WF_vars(Proceed(r))

-----------------------------------------------------------------------------
\* What the relay remembers follows the fleet, though what is noted may come
\* from a lookup or a send of long ago: a peer that stays listed ends up as
\* failing or not as it fails or not, one that stays away is forgotten, and
\* so with the lookup.  So the warning of an outage comes, its end is logged,
\* and the memory does not grow with the replicas that ever were (note,
\* noteLookup and forgetAllBut).
RelayStateSettles ==
  /\ \A p \in Peers :
       /\ <>[](dns /\ p \in addresses /\ p \in up) => <>[](p \notin failing)
       /\ <>[](dns /\ p \in addresses /\ p \notin up) => <>[](p \in failing)
       /\ <>[](dns /\ p \notin addresses) => <>[](p \notin failing)
  /\ <>[]dns => <>[](~lookupFailed)
  /\ <>[](~dns) => <>[]lookupFailed
=============================================================================
