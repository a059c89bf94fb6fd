----------------------------- MODULE MCReplica ------------------------------
(***************************************************************************)
(* One hub replica: its start and its end (ReplicaLifecycle), and how it   *)
(* relays reports in between (PeerRelay).  The two share no state, so a    *)
(* behaviour is one of either.                                             *)
(***************************************************************************)
EXTENDS ReplicaLifecycle

CONSTANTS Peers, Self, Relays

VARIABLES
  part,   \* which of the two the behaviour is of
  dns, addresses, up, relay, failing, lookupFailed

relayVars == <<dns, addresses, up, relay, failing, lookupFailed>>

R == INSTANCE PeerRelay

MCInit ==
  /\ Init /\ R!Init /\ part \in {"lifecycle", "relay"}
  /\ part = "relay" => wired.waitForSync /\ wired.warmupCheck

MCNext ==
  /\ UNCHANGED part
  /\ \/ part = "lifecycle" /\ Next /\ UNCHANGED relayVars
     \/ part = "relay" /\ R!Next /\ UNCHANGED vars

MCSpec ==
  /\ MCInit /\ [][MCNext]_<<part, vars, relayVars>>
  /\ part = "lifecycle" => Fairness
  /\ part = "relay" => R!Fairness

\* What the relay remembers of its peers follows the fleet (note, noteLookup
\* and forgetAllBut).
RelayStateSettles == R!RelayStateSettles
=============================================================================
