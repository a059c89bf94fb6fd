----------------------------- MODULE IssuerKeys -----------------------------
(***************************************************************************)
(* How the hub authenticates callers (internal/hub/oidc and authenticate   *)
(* in internal/hub/middleware.go): the checks on a token in their order,   *)
(* the key source of its issuer, which concurrent first callers discover   *)
(* together through a singleflight group, and the loop that follows an     *)
(* issuer whose key set has moved.                                         *)
(*                                                                         *)
(* A key set is named by where it is published, and locations by the order *)
(* in which the issuer moved through them.  A token is good if all but its *)
(* times is in order; left is the time to its exp, negative once past, and *)
(* early the time to its nbf and iat.  What is done under a lock is one    *)
(* step, and every fetch is a step of its own.                             *)
(***************************************************************************)
EXTENDS Integers

CONSTANTS
  Issuers,     \* the allowlist
  Requests,    \* those being authenticated at a time
  Tokens,      \* what callers present: [issuer, good, left, early]
  Skew,        \* Config.ClockSkew
  Movers,      \* the issuers that move their key set
  MaxMoves,    \* bound: how often one does
  Nil

\* No comparison tells longer expired tokens apart.
Expired == -Skew - 1
Locations == 1..MaxMoves + 1

ASSUME KeysAssumption ==
  /\ Skew \in Nat /\ MaxMoves \in Nat
  /\ \A t \in Tokens : t.left \in Int /\ t.early \in Nat
  /\ Nil \notin Locations /\ Nil \notin Issuers /\ Nil \notin Tokens

VARIABLES
  location,  \* where each issuer publishes its keys
  up,        \* whether its metadata can be fetched
  sources,   \* keyRegistry.sources: the location known of each issuer
  flight,    \* keyRegistry.group: how far the discovery under way is
  refresh,   \* refreshOnce: the issuers left, the one it is at, what it fetched
  caller     \* each request in Authenticate, or how it ended

keysVars == <<location, up, sources, flight, refresh, caller>>
world == <<location, up>>

Answered == {"none", "accepted", "rejected"}

KeysTypeOK ==
  /\ location \in [Issuers -> Locations] /\ up \in [Issuers -> BOOLEAN]
  /\ sources \in [Issuers -> Locations \cup {Nil}]
  /\ flight \in [Issuers -> [at : {"none", "recheck", "fetch", "orphaned", "store"},
                             found : Locations \cup {Nil}]]
  /\ refresh \in [todo : SUBSET Issuers, at : Issuers \cup {Nil},
                  found : Locations \cup {Nil}]
  /\ caller \in [Requests -> [at : Answered \cup {"lookup", "join", "wait", "verify"},
                             token : {t \in Tokens : t.issuer \in Issuers} \cup {Nil},
                             left : Int, early : Nat]]

Flightless == [at |-> "none", found |-> Nil]
Ended(how) == [at |-> how, token |-> Nil, left |-> Expired, early |-> 0]

KeysInit ==
  /\ location = [i \in Issuers |-> 1] /\ up \in [Issuers -> BOOLEAN]
  /\ sources = [i \in Issuers |-> Nil]
  /\ flight = [i \in Issuers |-> Flightless]
  /\ refresh = [todo |-> {}, at |-> Nil, found |-> Nil]
  /\ caller = [c \in Requests |-> Ended("none")]

-----------------------------------------------------------------------------
Issuer(c) == caller[c].token.issuer

Reach(c, pc) == caller' = [caller EXCEPT ![c].at = pc]

\* Authenticate returns an identity, or the error that becomes a 401.
Accept(c) == caller' = [caller EXCEPT ![c] = Ended("accepted")]
Reject(c) == caller' = [caller EXCEPT ![c] = Ended("rejected")]

\* validateTimes: exp, nbf and iat against the clock, with the skew.
InTime(t) == t.left >= -Skew /\ t.early <= Skew

Admit(c, t) == caller' = [caller EXCEPT ![c] =
  [at |-> "lookup", token |-> t, left |-> t.left, early |-> t.early]]

\* A request arrives.  bearerToken, peekIssuer, the allowlist and the
\* algorithm are checked before anything is looked up.
Present(c, t) ==
  /\ caller[c].at \in Answered
  /\ IF t.issuer \in Issuers THEN Admit(c, t) ELSE Reject(c)
  /\ UNCHANGED <<world, sources, flight, refresh>>

\* sourceFor's first look, under the read lock.
Lookup(c) ==
  /\ caller[c].at = "lookup"
  /\ Reach(c, IF sources[Issuer(c)] # Nil THEN "verify" ELSE "join")
  /\ UNCHANGED <<world, sources, flight, refresh>>

\* The first caller starts the discovery, the others wait for its result.
Board(c) ==
  /\ Reach(c, "wait")
  /\ flight' = [flight EXCEPT ![Issuer(c)].at = IF @ = "none" THEN "recheck" ELSE @]

\* group.Do with failures remembered.
JoinNegative(c) ==
  /\ caller[c].at = "join"
  /\ IF \E d \in Requests : caller[d].at = "rejected"
     THEN Reject(c) /\ UNCHANGED flight
     ELSE Board(c)
  /\ UNCHANGED <<world, sources, refresh>>

\* group.Do.
Join(c) ==
  /\ caller[c].at = "join"
  /\ Board(c)
  /\ UNCHANGED <<world, sources, refresh>>

\* The discovery ends, for everyone who waits for it.
Land(i, ok) ==
  /\ flight' = [flight EXCEPT ![i] = Flightless]
  /\ caller' = [c \in Requests |->
       IF caller[c].at = "wait" /\ Issuer(c) = i
       THEN IF ok THEN [caller[c] EXCEPT !.at = "verify"] ELSE Ended("rejected")
       ELSE caller[c]]

\* The flight's function without its second look.
RecheckSkipped(i) ==
  /\ flight[i].at = "recheck"
  /\ flight' = [flight EXCEPT ![i].at = "fetch"]
  /\ UNCHANGED <<world, sources, refresh, caller>>

\* The flight's function looks again: an earlier flight may have landed since
\* its leader looked.
Recheck(i) ==
  /\ flight[i].at = "recheck"
  /\ IF sources[i] # Nil THEN Land(i, TRUE)
     ELSE flight' = [flight EXCEPT ![i].at = "fetch"] /\ UNCHANGED caller
  /\ UNCHANGED <<world, sources, refresh>>

\* The client of the flight's leader hangs up, and with it ends the context
\* the fetch runs under.  Other callers who hang up change nothing here.
HangUp(i) ==
  /\ flight[i].at = "fetch"
  /\ flight' = [flight EXCEPT ![i].at = "orphaned"]
  /\ UNCHANGED <<world, sources, refresh, caller>>

\* discover: the metadata is read and names a location.
Discover(i) ==
  /\ flight[i].at = "fetch" /\ up[i]
  /\ flight' = [flight EXCEPT ![i] = [at |-> "store", found |-> location[i]]]
  /\ UNCHANGED <<world, sources, refresh, caller>>

\* discover fails: the issuer does not answer in time or answers badly, or
\* the leader's context has ended.
DiscoverFails(i) ==
  /\ \/ flight[i].at = "fetch" /\ ~up[i]
     \/ flight[i].at = "orphaned"
  /\ Land(i, FALSE)
  /\ UNCHANGED <<world, sources, refresh>>

\* The source is stored under the lock, and the flight lands.
StoreSource(i) ==
  /\ flight[i].at = "store"
  /\ sources' = [sources EXCEPT ![i] = flight[i].found]
  /\ Land(i, TRUE)
  /\ UNCHANGED <<world, refresh>>

\* The signature and every claim but the times: issuer, audience, subject.
Good(t) == t.good

\* The verdict, with the times checked when the token came in.
VerifyAsArrived(c) ==
  /\ caller[c].at = "verify"
  /\ \/ Good(caller[c].token) /\ InTime(caller[c].token) /\ Accept(c)
     \/ Reject(c)
  /\ UNCHANGED <<world, sources, flight, refresh>>

\* VerifySignature, which may fail for reasons of its own, then the claims,
\* the issuer once more, the times, the audience and the subject.
Verify(c) ==
  /\ caller[c].at = "verify"
  /\ \/ Good(caller[c].token) /\ InTime(caller[c]) /\ Accept(c)
     \/ Reject(c)
  /\ UNCHANGED <<world, sources, flight, refresh>>

-----------------------------------------------------------------------------
(***************************************************************************)
(* refreshLoop.                                                            *)
(***************************************************************************)
\* The ticker fires: the issuers known by now are listed.
RefreshStart ==
  /\ refresh.todo = {}
  /\ \E i \in Issuers : sources[i] # Nil
  /\ refresh' = [refresh EXCEPT !.todo = {i \in Issuers : sources[i] # Nil}]
  /\ UNCHANGED <<world, sources, flight, caller>>

\* refreshOnce giving up at the first issuer that fails.
RefreshAbandons(i) ==
  /\ i \in refresh.todo /\ refresh.at = Nil
  /\ refresh' = IF up[i]
                THEN [refresh EXCEPT !.at = i, !.found = location[i]]
                ELSE [refresh EXCEPT !.todo = {}]
  /\ UNCHANGED <<world, sources, flight, caller>>

\* One issuer's metadata is read again; a failure keeps what is known.
RefreshFetch(i) ==
  /\ i \in refresh.todo /\ refresh.at = Nil
  /\ refresh' = IF up[i]
                THEN [refresh EXCEPT !.at = i, !.found = location[i]]
                ELSE [refresh EXCEPT !.todo = @ \ {i}]
  /\ UNCHANGED <<world, sources, flight, caller>>

\* What it says replaces what is known, if it differs.
RefreshSwap ==
  /\ refresh.at # Nil
  /\ sources' = [sources EXCEPT ![refresh.at] = refresh.found]
  /\ refresh' = [todo |-> refresh.todo \ {refresh.at}, at |-> Nil, found |-> Nil]
  /\ UNCHANGED <<world, flight, caller>>

-----------------------------------------------------------------------------
(***************************************************************************)
(* The issuers and the clock.                                              *)
(***************************************************************************)
Move(i) ==
  /\ i \in Movers /\ location[i] <= MaxMoves
  /\ location' = [location EXCEPT ![i] = @ + 1]
  /\ UNCHANGED <<up, sources, flight, refresh, caller>>

Flap(i) ==
  /\ up' = [up EXCEPT ![i] = ~@]
  /\ UNCHANGED <<location, sources, flight, refresh, caller>>

Elapse ==
  /\ caller' = [c \in Requests |->
       [caller[c] EXCEPT !.left = IF @ = Expired THEN @ ELSE @ - 1,
                         !.early = IF @ = 0 THEN 0 ELSE @ - 1]]
  /\ UNCHANGED <<world, sources, flight, refresh>>

Handler(c) == Lookup(c) \/ Join(c) \/ Verify(c)
Flight(i) == Recheck(i) \/ Discover(i) \/ DiscoverFails(i) \/ StoreSource(i)
Refresher == RefreshStart \/ (\E i \in Issuers : RefreshFetch(i)) \/ RefreshSwap

KeysNext ==
  \/ \E c \in Requests : (\E t \in Tokens : Present(c, t)) \/ Handler(c)
  \/ \E i \in Issuers : Flight(i) \/ HangUp(i) \/ Move(i) \/ Flap(i)
  \/ Refresher
  \/ Elapse

KeysSpec == KeysInit /\ [][KeysNext]_keysVars

(***************************************************************************)
(* A handler runs on, a fetch ends within HTTPTimeout, the ticker fires;   *)
(* nobody has to call, and issuers do as they please.                      *)
(***************************************************************************)
FairSpec ==
  /\ KeysSpec
  /\ \A c \in Requests : WF_keysVars(Handler(c))
  /\ \A i \in Issuers : WF_keysVars(Flight(i))
  /\ WF_keysVars(Refresher)

-----------------------------------------------------------------------------
(***************************************************************************)
(* What callers can count on.                                              *)
(***************************************************************************)
\* However long a caller waited for its issuer to be discovered, the token it
\* is accepted for is within its times when it is accepted, and its issuer is
\* known (validateTimes reads the clock after sourceFor and VerifySignature
\* have returned).
AcceptedIsInTime ==
  [][\A c \in Requests :
       caller[c].at \notin Answered /\ caller'[c].at = "accepted" =>
         /\ caller[c].left >= -Skew /\ caller[c].early <= Skew
         /\ sources[Issuer(c)] # Nil]_keysVars

\* Once an issuer is known it stays known, and the location the hub uses never
\* goes back to one the issuer has left (the second look inside the flight is
\* what keeps a slow discovery from overwriting a refresh).
LocationNeverGoesBack ==
  [][\A i \in Issuers : sources[i] # Nil =>
       sources'[i] # Nil /\ sources'[i] >= sources[i]]_keysVars

\* An issuer that moves its keys and can be reached from some point on is
\* followed, whatever the other issuers do (refreshLoop, and the continue
\* after a failure in refreshOnce).
MovedIssuerIsFollowed ==
  \A i \in Issuers :
    <>[]up[i] => <>[](sources[i] # Nil => sources[i] = location[i])

\* An outage does not lock an issuer out: once it is over, and callers who do
\* not hang up keep coming, the issuer gets known (sourceFor caches no failed
\* discovery).
OutageIsForgotten ==
  \A i \in Issuers :
    /\ <>[](up[i] /\ flight[i].at # "orphaned")
    /\ []<>(\E c \in Requests : caller[c].at = "lookup" /\ Issuer(c) = i)
    => <>(sources[i] # Nil)
=============================================================================
