---------------------------- MODULE TokenLifetime ---------------------------
(***************************************************************************)
(* Everything a credential's lifetime is resolved from, and who may change *)
(* it: the cell's env label and the policy's bounds are the operator's,    *)
(* the ceiling the hub's configuration, the floor the provider's, and the  *)
(* requested lifetime the caller's.                                        *)
(***************************************************************************)
EXTENDS TokenTTL

CONSTANTS
  Envs,        \* values of a cell's env label
  Durations    \* zero for a duration that was not given

VARIABLE ask   \* the arguments of ResolveTTL

\* Durations are whole minutes, and none is negative.
Minutes == Durations \cap Nat

Asks ==
  [env : Envs, policy : [default : Minutes, max : Minutes],
   requested : Minutes, ceiling : Minutes, floor : Minutes]

\* What Broker.Mint gets for an ask.
Resolved(a) == ResolveTTL(a.env, a.policy, a.requested, a.ceiling, a.floor)

AskInit == ask \in Asks

\* The caller asks for another lifetime, a positive one or none.
Request(d) == ask' = [ask EXCEPT !.requested = d]

\* The operator relabels the cell or edits the policy.
Relabel(e) == ask' = [ask EXCEPT !.env = e]
EditPolicy(p) == ask' = [ask EXCEPT !.policy = p]

\* The hub restarts with another ceiling.
Configure(d) == ask' = [ask EXCEPT !.ceiling = d]

AskNext ==
  \/ \E d \in Minutes : Request(d) \/ Configure(d)
  \/ \E e \in Envs : Relabel(e)
  \/ \E p \in [default : Minutes, max : Minutes] : EditPolicy(p)

AskSpec == AskInit /\ [][AskNext]_ask

-----------------------------------------------------------------------------
AskTypeOK == ask \in Asks

\* A lifetime that is granted lies between the provider's floor and the
\* effective maximum, and no maximum exceeds the hub's ceiling, whatever the
\* policy says: rounding a request up to the floor never crosses the bound
\* (ResolveTTL, which checks the floor against the maximum).
GrantIsBounded ==
  LET r == Resolved(ask) IN
  /\ r.ok => (ask.floor <= r.granted /\ r.granted <= r.max)
  /\ ask.ceiling > 0 => r.max <= ask.ceiling

\* The caller is told that its request was cut down exactly when it was.
ClampIsReported ==
  LET r == Resolved(ask) IN r.ok => (r.clamped <=> ask.requested > r.granted)

\* A caller may ask for less and never for more: changing only what is
\* requested changes neither the maximum nor whether a credential can be
\* granted at all, and a longer request is never granted a shorter life.
CallerOnlyChoosesWithin ==
  [][ask' = [ask EXCEPT !.requested = ask'.requested] =>
       LET r == Resolved(ask) s == Resolved(ask') IN
       /\ s.max = r.max /\ (s.ok <=> r.ok)
       /\ (0 < ask.requested /\ ask.requested <= ask'.requested)
            => r.granted <= s.granted]_ask

\* Removing or misspelling a cell's env label, with no bounds in the policy,
\* never lengthens what its callers are granted by default.
UnlabelledIsStrictest ==
  [][(/\ ask' = [ask EXCEPT !.env = "unlabelled"]
      /\ ask.policy = [default |-> 0, max |-> 0])
       => /\ Resolved(ask').max <= Resolved(ask).max
          /\ Resolved(ask').granted <= Resolved(ask).granted]_ask
=============================================================================
