------------------------------ MODULE TokenTTL ------------------------------
(***************************************************************************)
(* How long a minted credential may live (internal/hub/broker/ttl.go).     *)
(* Durations are whole minutes; zero is a duration that was not given.     *)
(***************************************************************************)
EXTENDS Integers

\* envBounds and BoundsFor: the built-in bounds of a cell's env label, the
\* strictest for a label nobody recognises.
BoundsFor(env) ==
  IF env \in {"dev", "development"} THEN [default |-> 30, max |-> 60]
  ELSE IF env \in {"stage", "staging"} THEN [default |-> 15, max |-> 30]
  ELSE [default |-> 10, max |-> 15]

\* The policy overrides the built-in bounds, in either direction.
Overridden(bounds, policy) ==
  [default |-> IF policy.default > 0 THEN policy.default ELSE bounds.default,
   max     |-> IF policy.max > 0 THEN policy.max ELSE bounds.max]

Least(a, b) == IF a < b THEN a ELSE b
Greatest(a, b) == IF a < b THEN b ELSE a

\* The hub's ceiling bounds the maximum, and the maximum the default.
Ceiled(bounds, ceiling) ==
  LET max == IF ceiling > 0 THEN Least(bounds.max, ceiling) ELSE bounds.max
  IN  [default |-> Least(bounds.default, max), max |-> max]

\* ResolveTTL, reporting a clamp of the default as well.
ResolveMisreporting(env, policy, requested, ceiling, floor) ==
  LET b == Ceiled(Overridden(BoundsFor(env), policy), ceiling)
      asked == IF requested > 0 THEN Least(requested, b.max) ELSE b.default
  IN  [ok |-> ~(floor > 0 /\ b.max < floor), granted |-> Greatest(asked, floor),
       max |-> b.max, clamped |-> requested >= b.max]

\* ResolveTTL with a request allowed to exceed the bound.
ResolveAsAsked(env, policy, requested, ceiling, floor) ==
  LET b == Ceiled(Overridden(BoundsFor(env), policy), ceiling)
      asked == IF requested > 0 THEN requested ELSE b.default
  IN  [ok |-> ~(floor > 0 /\ b.max < floor), granted |-> Greatest(asked, floor),
       max |-> b.max, clamped |-> FALSE]

\* ResolveTTL: a request is cut down to the bound and raised to the
\* provider's floor; a bound below the floor is refused.
ResolveTTL(env, policy, requested, ceiling, floor) ==
  LET b == Ceiled(Overridden(BoundsFor(env), policy), ceiling)
      asked == IF requested > 0 THEN Least(requested, b.max) ELSE b.default
  IN  [ok      |-> ~(floor > 0 /\ b.max < floor),
       granted |-> Greatest(asked, floor),
       max     |-> b.max,
       clamped |-> requested > b.max]
=============================================================================
