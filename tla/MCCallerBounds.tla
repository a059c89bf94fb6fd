--------------------------- MODULE MCCallerBounds ---------------------------
(***************************************************************************)
(* What the hub holds one caller to: how often it may place                *)
(* (CallerLimiter) and how long its credentials live (TokenLifetime).  The *)
(* two share no state, so a behaviour is one of either: requests while the *)
(* lifetime asked for is the first, or lifetimes before any request.       *)
(***************************************************************************)
EXTENDS CallerLimiter, TokenLifetime, TLC

\* Nothing configured, and nothing asked for.
First == [env |-> "unlabelled", policy |-> [default |-> 0, max |-> 0],
          requested |-> 0, ceiling |-> 0, floor |-> 0]

MCInit == Init /\ AskInit /\ (ask = First \/ since = 0)

MCNext ==
  \/ ask = First /\ Next /\ UNCHANGED ask
  \/ Init /\ since = 0 /\ AskNext /\ UNCHANGED vars

MCSpec == MCInit /\ [][MCNext]_<<vars, ask>>

\* Handlers do not differ.
Symmetry == Permutations(Handlers)
=============================================================================
