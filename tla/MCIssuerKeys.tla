---------------------------- MODULE MCIssuerKeys ----------------------------
(***************************************************************************)
(* Two issuers and two requests at a time: good tokens of both issuers,    *)
(* one about to expire and one not valid yet, and one of a stranger.       *)
(***************************************************************************)
EXTENDS IssuerKeys

CONSTANTS i1, i2

Token(i, l, e) == [issuer |-> i, good |-> TRUE, left |-> l, early |-> e]

MCTokens == {Token(i1, 0, 0), Token(i2, 1, 1), Token(Nil, 0, 0)}
=============================================================================
