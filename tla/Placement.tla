----------------------------- MODULE Placement ------------------------------
(***************************************************************************)
(* What a pipeline may rely on from POST /api/v1/placements, whatever the  *)
(* registry, the policies, the cells and other requests do meanwhile.      *)
(* There is no engine, no broker and no trail here: a request is decided   *)
(* at most once, a token is issued at most once and only in the cell       *)
(* decided on, and there is at most one answer, which is true.  A refusal  *)
(* that a client's stance may answer comes only where nothing was decided, *)
(* and nothing is decided or issued after it.                              *)
(***************************************************************************)
EXTENDS Refusal, Integers

CONSTANTS
  Handlers, Cells, Lifetimes,
  Ceiling,   \* minutes, zero for none
  None,
  Unset      \* the reason of an answer that is no refusal

VARIABLES
  chosen,    \* the cell decided on, or None
  issued,    \* the tokens issued, <<cell, minutes>>
  answer,    \* the response, or None
  gone       \* whether the process died with the request

vars == <<chosen, issued, answer, gone>>

Init ==
  /\ chosen = [h \in Handlers |-> None]
  /\ issued = [h \in Handlers |-> {}]
  /\ answer = [h \in Handlers |-> None]
  /\ gone = [h \in Handlers |-> FALSE]

Pending(h) == answer[h] = None /\ ~gone[h]

Answered(h, reason, cell, life) ==
  answer' = [answer EXCEPT ![h] =
               [reason |-> reason, cell |-> cell, life |-> life]]

\* A cell is decided on.
Decide(h, c) ==
  /\ Pending(h) /\ chosen[h] = None
  /\ chosen' = [chosen EXCEPT ![h] = c]
  /\ UNCHANGED <<issued, answer, gone>>

\* A dry run is told the cell and gets nothing.
Preview(h, c) ==
  /\ Pending(h) /\ chosen[h] = None
  /\ chosen' = [chosen EXCEPT ![h] = c]
  /\ Answered(h, Unset, c, 0)
  /\ UNCHANGED <<issued, gone>>

\* A refusal for any reason, with nothing decided.
Refuse(h, reason) ==
  /\ Pending(h) /\ chosen[h] = None
  /\ Answered(h, reason, None, 0)
  /\ UNCHANGED <<chosen, issued, gone>>

\* The cell issues a token, perhaps for a request the hub has given up on.
Issue(h, life) ==
  /\ chosen[h] # None /\ issued[h] = {}
  /\ answer[h] = None \/ answer[h].reason # Unset
  /\ issued' = [issued EXCEPT ![h] = {<<chosen[h], life>>}]
  /\ UNCHANGED <<chosen, answer, gone>>

\* No credential can be had: no stance may answer that.
Fail(h, reason) ==
  /\ Pending(h) /\ chosen[h] # None /\ reason \notin Optimisation
  /\ Answered(h, reason, None, 0)
  /\ UNCHANGED <<chosen, issued, gone>>

\* The credential the cell issued, within the ceiling but for the minute
\* allowed for skew.
Grant(h, life) ==
  /\ Pending(h) /\ <<chosen[h], life>> \in issued[h]
  /\ Ceiling > 0 => life <= Ceiling + 1
  /\ Answered(h, Unset, chosen[h], life)
  /\ UNCHANGED <<chosen, issued, gone>>

\* The process dies: some of its requests go without an answer.
Die(lost) ==
  /\ \A h \in lost : answer[h] = None
  /\ gone' = [h \in Handlers |-> gone[h] \/ h \in lost]
  /\ UNCHANGED <<chosen, issued, answer>>

Next ==
  \/ \E h \in Handlers, c \in Cells : Decide(h, c) \/ Preview(h, c)
  \/ \E h \in Handlers, reason \in Reasons : Refuse(h, reason) \/ Fail(h, reason)
  \/ \E h \in Handlers, life \in Lifetimes : Issue(h, life) \/ Grant(h, life)
  \/ \E lost \in SUBSET Handlers : Die(lost)

Spec == Init /\ [][Next]_vars
=============================================================================
