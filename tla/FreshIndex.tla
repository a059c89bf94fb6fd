----------------------------- MODULE FreshIndex -----------------------------
(***************************************************************************)
(* What placement may rely on from a replica's capacity index: for every   *)
(* cell the last accepted heartbeat while it is no older than the          *)
(* staleness window, and nothing after that.  There is no sweeper, no      *)
(* retention and no bookkeeping here; a cell leaves the view because time  *)
(* passed or because it was decommissioned, and for no other reason.       *)
(***************************************************************************)
EXTENDS CapacityReport

CONSTANTS Cells, Reports, Staleness, None

VARIABLE view

Init == view = [c \in Cells |-> None]

\* A usable heartbeat becomes the cell's entry.
Accept(c, r) ==
  /\ Validate(r)
  /\ view' = [view EXCEPT ![c] = [report |-> r, age |-> 0]]

\* The cell was decommissioned.
Drop(c) == view' = [view EXCEPT ![c] = None]

\* Time passes: every entry ages, and one too old to trust is gone.
Age ==
  view' = [c \in Cells |->
             IF view[c] = None \/ view[c].age = Staleness
             THEN None
             ELSE [view[c] EXCEPT !.age = @ + 1]]

Next ==
  \/ \E c \in Cells, r \in Reports : Accept(c, r)
  \/ \E c \in Cells : Drop(c)
  \/ Age

Spec == Init /\ [][Next]_view
=============================================================================
