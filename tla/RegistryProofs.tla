--------------------------- MODULE RegistryProofs ---------------------------
(***************************************************************************)
(* The objects of the registry and what their statuses say.                *)
(* ClusterRegistry, for any cells, and TrustConfig, for any set of specs;  *)
(* both for any number of edits, failures and restarts.                    *)
(***************************************************************************)
EXTENDS ClusterRegistry, TrustConfig, TLAPS

-----------------------------------------------------------------------------
(***************************************************************************)
(* What the reconciler of Clusters rests on: a copy of a Cluster, in the   *)
(* cache, that has the version of the stored one is the stored one, also   *)
(* when the cell was deleted and registered again since.                   *)
(***************************************************************************)
\* The types the argument needs.
Typed ==
  /\ cells \in [Cells -> Cluster \cup {None}]
  /\ cache = [cells |-> cache.cells, policy |-> cache.policy]
  /\ cache.cells \in [Cells -> Cluster \cup {None}]
  /\ change \in [cell : Cells, read : Cluster, desired : States] \cup {None}
  /\ spent \in Nat

\* What is true of a Cluster: its status speaks of a generation it has had,
\* truly if it is the current one, and was written once for each of some.
Truthful(cl) ==
  /\ cl.gen >= 1
  /\ cl.status = None => cl.writes = 0
  /\ cl.status # None =>
       /\ cl.status.gen <= cl.gen /\ cl.writes <= cl.status.gen
       /\ cl.status.gen = cl.gen => cl.status = StatusOf(cl)

\* x was read when the object was what y is now, or earlier.
Earlier(x, y) ==
  \/ x = y
  \/ /\ x.gen <= y.gen /\ x.relabels <= y.relabels /\ x.writes <= y.writes
     /\ x.gen < y.gen \/ x.relabels < y.relabels \/ x.writes < y.writes

\* x is a copy, made now or earlier, of an object called as y is.  An object
\* that was deleted has another uid than the one that took its name.
Copy(x, y, n) ==
  x # None => x.uid < n /\ (y # None /\ x.uid = y.uid => Earlier(x, y))

Good(c) ==
  /\ cells[c] # None => cells[c].uid < spent /\ Truthful(cells[c])
  /\ Copy(cache.cells[c], cells[c], spent)

IInv == Typed /\ \A c \in Cells : Good(c)

-----------------------------------------------------------------------------
\* What a step makes of one object: nothing, none, a new one, or a version of
\* it that comes later.
Evolves(x, y, n) ==
  \/ y = x
  \/ y = None
  \/ x = None /\ y.uid = n
  \/ x # None /\ y.uid = x.uid /\ Earlier(x, y)

LEMMA EarlierTransitive ==
  ASSUME NEW x \in Cluster, NEW y \in Cluster, NEW z \in Cluster,
         Earlier(x, y), Earlier(y, z)
  PROVE  Earlier(x, z)
<1>1. /\ x.gen \in Nat /\ x.relabels \in Nat /\ x.writes \in Nat
      /\ y.gen \in Nat /\ y.relabels \in Nat /\ y.writes \in Nat
      /\ z.gen \in Nat /\ z.relabels \in Nat /\ z.writes \in Nat
  BY DEF Cluster
<1>2. CASE x = y \/ y = z
  BY <1>2
<1>3. CASE x # y /\ y # z
  BY <1>1, <1>3 DEF Earlier
<1> QED
  BY <1>2, <1>3

\* A copy stays a copy.
LEMMA CopyStays ==
  ASSUME NEW x \in Cluster \cup {None}, NEW y \in Cluster \cup {None},
         NEW z \in Cluster \cup {None}, NEW n \in Nat, NEW m \in Nat, n <= m,
         Copy(x, y, n), Evolves(y, z, n)
  PROVE  Copy(x, z, m)
<1> SUFFICES ASSUME x # None
             PROVE  x.uid < m /\ (z # None /\ x.uid = z.uid => Earlier(x, z))
  BY DEF Copy
<1>1. x \in Cluster /\ x.uid \in Nat /\ x.uid < n /\ x.uid # n
  <2>1. x \in Cluster
    OBVIOUS
  <2>2. x.uid \in Nat
    BY <2>1 DEF Cluster
  <2> QED
    BY <2>1, <2>2 DEF Copy
<1>2. x.uid < m
  BY <1>1
<1>3. ASSUME z # None, x.uid = z.uid PROVE Earlier(x, z)
  <2>1. z \in Cluster
    BY <1>3
  <2>2. CASE z = y
    BY <1>3, <2>2, Zenon DEF Copy
  <2>3. CASE y = None /\ z.uid = n
    BY <1>1, <1>3, <2>3
  <2>4. CASE y # None /\ z.uid = y.uid /\ Earlier(y, z)
    <3>1. y \in Cluster /\ Earlier(x, y)
      BY <1>3, <2>4 DEF Copy
    <3> QED
      BY <1>1, <2>1, <2>4, <3>1, EarlierTransitive
  <2> QED
    BY <1>3, <2>2, <2>3, <2>4 DEF Evolves
<1> QED
  BY <1>2, <1>3

\* A step at one object, or at none.
LEMMA ObjectStep ==
  ASSUME IInv, NEW c \in Cells, NEW y \in Cluster \cup {None},
         cells' = [cells EXCEPT ![c] = y], cache' = cache,
         change' \in [cell : Cells, read : Cluster, desired : States] \cup {None},
         spent' \in Nat, spent <= spent',
         Evolves(cells[c], y, spent),
         y # None => y.uid < spent' /\ Truthful(y)
  PROVE  IInv'
<1>1. /\ cells \in [Cells -> Cluster \cup {None}] /\ spent \in Nat
      /\ cache.cells \in [Cells -> Cluster \cup {None}]
      /\ \A d \in Cells : cells[d] \in Cluster \cup {None}
      /\ \A d \in Cells : cache.cells[d] \in Cluster \cup {None}
  BY DEF IInv, Typed
<1>2. cells' \in [Cells -> Cluster \cup {None}]
  BY <1>1, Zenon
<1>3. Typed'
  BY <1>2 DEF IInv, Typed
<1>4. cells'[c] = y /\ \A d \in Cells \ {c} : cells'[d] = cells[d]
  BY <1>1, Zenon
<1>5. ASSUME NEW d \in Cells PROVE Good(d)'
  <2>1. Good(d)
    BY DEF IInv
  <2>2. Evolves(cells[d], cells'[d], spent)
    BY <1>4, Zenon DEF Evolves
  <2>3. Copy(cache.cells[d], cells'[d], spent')
    <3>1. cells'[d] \in Cluster \cup {None}
      BY <1>2, Zenon
    <3> QED
      BY <1>1, <2>1, <2>2, <3>1, CopyStays, Zenon DEF Good
  <2>4. ASSUME cells'[d] # None PROVE cells'[d].uid < spent' /\ Truthful(cells'[d])
    <3>1. CASE d = c
      BY <1>4, <2>4, <3>1, Zenon
    <3>2. CASE d # c
      <4>1. cells'[d] = cells[d] /\ cells[d] \in Cluster
        BY <1>1, <1>4, <2>4, <3>2, Zenon
      <4>2. cells[d].uid < spent /\ Truthful(cells[d]) /\ cells[d].uid \in Nat
        BY <2>1, <2>4, <4>1 DEF Good, Cluster
      <4> QED
        BY <1>1, <4>1, <4>2
    <3> QED
      BY <3>1, <3>2, Zenon
  <2> QED
    BY <2>3, <2>4, Zenon DEF Good
<1> QED
  BY <1>3, <1>5, Zenon DEF IInv

\* A step that leaves the objects alone; of the cache it may refresh some.
LEMMA CacheStep ==
  ASSUME IInv, UNCHANGED cells,
         cache' = [cells |-> cache'.cells, policy |-> cache'.policy],
         cache'.cells \in [Cells -> Cluster \cup {None}],
         \A c \in Cells : cache'.cells[c] \in {cache.cells[c], cells[c]},
         change' \in [cell : Cells, read : Cluster, desired : States] \cup {None},
         spent' \in Nat, spent <= spent'
  PROVE  IInv'
<1>1. Typed'
  BY DEF IInv, Typed
<1>2. ASSUME NEW c \in Cells PROVE Good(c)'
  <2>1. /\ Good(c) /\ cells[c] \in Cluster \cup {None} /\ spent \in Nat
        /\ cache.cells[c] \in Cluster \cup {None}
    BY DEF IInv, Typed
  <2>2. Evolves(cells[c], cells[c], spent)
    BY DEF Evolves
  <2>3. Copy(cache.cells[c], cells[c], spent')
    BY <2>1, <2>2, CopyStays, Zenon DEF Good
  <2>4. ASSUME cells[c] # None
        PROVE  cells[c].uid < spent' /\ Truthful(cells[c])
    <3>1. cells[c].uid < spent /\ Truthful(cells[c]) /\ cells[c].uid \in Nat
      BY <2>1, <2>4 DEF Good, Cluster
    <3> QED
      BY <2>1, <3>1
  <2>5. Copy(cells[c], cells[c], spent')
    BY <2>4, Zenon DEF Copy, Earlier
  <2>6. Copy(cache'.cells[c], cells[c], spent')
    BY <2>3, <2>5, Zenon
  <2> QED
    BY <2>4, <2>6, Zenon DEF Good
<1> QED
  BY <1>1, <1>2, Zenon DEF IInv

-----------------------------------------------------------------------------
(***************************************************************************)
(* One lemma per kind of step.                                             *)
(***************************************************************************)
LEMMA Spending ==
  ASSUME IInv, Spend
  PROVE  spent \in Nat /\ spent' \in Nat /\ spent < spent' /\ spent <= spent'
BY DEF IInv, Typed, Spend

LEMMA RegisterStep ==
  ASSUME IInv, NEW c \in Cells, NEW reg \in Registrations, Register(c, reg)
  PROVE  IInv'
<1> DEFINE state == IF reg.state = Omitted THEN "LIVE" ELSE reg.state
           y == [uid |-> spent, state |-> state, labelled |-> reg.labelled,
                 gen |-> 1, relabels |-> 0, writes |-> 0, status |-> None]
<1>1. spent \in Nat /\ spent' \in Nat /\ spent < spent' /\ spent <= spent'
  BY Spending DEF Register
<1>2. state \in States /\ reg.labelled \in BOOLEAN
  BY Zenon DEF Registrations, States
<1>3. y = New([reg EXCEPT !.state = IF @ = Omitted THEN "LIVE" ELSE @])
  BY DEF New, Registrations
<1>4. cells' = [cells EXCEPT ![c] = y] /\ cells[c] = None
  BY <1>3, Zenon DEF Register
<1> HIDE DEF state
<1>5. /\ y \in Cluster /\ y.uid = spent /\ y.gen = 1 /\ y.writes = 0
      /\ y.status = None
  BY <1>1, <1>2 DEF Cluster
<1> HIDE DEF y
<1>6. Evolves(cells[c], y, spent) /\ y.uid < spent' /\ Truthful(y)
  BY <1>1, <1>4, <1>5 DEF Evolves, Truthful
<1>7. /\ cache' = cache
      /\ change' \in [cell : Cells, read : Cluster, desired : States] \cup {None}
  BY DEF Register, IInv, Typed
<1> QED
  BY <1>1, <1>4, <1>5, <1>6, <1>7, ObjectStep, Zenon

\* An edit of the state is a new generation; the status stays as it was.
LEMMA NewState ==
  ASSUME NEW old \in Cluster, Truthful(old), NEW state \in States, NEW n
  PROVE  LET y == [old EXCEPT !.state = state, !.gen = old.gen + 1] IN
         /\ y \in Cluster /\ y.uid = old.uid /\ Truthful(y)
         /\ Evolves(old, y, n)
<1> DEFINE g == old.gen + 1
           y == [old EXCEPT !.state = state, !.gen = g]
<1>1. /\ old.gen \in Nat /\ g \in Nat /\ old.relabels \in Nat /\ old.writes \in Nat
      /\ old.status # None => old.status.gen \in Nat
  BY DEF Cluster, ClusterStatus
<1>2. /\ y \in Cluster /\ y.uid = old.uid /\ y.gen = g
      /\ y.relabels = old.relabels /\ y.writes = old.writes
      /\ y.status = old.status
  <2> HIDE DEF g
  <2>1. y \in Cluster
    BY <1>1, Zenon DEF Cluster
  <2>2. /\ y.uid = old.uid /\ y.gen = g
        /\ y.relabels = old.relabels /\ y.writes = old.writes
        /\ y.status = old.status
    BY DEF Cluster
  <2> QED
    BY <2>1, <2>2
<1> HIDE DEF y
<1>3. Truthful(y)
  BY <1>1, <1>2 DEF Truthful
<1>4. old # None
  BY NoneAssumption
<1>5. Evolves(old, y, n)
  BY <1>1, <1>2, <1>4 DEF Evolves, Earlier
<1> QED
  BY <1>2, <1>3, <1>5 DEF y

\* What an object in the registry has.
LEMMA ObjectFacts ==
  ASSUME IInv, NEW c \in Cells, cells[c] # None
  PROVE  /\ cells[c] \in Cluster /\ Truthful(cells[c])
         /\ cells[c].uid \in Nat /\ cells[c].uid < spent
         /\ spent \in Nat
BY DEF IInv, Typed, Good, Cluster

LEMMA StateStep ==
  ASSUME IInv, NEW c \in Cells, cells[c] # None, NEW state \in States,
         cells' = [cells EXCEPT ![c] =
           [cells[c] EXCEPT !.state = state, !.gen = cells[c].gen + 1]],
         cache' = cache,
         change' \in [cell : Cells, read : Cluster, desired : States] \cup {None},
         spent' \in Nat, spent <= spent'
  PROVE  IInv'
<1> DEFINE y == [cells[c] EXCEPT !.state = state, !.gen = cells[c].gen + 1]
<1>1. /\ cells[c] \in Cluster /\ Truthful(cells[c])
      /\ cells[c].uid \in Nat /\ cells[c].uid < spent /\ spent \in Nat
  BY ObjectFacts
<1>2. /\ y \in Cluster /\ y.uid = cells[c].uid /\ Truthful(y)
      /\ Evolves(cells[c], y, spent)
  BY <1>1, NewState, Zenon
<1>3. cells' = [cells EXCEPT ![c] = y]
  OBVIOUS
<1> HIDE DEF y
<1>4. y.uid < spent'
  BY <1>1, <1>2
<1> QED
  BY <1>2, <1>3, <1>4, ObjectStep, Zenon

LEMMA PatchStep ==
  ASSUME IInv, PatchState PROVE IInv'
<1> DEFINE c == change.cell
           old == cells[c]
           same == \/ old = None \/ change.read.state = change.desired
                   \/ old.state = change.desired
<1>1. /\ c \in Cells /\ change.desired \in States
      /\ cells \in [Cells -> Cluster \cup {None}] /\ spent \in Nat
  BY DEF PatchState, IInv, Typed
<1>2. /\ cache' = cache /\ change' = None /\ spent' = spent
      /\ spent' \in Nat /\ spent <= spent'
  BY <1>1 DEF PatchState
<1>3. CASE same
  <2>1. UNCHANGED cells
    BY <1>1, <1>3 DEF PatchState
  <2>2. cache' = [cells |-> cache'.cells, policy |-> cache'.policy]
    BY <1>2 DEF IInv, Typed
  <2>3. cache'.cells \in [Cells -> Cluster \cup {None}]
    BY <1>2 DEF IInv, Typed
  <2> QED
    BY <1>2, <2>1, <2>2, <2>3, CacheStep
<1>4. CASE ~same
  <2>1. /\ old # None
        /\ cells' = [cells EXCEPT ![c] =
             [old EXCEPT !.state = change.desired, !.gen = old.gen + 1]]
    BY <1>4 DEF PatchState
  <2> QED
    BY <1>1, <1>2, <2>1, StateStep, Zenon
<1> QED
  BY <1>3, <1>4

LEMMA EditStateStep ==
  ASSUME IInv, NEW c \in Cells, NEW state \in States, EditState(c, state)
  PROVE  IInv'
<1>1. spent \in Nat /\ spent' \in Nat /\ spent < spent' /\ spent <= spent'
  BY Spending DEF EditState
<1>2. /\ cells[c] # None /\ cache' = cache
      /\ change' \in [cell : Cells, read : Cluster, desired : States] \cup {None}
  BY DEF EditState, IInv, Typed
<1>3. cells' = [cells EXCEPT ![c] =
        [cells[c] EXCEPT !.state = state, !.gen = cells[c].gen + 1]]
  BY Zenon DEF EditState, IInv, Typed
<1> QED
  BY <1>1, <1>2, <1>3, StateStep, Zenon

LEMMA RelabelStep ==
  ASSUME IInv, NEW c \in Cells, Relabel(c) PROVE IInv'
<1> DEFINE old == cells[c]
           n == old.relabels + 1
           y == [old EXCEPT !.labelled = ~old.labelled, !.relabels = n]
<1>1. spent \in Nat /\ spent' \in Nat /\ spent < spent' /\ spent <= spent'
  BY Spending DEF Relabel
<1>2. /\ old # None /\ old \in Cluster /\ Truthful(old)
      /\ old.uid \in Nat /\ old.uid < spent
  BY ObjectFacts DEF Relabel
<1>3. cells' = [cells EXCEPT ![c] = y]
  BY Zenon DEF Relabel, IInv, Typed
<1>4. /\ old.gen \in Nat /\ old.relabels \in Nat /\ old.writes \in Nat
      /\ y \in Cluster /\ y.uid = old.uid /\ y.gen = old.gen
      /\ y.relabels = n /\ y.writes = old.writes
      /\ y.status = old.status /\ y.state = old.state
  <2>1. /\ old.gen \in Nat /\ old.relabels \in Nat /\ old.writes \in Nat
        /\ n \in Nat
    BY <1>2 DEF Cluster
  <2> HIDE DEF n
  <2>2. y \in Cluster
    BY <1>2, <2>1, Zenon DEF Cluster
  <2>3. /\ y.uid = old.uid /\ y.gen = old.gen
        /\ y.relabels = n /\ y.writes = old.writes
        /\ y.status = old.status /\ y.state = old.state
    BY <1>2 DEF Cluster
  <2> QED
    BY <2>1, <2>2, <2>3
<1> HIDE DEF y
<1>5. Truthful(y)
  BY <1>2, <1>4 DEF Truthful, StatusOf
<1>6. Evolves(old, y, spent) /\ y.uid < spent'
  BY <1>1, <1>2, <1>4 DEF Evolves, Earlier
<1>7. /\ cache' = cache
      /\ change' \in [cell : Cells, read : Cluster, desired : States] \cup {None}
  BY DEF Relabel, IInv, Typed
<1> QED
  BY <1>1, <1>3, <1>4, <1>5, <1>6, <1>7, ObjectStep, Zenon

LEMMA DeleteStep ==
  ASSUME IInv, NEW c \in Cells, Delete(c) PROVE IInv'
<1>1. spent \in Nat /\ spent' \in Nat /\ spent < spent' /\ spent <= spent'
  BY Spending DEF Delete
<1>2. /\ cells' = [cells EXCEPT ![c] = None] /\ cache' = cache
      /\ change' \in [cell : Cells, read : Cluster, desired : States] \cup {None}
  BY DEF Delete, IInv, Typed
<1>3. Evolves(cells[c], None, spent) /\ None \in Cluster \cup {None}
  BY DEF Evolves
<1> QED
  BY <1>1, <1>2, <1>3, ObjectStep, Zenon

\* A step at neither the objects nor the cells in the cache.
LEMMA IdleStep ==
  ASSUME IInv, UNCHANGED cells,
         cache' = [cells |-> cache'.cells, policy |-> cache'.policy],
         cache'.cells = cache.cells,
         change' \in [cell : Cells, read : Cluster, desired : States] \cup {None},
         spent' \in Nat, spent <= spent'
  PROVE  IInv'
<1>1. /\ cache'.cells \in [Cells -> Cluster \cup {None}]
      /\ \A c \in Cells : cache'.cells[c] \in {cache.cells[c], cells[c]}
  BY DEF IInv, Typed
<1> QED
  BY <1>1, CacheStep

\* What a step that leaves the cache alone may take from Typed.
LEMMA Frame ==
  ASSUME IInv
  PROVE  /\ spent \in Nat /\ spent <= spent
         /\ cache = [cells |-> cache.cells, policy |-> cache.policy]
         /\ change \in [cell : Cells, read : Cluster, desired : States] \cup {None}
         /\ cells \in [Cells -> Cluster \cup {None}]
         /\ cache.cells \in [Cells -> Cluster \cup {None}]
BY DEF IInv, Typed

\* The reconciler writes only what the version it read still says.
LEMMA ReconcileCellStep ==
  ASSUME IInv, NEW c \in Cells, ReconcileCell(c) PROVE IInv'
<1> DEFINE cl == cache.cells[c]
           old == cells[c]
           st == StatusOf(cl)
           n == old.writes + 1
           y == [old EXCEPT !.status = st, !.writes = n]
<1>1. cache' = cache /\ change' = change /\ spent' = spent
  BY DEF ReconcileCell
<1>2. CASE UNCHANGED cells
  BY <1>1, <1>2, Frame, IdleStep, Zenon
<1>3. ASSUME cl # None, cl.status # st, SameVersion(cl, old), Publish(c, st)
      PROVE  IInv'
  <2>1. old # None /\ cl \in Cluster /\ cells \in [Cells -> Cluster \cup {None}]
    BY <1>3, Frame DEF SameVersion
  <2>2. /\ old \in Cluster /\ Truthful(old)
        /\ old.uid \in Nat /\ old.uid < spent /\ spent \in Nat
    BY <2>1, ObjectFacts
  <2>3. cl = old
    <3>1. /\ cl.uid = old.uid /\ cl.gen = old.gen
          /\ cl.relabels = old.relabels /\ cl.writes = old.writes
      BY <1>3 DEF SameVersion
    <3>2. Earlier(cl, old)
      BY <1>3, <2>1, <3>1 DEF IInv, Good, Copy
    <3>3. old.gen \in Nat /\ old.relabels \in Nat /\ old.writes \in Nat
      BY <2>2 DEF Cluster
    <3> QED
      BY <3>1, <3>2, <3>3 DEF Earlier
  <2>4. cells' = [cells EXCEPT ![c] = y]
    BY <1>3, <2>1, <2>2, Zenon DEF Publish
  <2>5. /\ old.gen \in Nat /\ old.relabels \in Nat /\ old.writes \in Nat
        /\ n \in Nat /\ old.state \in States
        /\ old.status # None => old.status.gen \in Nat
    BY <2>2 DEF Cluster, ClusterStatus
  <2>6. /\ st \in ClusterStatus /\ st # None /\ st.gen = old.gen
        /\ st = StatusOf(old)
    <3>1. st = StatusOf(old)
      BY <2>3
    <3>2. StatusOf(old) \in ClusterStatus /\ StatusOf(old).gen = old.gen
      BY <2>5 DEF StatusOf, ClusterStatus
    <3> HIDE DEF st
    <3> QED
      BY <3>1, <3>2, NoneAssumption
  <2>7. n <= old.gen
    <3>1. CASE old.status = None
      BY <2>2, <2>5, <3>1 DEF Truthful
    <3>2. CASE old.status # None
      <4>1. old.status # StatusOf(old)
        BY <1>3, <2>3
      <4>2. /\ old.status.gen <= old.gen /\ old.writes <= old.status.gen
            /\ old.status.gen # old.gen
        BY <2>2, <3>2, <4>1 DEF Truthful
      <4> QED
        BY <2>5, <3>2, <4>2
    <3> QED
      BY <3>1, <3>2
  <2>8. /\ y \in Cluster /\ y.uid = old.uid /\ y.gen = old.gen
        /\ y.relabels = old.relabels /\ y.writes = n
        /\ y.status = st /\ y.state = old.state
    <3> HIDE DEF st, n
    <3>1. y \in Cluster
      BY <2>2, <2>5, <2>6, Zenon DEF Cluster
    <3>2. /\ y.uid = old.uid /\ y.gen = old.gen
          /\ y.relabels = old.relabels /\ y.writes = n
          /\ y.status = st /\ y.state = old.state
      BY <2>2 DEF Cluster
    <3> QED
      BY <3>1, <3>2
  <2> HIDE DEF y, st
  <2>9. Truthful(y)
    <3>1. StatusOf(y) = StatusOf(old)
      BY <2>8 DEF StatusOf
    <3>2. old.gen >= 1
      BY <2>2 DEF Truthful
    <3> HIDE DEF n
    <3> QED
      BY <2>5, <2>6, <2>7, <2>8, <3>1, <3>2 DEF Truthful
  <2>10. Evolves(old, y, spent)
    BY <2>1, <2>5, <2>8 DEF Evolves, Earlier
  <2> QED
    BY <1>1, <2>2, <2>4, <2>8, <2>9, <2>10, Frame, ObjectStep, Zenon
<1> QED
  BY <1>2, <1>3, Zenon DEF ReconcileCell, Equal

LEMMA SyncCellStep ==
  ASSUME IInv, NEW c \in Cells, SyncCell(c) PROVE IInv'
<1> DEFINE k == [cache.cells EXCEPT ![c] = cells[c]]
<1>1. cache' = [cells |-> k, policy |-> cache.policy]
  BY Frame DEF SyncCell
<1>2. cache' = [cells |-> cache'.cells, policy |-> cache'.policy] /\ cache'.cells = k
  BY <1>1
<1>3. /\ k \in [Cells -> Cluster \cup {None}]
      /\ \A d \in Cells : k[d] \in {cache.cells[d], cells[d]}
  BY Frame
<1>4. cells' = cells /\ change' = change /\ spent' = spent
  BY DEF SyncCell, Objects
<1> QED
  BY <1>2, <1>3, <1>4, Frame, CacheStep

LEMMA RestartStep ==
  ASSUME IInv, Restart PROVE IInv'
<1>1. spent \in Nat /\ spent' \in Nat /\ spent < spent' /\ spent <= spent'
  BY Spending DEF Restart
<1>2. /\ cache' = [cells |-> cells, policy |-> policy] /\ change' = None
      /\ cells' = cells
  BY DEF Restart, Objects
<1>3. /\ cache' = [cells |-> cache'.cells, policy |-> cache'.policy]
      /\ cache'.cells = cells
  BY <1>2
<1> QED
  BY <1>1, <1>2, <1>3, Frame, CacheStep

LEMMA SyncPolicyStep ==
  ASSUME IInv, SyncPolicy PROVE IInv'
<1>1. cache' = [cells |-> cache.cells, policy |-> policy]
  BY Frame DEF SyncPolicy
<1>2. /\ cache' = [cells |-> cache'.cells, policy |-> cache'.policy]
      /\ cache'.cells = cache.cells
  BY <1>1
<1>3. cells' = cells /\ change' = change /\ spent' = spent
  BY DEF SyncPolicy, Objects
<1> QED
  BY <1>2, <1>3, Frame, IdleStep

LEMMA ReadStateStep ==
  ASSUME IInv, NEW c \in Cells, NEW desired \in States, ReadState(c, desired)
  PROVE  IInv'
<1>1. spent \in Nat /\ spent' \in Nat /\ spent < spent' /\ spent <= spent'
  BY Spending DEF ReadState
<1>2. cells' = cells /\ cache' = cache
  BY DEF ReadState, Objects
<1>3. cache.cells[c] \in Cluster
  BY Frame DEF ReadState
<1>4. change' \in [cell : Cells, read : Cluster, desired : States] \cup {None}
  BY <1>3 DEF ReadState
<1> QED
  BY <1>1, <1>2, <1>4, Frame, IdleStep

LEMMA InitIInv == Init => IInv
<1> SUFFICES ASSUME Init PROVE IInv
  OBVIOUS
<1>1. Typed
  BY DEF Init, Typed
<1>2. ASSUME NEW c \in Cells PROVE Good(c)
  BY DEF Init, Good, Copy
<1> QED
  BY <1>1, <1>2 DEF IInv

LEMMA NextIInv == IInv /\ [Next]_vars => IInv'
<1> SUFFICES ASSUME IInv, [Next]_vars PROVE IInv'
  OBVIOUS
<1>1. ASSUME NEW v \in BOOLEAN, NEW t \in BOOLEAN, CreatePolicy(v, t) PROVE IInv'
  BY <1>1, Spending, Frame, IdleStep DEF CreatePolicy
<1>2. CASE EditPolicy
  BY <1>2, Spending, Frame, IdleStep DEF EditPolicy
<1>3. CASE ReconcilePolicy
  BY <1>3, Frame, IdleStep DEF ReconcilePolicy
<1>4. CASE UNCHANGED vars
  BY <1>4, Frame, IdleStep DEF vars
<1> QED
  BY <1>1, <1>2, <1>3, <1>4, RegisterStep, ReadStateStep, PatchStep,
     EditStateStep, RelabelStep, DeleteStep, SyncCellStep, ReconcileCellStep,
     SyncPolicyStep, RestartStep DEF Next, Api, Operator

LEMMA IInvAlways == Spec => []IInv
BY InitIInv, NextIInv, PTL DEF Spec

-----------------------------------------------------------------------------
\* However often a cell is edited, deleted and registered again, and whatever
\* the cache holds of it: a status that names the current generation tells
\* the current state (ClusterReconciler.Reconcile and its Update).
THEOREM StatusIsTrue == Spec => []ClaimedGenerationIsTrue
<1>1. IInv => ClaimedGenerationIsTrue
  BY DEF IInv, Good, Truthful, ClaimedGenerationIsTrue
<1> QED
  BY IInvAlways, <1>1, PTL

\* A status is written at most once for a generation, whoever is elected and
\* however stale its cache is (equality in ClusterReconciler.Reconcile).
THEOREM WritesAreFew == Spec => []WritesFollowEdits
<1>1. IInv => WritesFollowEdits
  <2> SUFFICES ASSUME IInv, NEW c \in Cells, cells[c] # None
               PROVE  cells[c].writes <= cells[c].gen
    BY DEF WritesFollowEdits
  <2>1. cells[c] \in Cluster /\ Truthful(cells[c])
    BY ObjectFacts
  <2>2. /\ cells[c].writes \in Nat /\ cells[c].gen \in Nat
        /\ cells[c].status # None => cells[c].status.gen \in Nat
    BY <2>1 DEF Cluster, ClusterStatus
  <2> QED
    BY <2>1, <2>2 DEF Truthful
<1> QED
  BY IInvAlways, <1>1, PTL

\* A state change touches only the state, whatever was edited since it read
\* the cell (handleSetClusterState's merge patch).
THEOREM ChangeIsConfined == Spec => StateChangeIsConfined
<1> DEFINE Confined ==
      change # None /\ change' = None /\ spent' = spent
        /\ cells[change.cell] # None =>
      LET old == cells[change.cell] new == cells'[change.cell] IN
      /\ new.labelled = old.labelled /\ new.status = old.status
      /\ \/ new.state = change.desired
         \/ new.state = old.state /\ change.read.state # old.state
<1>1. ASSUME IInv, PatchState PROVE Confined
  <2> SUFFICES ASSUME cells[change.cell] # None
               PROVE  LET old == cells[change.cell] new == cells'[change.cell] IN
                      /\ new.labelled = old.labelled /\ new.status = old.status
                      /\ \/ new.state = change.desired
                         \/ new.state = old.state /\ change.read.state # old.state
    OBVIOUS
  <2> DEFINE old == cells[change.cell]
             g == old.gen + 1
             y == [old EXCEPT !.state = change.desired, !.gen = g]
  <2>1. /\ change.cell \in Cells /\ old \in Cluster
        /\ cells \in [Cells -> Cluster \cup {None}]
    BY <1>1 DEF PatchState, IInv, Typed
  <2>2. y.labelled = old.labelled /\ y.status = old.status /\ y.state = change.desired
    <3> HIDE DEF g
    <3> QED
      BY <2>1 DEF Cluster
  <2>3. CASE change.read.state = change.desired \/ old.state = change.desired
    <3>1. cells'[change.cell] = old
      BY <1>1, <2>1, <2>3 DEF PatchState
    <3> QED
      BY <2>3, <3>1
  <2>4. CASE ~(change.read.state = change.desired \/ old.state = change.desired)
    <3>1. cells'[change.cell] = y
      BY <1>1, <2>1, <2>4, Zenon DEF PatchState
    <3> HIDE DEF y
    <3> QED
      BY <2>2, <3>1
  <2> QED
    BY <2>3, <2>4
<1>2. ASSUME IInv, [Next]_vars, ~PatchState PROVE Confined
  <2>1. ASSUME Spend PROVE spent' # spent
    BY <1>2, <2>1, Spending
  <2>2. change' = change \/ Spend
    BY <1>2, Zenon DEF Next, Api, Operator, vars, Register, ReadState,
       EditState, Relabel, Delete, CreatePolicy, EditPolicy, SyncCell,
       SyncPolicy, ReconcileCell, ReconcilePolicy, Restart
  <2> QED
    BY <2>1, <2>2
<1>3. IInv /\ [Next]_vars => [Confined]_vars
  BY <1>1, <1>2
<1> QED
  BY InitIInv, NextIInv, <1>3, PTL DEF Spec, StateChangeIsConfined


-----------------------------------------------------------------------------
(***************************************************************************)
(* What the status of a trust configuration is worth.                      *)
(***************************************************************************)
\* c was read of the trust configuration there is, of an earlier one, or of
\* none: a copy of its uid and generation has its spec.
ReadOf(c) ==
  c # Nil =>
    /\ c.uid < trustSpent
    /\ trust # Nil /\ c.uid = trust.uid =>
         /\ c.gen <= trust.gen
         /\ c.gen = trust.gen => c.spec = trust.spec

\* A status that is about the spec there is says what evaluate found of it,
\* with the Secret that was read then.
Justified ==
  trust # Nil /\ trust.status # Nil /\ trust.at = trust.gen =>
    trust.status = Evaluate(trust.spec, judged)

\* A mint goes on to connect with a configuration that ValidateTrust passed.
Passed ==
  mint.pc = "connect" =>
    mint.trust # Nil /\ ValidateTrust(mint.trust.spec) = "none"

TrustInv ==
  /\ TrustTypeOK
  /\ ReadOf(trust) /\ ReadOf(cached) /\ ReadOf(mint.trust)
  /\ trust # Nil => trust.at <= trust.gen
  /\ Justified /\ Passed

Findings == Secrets \cup {"unreadable"}
Mints == [pc : {"idle", "connect"}, trust : TrustType \cup {Nil},
          outcome : Outcomes]

\* What evaluate and ValidateTrust say of each other.
LEMMA Verdicts ==
  ASSUME NEW s \in Specs, NEW found \in Findings
  PROVE  /\ ValidateTrust(s) \in {"none", "ProviderNotImplemented", "TrustConfigInvalid"}
         /\ Evaluate(s, found) \in Verdict
         /\ Evaluate(s, found).reason = "Valid" =>
              /\ ValidateTrust(s) = "none"
              /\ s.secretRef # Nil => found \notin {"missing", "unreadable", "keyless"}
         /\ Evaluate(s, found).reason \in {"InvalidConfiguration", "ProviderNotImplemented"}
              => ValidateTrust(s) # "none"
<1>1. ValidateTrust(s) \in {"none", "ProviderNotImplemented", "TrustConfigInvalid"}
  BY Zenon DEF ValidateTrust
<1>2. /\ CheckSecret(found) \in Verdict
      /\ CheckSecret(found).reason = "Valid" =>
           found \notin {"missing", "unreadable", "keyless"}
      /\ CheckSecret(found).reason \notin {"InvalidConfiguration", "ProviderNotImplemented"}
  BY Zenon DEF CheckSecret, Verdict, Reasons, Findings, Secrets
<1>3. CASE ValidateTrust(s) = "ProviderNotImplemented"
  BY <1>3, Zenon DEF Evaluate, Verdict, Reasons
<1>4. CASE ValidateTrust(s) = "TrustConfigInvalid"
  BY <1>4, Zenon DEF Evaluate, Verdict, Reasons
<1>5. CASE ValidateTrust(s) = "none"
  <2>1. CASE s.secretRef # Nil
    BY <1>2, <1>5, <2>1, Zenon DEF Evaluate
  <2>2. CASE s.secretRef = Nil
    BY <1>5, <2>2, Zenon DEF Evaluate, Verdict, Reasons
  <2> QED
    BY <2>1, <2>2, Zenon
<1> QED
  BY <1>1, <1>3, <1>4, <1>5, Zenon

\* What ValidateTrust passes, restConfigFor fails only on its Secret.
LEMMA Connections ==
  ASSUME NEW s \in Specs, NEW found \in Findings, ValidateTrust(s) = "none"
  PROVE  /\ RestConfigFor(s, found) \in Outcomes
         /\ s.secretRef = Nil \/ found \notin {"missing", "keyless"} =>
              RestConfigFor(s, found) \in {"Connected", "Unparsable", "Unreadable"}
<1>1. s \in SpecType
  BY SpecsAssumption, Zenon
<1>2. s.inCluster # (s.secretRef # Nil)
  BY Zenon DEF ValidateTrust
<1>3. s.inCluster \in BOOLEAN
  BY <1>1, Zenon DEF SpecType
<1>4. CASE s.inCluster
  BY <1>4, Zenon DEF RestConfigFor, Outcomes
<1>5. CASE ~s.inCluster
  <2>1. s.secretRef # Nil
    BY <1>2, <1>3, <1>5, Zenon
  <2> QED
    BY <1>5, <2>1, Zenon DEF RestConfigFor, Outcomes, Findings, Secrets
<1> QED
  BY <1>4, <1>5, Zenon

LEMMA TrustInitInv == TrustInit => TrustInv
<1> SUFFICES ASSUME TrustInit PROVE TrustInv
  BY Zenon
<1>1. mint \in Mints /\ mint.trust = Nil /\ mint.pc = "idle"
  BY Zenon DEF TrustInit, Mints, Outcomes
<1>2. 0 \in 0..TrustBudget
  BY SpecsAssumption
<1>3. TrustTypeOK
  BY <1>1, <1>2, Zenon DEF TrustInit, TrustTypeOK, Mints
<1> QED
  BY <1>1, <1>3, Zenon DEF TrustInit, TrustInv, ReadOf, Justified, Passed

\* The types of the parts.
LEMMA TrustFacts ==
  ASSUME TrustInv
  PROVE  /\ trust # Nil => trust \in TrustType /\ trust.uid \in Nat /\ trust.gen \in Nat
                           /\ trust.at \in Nat /\ trust.spec \in Specs
         /\ cached # Nil => cached \in TrustType /\ cached.uid \in Nat /\ cached.gen \in Nat
                            /\ cached.at \in Nat /\ cached.spec \in Specs
         /\ mint.trust # Nil => /\ mint.trust \in TrustType /\ mint.trust.uid \in Nat
                                /\ mint.trust.gen \in Nat /\ mint.trust.spec \in Specs
         /\ mint \in Mints /\ trustSpent \in Nat
<1>1. /\ trust \in TrustType \cup {Nil} /\ cached \in TrustType \cup {Nil}
      /\ mint \in Mints /\ trustSpent \in Nat
  BY SpecsAssumption DEF TrustInv, TrustTypeOK, Mints
<1>2. mint.trust \in TrustType \cup {Nil}
  BY <1>1, Zenon DEF Mints
<1> QED
  BY <1>1, <1>2, Zenon DEF TrustType

\* An operator's step at the trust configuration, or at the Secret: another
\* one, or the same one with another spec under the next generation.
LEMMA OperatorStep ==
  ASSUME TrustInv, NEW t \in TrustType \cup {Nil}, trust' = t,
         \/ t = Nil \/ t = trust
         \/ t.uid = trustSpent /\ t.gen = 1 /\ t.status = Nil /\ t.at = 0
         \/ (trust # Nil /\ t.uid = trust.uid /\ t.gen = trust.gen + 1 /\ t.at = trust.at),
         secret' \in Secrets,
         trustSpent < TrustBudget, trustSpent' = trustSpent + 1,
         UNCHANGED <<cached, queued, mint, judged>>
  PROVE  TrustInv'
<1>1. TrustTypeOK'
  BY SpecsAssumption DEF TrustInv, TrustTypeOK
<1>2. t # Nil => t.uid \in Nat /\ t.gen \in Nat /\ t.at \in Nat
  BY Zenon DEF TrustType
<1>3. ReadOf(trust)'
  BY <1>2, TrustFacts DEF TrustInv, ReadOf
<1>4. ReadOf(cached)'
  BY <1>2, TrustFacts DEF TrustInv, ReadOf
<1>5. ReadOf(mint.trust)'
  BY <1>2, TrustFacts DEF TrustInv, ReadOf
<1>6. (trust # Nil => trust.at <= trust.gen)' /\ Justified'
  BY <1>2, TrustFacts DEF TrustInv, Justified
<1>7. Passed'
  BY Zenon DEF TrustInv, Passed
<1> QED
  BY <1>1, <1>3, <1>4, <1>5, <1>6, <1>7, Zenon DEF TrustInv

LEMMA OperatorInv ==
  ASSUME TrustInv,
         \/ \E s \in Specs : Create(s) \/ EditTrust(s)
         \/ DeleteTrust
         \/ \E s \in Secrets : EditSecret(s)
  PROVE  TrustInv'
<1>1. secret \in Secrets /\ trust \in TrustType \cup {Nil}
  BY Zenon DEF TrustInv, TrustTypeOK
<1>2. ASSUME NEW s \in Specs, Create(s) PROVE TrustInv'
  <2> DEFINE t == [uid |-> trustSpent, gen |-> 1, writes |-> 0, spec |-> s,
                   status |-> Nil, at |-> 0]
  <2>1. /\ t \in TrustType /\ t.uid = trustSpent /\ t.gen = 1 /\ t.status = Nil
        /\ t.at = 0
    BY TrustFacts, Zenon DEF TrustType, Status
  <2>2. /\ trust' = t /\ secret' = secret
        /\ trustSpent < TrustBudget /\ trustSpent' = trustSpent + 1
        /\ UNCHANGED <<cached, queued, mint, judged>>
    BY <1>2, Zenon DEF Create, SpendTrust
  <2> HIDE DEF t
  <2> QED
    BY <1>1, <2>1, <2>2, OperatorStep, Zenon
<1>3. ASSUME NEW s \in Specs, EditTrust(s) PROVE TrustInv'
  <2> DEFINE g == trust.gen + 1
             t == [trust EXCEPT !.spec = s, !.gen = g]
  <2>1. trust # Nil /\ trust \in TrustType /\ g \in Nat
    <3>1. trust # Nil
      BY <1>3, Zenon DEF EditTrust
    <3> QED
      BY <3>1, TrustFacts
  <2>2. /\ trust' = t /\ secret' = secret
        /\ trustSpent < TrustBudget /\ trustSpent' = trustSpent + 1
        /\ UNCHANGED <<cached, queued, mint, judged>>
    BY <1>3, Zenon DEF EditTrust, SpendTrust
  <2>3. g = trust.gen + 1
    BY Zenon
  <2> HIDE DEF g
  <2>4. t \in TrustType /\ t.uid = trust.uid /\ t.gen = g /\ t.at = trust.at
    BY <2>1, Zenon DEF TrustType
  <2> HIDE DEF t
  <2> QED
    BY <1>1, <2>1, <2>2, <2>3, <2>4, OperatorStep, Zenon
<1>4. CASE DeleteTrust
  <2>1. /\ trust' = Nil /\ secret' = secret
        /\ trustSpent < TrustBudget /\ trustSpent' = trustSpent + 1
        /\ UNCHANGED <<cached, queued, mint, judged>>
    BY <1>4, Zenon DEF DeleteTrust, SpendTrust
  <2> QED
    BY <1>1, <2>1, OperatorStep, Zenon
<1>5. ASSUME NEW s \in Secrets, EditSecret(s) PROVE TrustInv'
  <2>1. /\ trust' = trust /\ secret' \in Secrets
        /\ trustSpent < TrustBudget /\ trustSpent' = trustSpent + 1
        /\ UNCHANGED <<cached, queued, mint, judged>>
    BY <1>5, Zenon DEF EditSecret, SpendTrust
  <2> QED
    BY <1>1, <2>1, OperatorStep, Zenon
<1> QED
  BY <1>2, <1>3, <1>4, <1>5, Zenon

\* A step of the hub that leaves the trust configuration: what it then holds
\* of it was read from the server or from what it held.
LEMMA HubStep ==
  ASSUME TrustInv, UNCHANGED <<trust, secret, judged>>,
         cached' = cached \/ cached' = trust,
         queued' \in BOOLEAN,
         mint' \in Mints, mint'.trust \in {Nil, cached, mint.trust}, Passed',
         trustSpent' \in 0..TrustBudget, trustSpent <= trustSpent'
  PROVE  TrustInv'
<1>1. TrustTypeOK'
  BY Zenon DEF TrustInv, TrustTypeOK, Mints
<1>2. trustSpent \in Nat /\ trustSpent' \in Nat
  BY TrustFacts, SpecsAssumption
<1>3. ReadOf(trust)'
  BY <1>2, TrustFacts DEF TrustInv, ReadOf
<1>4. ReadOf(cached)'
  BY <1>2, TrustFacts DEF TrustInv, ReadOf
<1>5. ReadOf(mint.trust)'
  BY <1>2, TrustFacts DEF TrustInv, ReadOf
<1>6. (trust # Nil => trust.at <= trust.gen)' /\ Justified'
  BY Zenon DEF TrustInv, Justified
<1> QED
  BY <1>1, <1>3, <1>4, <1>5, <1>6, Zenon DEF TrustInv

\* Reading the Secret.
LEMMA Reading ==
  ASSUME TrustInv, NEW s, NEW found, Read(s, found)
  PROVE  trustSpent' \in 0..TrustBudget /\ trustSpent <= trustSpent'
BY SpecsAssumption DEF TrustInv, TrustTypeOK, Read, SpendTrust

LEMMA HubInv ==
  ASSUME TrustInv, SyncTrust \/ RestartTrust \/ TrustFor \/ Connect PROVE TrustInv'
<1>1. /\ mint \in Mints /\ queued \in BOOLEAN /\ Passed
      /\ trustSpent \in 0..TrustBudget /\ trustSpent <= trustSpent
      /\ SpendTrust => trustSpent' \in 0..TrustBudget /\ trustSpent <= trustSpent'
  BY SpecsAssumption DEF TrustInv, TrustTypeOK, Mints, SpendTrust
<1>2. CASE SyncTrust
  <2>1. Passed'
    BY <1>1, <1>2, Zenon DEF SyncTrust, Passed
  <2> QED
    BY <1>1, <1>2, <2>1, HubStep, Zenon DEF SyncTrust
<1>3. CASE RestartTrust
  <2> DEFINE m == [pc |-> "idle", trust |-> Nil, outcome |-> "none"]
  <2>1. m \in Mints /\ m.pc = "idle" /\ m.trust = Nil
    BY Zenon DEF Mints, Outcomes
  <2>2. /\ mint' = m /\ cached' = trust /\ queued' \in BOOLEAN /\ SpendTrust
        /\ UNCHANGED <<trust, secret, judged>>
    BY <1>3, Zenon DEF RestartTrust
  <2> HIDE DEF m
  <2>3. Passed'
    BY <2>1, <2>2, Zenon DEF Passed
  <2> QED
    BY <1>1, <2>1, <2>2, <2>3, HubStep, Zenon
<1>4. CASE TrustFor
  <2> DEFINE error == IF cached = Nil THEN "TrustConfigMissing"
                      ELSE ValidateTrust(cached.spec)
             pc == IF error = "none" THEN "connect" ELSE "idle"
             m == [pc |-> pc, trust |-> cached, outcome |-> error]
  <2>1. error \in Outcomes /\ pc \in {"idle", "connect"}
    BY TrustFacts, Verdicts, Zenon DEF Outcomes, Findings
  <2>2. pc = "connect" => cached # Nil /\ ValidateTrust(cached.spec) = "none"
    BY Zenon
  <2>3. /\ mint' = m /\ SpendTrust
        /\ UNCHANGED <<trust, secret, cached, queued, judged>>
    BY <1>4, Zenon DEF TrustFor
  <2> HIDE DEF error, pc
  <2>4. m \in Mints /\ m.pc = pc /\ m.trust = cached
    BY <2>1, Zenon DEF Mints, TrustInv, TrustTypeOK
  <2> HIDE DEF m
  <2>5. Passed'
    BY <2>2, <2>3, <2>4, Zenon DEF Passed
  <2> QED
    BY <1>1, <2>3, <2>4, <2>5, HubStep, Zenon
<1>5. CASE Connect
  <2>1. PICK found \in Findings :
          /\ Read(mint.trust.spec, found)
          /\ mint' = [mint EXCEPT !.pc = "idle",
                        !.outcome = RestConfigFor(mint.trust.spec, found)]
    BY <1>5, Zenon DEF Connect, Findings
  <2> DEFINE o == RestConfigFor(mint.trust.spec, found)
             m == [mint EXCEPT !.pc = "idle", !.outcome = o]
  <2>2. o \in Outcomes
    BY <1>1, <1>5, TrustFacts, Connections, Zenon DEF Connect, Passed
  <2>3. mint' = m /\ UNCHANGED <<trust, secret, cached, queued, judged>>
    BY <1>5, <2>1, Zenon DEF Connect
  <2> HIDE DEF o
  <2>4. m \in Mints /\ m.pc = "idle" /\ m.trust = mint.trust
    BY <1>1, <2>2, Zenon DEF Mints
  <2> HIDE DEF m
  <2>5. Passed'
    BY <2>3, <2>4, Zenon DEF Passed
  <2>6. trustSpent' \in 0..TrustBudget /\ trustSpent <= trustSpent'
    BY <2>1, Reading, Zenon
  <2> QED
    BY <1>1, <2>3, <2>4, <2>5, <2>6, HubStep, Zenon
<1> QED
  BY <1>2, <1>3, <1>4, <1>5, Zenon

\* The status update is refused unless the cache has the trust configuration
\* there is, so what it says was found of the spec that is there.
LEMMA ReconcileInv == ASSUME TrustInv, Reconcile PROVE TrustInv'
<1>1. /\ mint \in Mints /\ queued \in BOOLEAN /\ Passed
      /\ mint.trust \in {Nil, cached, mint.trust}
      /\ trustSpent \in 0..TrustBudget /\ trustSpent <= trustSpent
      /\ UNCHANGED <<secret, cached, mint>> /\ Passed'
  BY SpecsAssumption DEF TrustInv, TrustTypeOK, Mints, Reconcile, Passed
<1>2. CASE cached = Nil
  BY <1>1, <1>2, HubStep, Zenon DEF Reconcile
<1>3. CASE cached # Nil
  <2>1. PICK found \in Findings :
          /\ Read(cached.spec, found)
          /\ PublishTrust(Evaluate(cached.spec, found), found,
                          Evaluate(cached.spec, found).reason # "Valid")
    BY <1>3, Zenon DEF Reconcile, Findings
  <2> DEFINE v == Evaluate(cached.spec, found)
             again == v.reason # "Valid"
  <2>2. v \in Verdict /\ again \in BOOLEAN
    BY <1>3, TrustFacts, Verdicts, Zenon
  <2>3. v = Evaluate(cached.spec, found) /\ PublishTrust(v, found, again)
    BY <2>1, Zenon
  <2> HIDE DEF v, again
  <2>4. trustSpent' \in 0..TrustBudget /\ trustSpent <= trustSpent'
    BY <2>1, Reading, Zenon
  <2>5. CASE UNCHANGED <<trust, judged>>
    <3>1. queued' \in BOOLEAN
      BY <2>2, <2>3, Zenon DEF PublishTrust
    <3> QED
      BY <1>1, <2>4, <2>5, <3>1, HubStep, Zenon
  <2>6. CASE ~UNCHANGED <<trust, judged>>
    <3> DEFINE g == cached.gen
               w == trust.writes + 1
               t == [trust EXCEPT !.status = v, !.at = g, !.writes = w]
    <3>1. /\ SameTrust(cached, trust) /\ trust' = t /\ judged' = found
          /\ queued' = again
      BY <2>3, <2>6, Zenon DEF PublishTrust
    <3>2. /\ trust # Nil /\ trust \in TrustType
          /\ cached.uid = trust.uid /\ g = trust.gen /\ g \in Nat
      BY <3>1, TrustFacts, Zenon DEF SameTrust
    <3>3. w \in Nat
      BY <3>2 DEF TrustType
    <3>4. cached.spec = trust.spec
      BY <1>3, <3>2, Zenon DEF TrustInv, ReadOf
    <3> HIDE DEF g, w
    <3>5. /\ t \in TrustType /\ t.uid = trust.uid /\ t.gen = trust.gen
          /\ t.spec = trust.spec /\ t.status = v /\ t.at = g
      BY <2>2, <3>2, <3>3, Zenon DEF TrustType, Status
    <3> HIDE DEF t
    <3>6. TrustTypeOK'
      BY <1>1, <2>2, <2>4, <3>1, <3>5, Zenon DEF TrustInv, TrustTypeOK,
         Findings
    <3>7. trustSpent \in Nat /\ trustSpent' \in Nat
      BY <2>4, TrustFacts, SpecsAssumption
    <3>8. ReadOf(trust)'
      BY <2>4, <3>1, <3>2, <3>5, <3>7, TrustFacts DEF TrustInv, ReadOf
    <3>9. ReadOf(cached)'
      BY <1>1, <2>4, <3>1, <3>2, <3>5, <3>7, TrustFacts DEF TrustInv, ReadOf
    <3>10. ReadOf(mint.trust)'
      BY <1>1, <2>4, <3>1, <3>2, <3>5, <3>7, TrustFacts DEF TrustInv, ReadOf
    <3>11. (trust # Nil => trust.at <= trust.gen)'
      BY <3>1, <3>2, <3>5
    <3>12. Justified'
      BY <2>3, <3>1, <3>4, <3>5, Zenon DEF Justified
    <3> QED
      BY <1>1, <3>6, <3>8, <3>9, <3>10, <3>11, <3>12, Zenon DEF TrustInv
  <2> QED
    BY <2>5, <2>6, Zenon
<1> QED
  BY <1>2, <1>3, Zenon

LEMMA TrustNextInv == TrustInv /\ [TrustNext]_trustVars => TrustInv'
<1> SUFFICES ASSUME TrustInv, [TrustNext]_trustVars PROVE TrustInv'
  BY Zenon
<1>1. CASE UNCHANGED trustVars
  BY <1>1, ZenonT(30) DEF trustVars, TrustInv, TrustTypeOK, ReadOf, Justified,
     Passed
<1> QED
  BY <1>1, OperatorInv, HubInv, ReconcileInv, Zenon DEF TrustNext

LEMMA TrustInvAlways == TrustSpec => []TrustInv
BY TrustInitInv, TrustNextInv, PTL DEF TrustSpec

\* The status foretells the mint, whatever was edited, restarted or read late
\* in between: evaluate, in the reconciler, and ValidateTrust with
\* restConfigFor, in the broker, agree on every configuration, and a copy of
\* the uid and generation the status is about has the spec it is about.
THEOREM StatusesForetell == TrustSpec => StatusForetellsMint
<1>1. TrustInv /\ [TrustNext]_trustVars => [Foretold]_trustVars
  <2> SUFFICES ASSUME TrustInv, TrustNext, mint'.outcome # "none", mint' # mint,
                      OfThisMint'
               PROVE  /\ /\ Reported({"Valid"})
                         /\ secret = judged \/ trust.spec.secretRef = Nil
                         => mint'.outcome \in {"Connected", "Unparsable", "Unreadable"}
                      /\ Reported({"InvalidConfiguration", "ProviderNotImplemented"})
                           => mint'.outcome # "Connected"
    BY Zenon DEF Foretold
  <2> DEFINE e == Evaluate(trust.spec, judged)
  <2>1. judged \in Findings /\ Justified /\ Passed /\ mint \in Mints
    BY Zenon DEF TrustInv, TrustTypeOK, Findings, Mints
  <2>2. TrustFor \/ Connect
    <3>1. ~RestartTrust
      BY DEF RestartTrust
    <3> QED
      BY <3>1, Zenon
      DEF TrustNext, Create, EditTrust, DeleteTrust, EditSecret, SyncTrust, Reconcile
  <2>3. UNCHANGED <<trust, cached>> /\ mint'.trust \in {cached, mint.trust}
    <3>1. CASE TrustFor
      BY <3>1, Zenon DEF TrustFor
    <3>2. CASE Connect
      <4>1. PICK o : mint' = [mint EXCEPT !.pc = "idle", !.outcome = o]
        BY <3>2, Zenon DEF Connect
      <4>2. mint'.trust = mint.trust
        BY <2>1, <4>1, Zenon DEF Mints
      <4> QED
        BY <3>2, <4>2, Zenon DEF Connect
    <3> QED
      BY <2>2, <3>1, <3>2, Zenon
  <2>4. /\ trust # Nil /\ mint'.trust # Nil /\ trust.spec \in Specs
        /\ mint'.trust.spec = trust.spec
    BY <2>3, TrustFacts, Zenon DEF OfThisMint, TrustInv, ReadOf
  <2>5. /\ Reported({"Valid"}) => e.reason = "Valid"
        /\ Reported({"InvalidConfiguration", "ProviderNotImplemented"}) =>
             e.reason \in {"InvalidConfiguration", "ProviderNotImplemented"}
    BY <2>1, Zenon DEF Reported, Justified
  <2>6. CASE TrustFor
    <3>1. mint'.trust = cached /\ mint'.outcome = ValidateTrust(trust.spec)
      BY <2>4, <2>6, Zenon DEF TrustFor
    <3> QED
      BY <2>1, <2>4, <2>5, <3>1, Verdicts, Zenon
  <2>7. CASE Connect
    <3>1. PICK found \in Findings :
            /\ Read(mint.trust.spec, found)
            /\ mint' = [mint EXCEPT !.pc = "idle",
                          !.outcome = RestConfigFor(mint.trust.spec, found)]
      BY <2>7, Zenon DEF Connect, Findings
    <3>2. /\ mint'.outcome = RestConfigFor(mint.trust.spec, found)
          /\ mint'.trust = mint.trust
      BY <2>1, <3>1, Zenon DEF Mints
    <3>3. ValidateTrust(trust.spec) = "none"
      BY <2>1, <2>4, <2>7, <3>2, Zenon DEF Connect, Passed
    <3>4. found = secret \/ found = "unreadable"
      BY <3>1, Zenon DEF Read
    <3>5. e.reason \notin {"InvalidConfiguration", "ProviderNotImplemented"}
      BY <2>1, <2>4, <3>3, Verdicts, Zenon
    <3>6. ASSUME Reported({"Valid"}), secret = judged \/ trust.spec.secretRef = Nil
          PROVE  mint'.outcome \in {"Connected", "Unparsable", "Unreadable"}
      <4>1. trust.spec.secretRef # Nil => judged \notin {"missing", "keyless"}
        BY <2>1, <2>4, <2>5, <3>6, Verdicts, Zenon
      <4>2. trust.spec.secretRef = Nil \/ found \notin {"missing", "keyless"}
        <5>1. "unreadable" \notin {"missing", "keyless"}
          BY Zenon
        <5> QED
          BY <3>4, <3>6, <4>1, <5>1, Zenon
      <4>3. mint'.outcome = RestConfigFor(trust.spec, found)
        BY <2>4, <3>2, Zenon
      <4> QED
        BY <2>4, <3>3, <4>2, <4>3, Connections, Zenon
    <3> HIDE DEF e
    <3> QED
      BY <2>5, <3>5, <3>6, Zenon
  <2> QED
    BY <2>2, <2>6, <2>7, Zenon
<1> QED
  BY <1>1, TrustInvAlways, PTL DEF TrustSpec, StatusForetellsMint
=============================================================================
