-------------------------- MODULE CapacityRegistry --------------------------
(***************************************************************************)
(* The in-memory capacity index of one hub replica                         *)
(* (internal/hub/capacity/registry.go): the last heartbeat of every cell,  *)
(* the read-time judgement of whether it is still fresh, and the sweeper   *)
(* that drops old entries and warns about cells that have gone quiet.      *)
(*                                                                         *)
(* Every operation of the Go type holds the registry's mutex from start to *)
(* end and reads the clock under it, so each is one atomic step here.  An  *)
(* entry carries its age instead of the instant it was observed: the code  *)
(* only ever compares (now - observedAt) with two windows, so the age up   *)
(* to one past the longer window says everything.                          *)
(***************************************************************************)
EXTENDS CapacityReport, FiniteSets

CONSTANTS
  Cells,                \* the names heartbeats may arrive for
  Reports,              \* the heartbeats agents may send
  Staleness,            \* Options.Staleness, in clock units
  ConfiguredRetention,  \* Options.Retention as configured; <= 0 is unset
  DefaultRetention,     \* what an unset retention becomes
  MaxCells,             \* Options.MaxCells
  PruneInterval,        \* Options.PruneInterval
  TimelySweep,          \* the sweeper is never starved past its ticker
  None                  \* the absent map entry

ASSUME CellsAssumption == IsFiniteSet(Cells)

ASSUME ReportsAssumption == Reports \subseteq ReportType

\* Config.Validate and withDefaults leave positive windows and bounds.
ASSUME WindowsAssumption ==
  /\ Staleness \in Nat \ {0}
  /\ ConfiguredRetention \in Int
  /\ DefaultRetention \in Nat \ {0}
  /\ MaxCells \in Nat \ {0}
  /\ PruneInterval \in Nat \ {0}
  /\ TimelySweep \in BOOLEAN

\* withDefaults: an unset retention takes the default, and no entry is kept
\* for less time than it stays fresh.
Retention ==
  LET configured == IF ConfiguredRetention > 0
                    THEN ConfiguredRetention ELSE DefaultRetention
  IN  IF configured < Staleness THEN Staleness ELSE configured

\* No comparison in the code tells two ages beyond the retention apart.
MaxAge == Retention + 1

Stored == [report : Reports, age : 0..MaxAge]

ASSUME NoneAssumption == None \notin Stored

VARIABLES
  entries,     \* Registry.entries: the stored report of each cell, or None
  unknown,     \* Registry.unknown: the cells already warned about
  sincePrune,  \* how long ago the sweeper's ticker last fired, up to a tick
  warned       \* history: warnings logged since the cell's last report

vars == <<entries, unknown, sincePrune, warned>>

TypeOK ==
  /\ entries \in [Cells -> Stored \cup {None}]
  /\ unknown \in SUBSET Cells
  /\ sincePrune \in 0..PruneInterval
  /\ warned \in [Cells -> Nat]

\* The keys of the map.
Held == {c \in Cells : entries[c] # None}

-----------------------------------------------------------------------------
(***************************************************************************)
(* What the readers compute.                                               *)
(***************************************************************************)
\* entryLocked: health is derived when the entry is read, and utilisation
\* only of a fresh one.
EntryOf(s) ==
  IF s.age > Staleness
  THEN [report |-> s.report, age |-> s.age,
        health |-> "Unknown", utilisation |-> Idle]
  ELSE [report |-> s.report, age |-> s.age,
        health |-> "Fresh", utilisation |-> Utilisation(s.report)]

\* Lookup: the entry, or None for a cell nobody has reported for.
Lookup(c) == IF entries[c] = None THEN None ELSE EntryOf(entries[c])

\* Snapshot: every entry at one instant.
Snapshot == [c \in Held |-> EntryOf(entries[c])]

\* Stats: what the two gauges show.
Stats ==
  [fresh   |-> Cardinality({c \in Held : Snapshot[c].health = "Fresh"}),
   unknown |-> Cardinality({c \in Held : Snapshot[c].health = "Unknown"})]

-----------------------------------------------------------------------------
\* New: an empty index.
Init ==
  /\ entries = [c \in Cells |-> None]
  /\ unknown = {}
  /\ sincePrune = 0
  /\ warned = [c \in Cells |-> 0]

\* The bound of Report: a cell already held never needs a new slot.
HasRoom(c) == c \in Held \/ Cardinality(Held) < MaxCells

\* The store of Report: dated by the hub's clock, under the lock.
Store(c, r) ==
  entries' = [entries EXCEPT ![c] = [report |-> r, age |-> 0]]

\* Report, with the bound off by one.
ReportPastBound(c, r) ==
  /\ Validate(r)
  /\ c \in Held \/ Cardinality(Held) <= MaxCells
  /\ Store(c, r)
  /\ unknown' = unknown \ {c}
  /\ warned' = [warned EXCEPT ![c] = 0]
  /\ UNCHANGED sincePrune

\* Report: a valid heartbeat replaces what was held and ends the silence.
Report(c, r) ==
  /\ Validate(r)
  /\ HasRoom(c)
  /\ Store(c, r)
  /\ unknown' = unknown \ {c}
  /\ warned' = [warned EXCEPT ![c] = 0]
  /\ UNCHANGED sincePrune

\* Report's two early returns: an unusable heartbeat, and a full index.
\* Either leaves the previous entry in place.
RefuseReport(c, r) ==
  /\ ~Validate(r) \/ ~HasRoom(c)
  /\ UNCHANGED vars

\* Forget: the cluster controller saw the Cluster go.
Forget(c) ==
  /\ entries' = [entries EXCEPT ![c] = None]
  /\ unknown' = unknown \ {c}
  /\ UNCHANGED <<sincePrune, warned>>

Lapsed == {c \in Held : entries[c].age > Retention}

WentUnknown ==
  {c \in Held \ Lapsed : entries[c].age > Staleness /\ c \notin unknown}

\* Prune, warning about every stale cell on every tick.
PruneWarnsAgain ==
  LET stale == {c \in Held \ Lapsed : entries[c].age > Staleness}
  IN  /\ sincePrune = PruneInterval
      /\ sincePrune' = 0
      /\ entries' = [c \in Cells |-> IF c \in Lapsed THEN None ELSE entries[c]]
      /\ unknown' = (unknown \ Lapsed) \cup stale
      /\ warned' = [c \in Cells |->
                      IF c \in stale THEN warned[c] + 1 ELSE warned[c]]

\* Prune, with the comparison with the longer window inclusive and against
\* the shorter one: an entry goes while it is still fresh.
PruneTooSoon ==
  LET gone == {c \in Held : entries[c].age >= Staleness}
  IN  /\ sincePrune = PruneInterval
      /\ sincePrune' = 0
      /\ entries' = [c \in Cells |-> IF c \in gone THEN None ELSE entries[c]]
      /\ unknown' = unknown \ gone
      /\ UNCHANGED warned

\* Prune, measuring lapse from the staleness window instead of retention.
PruneAtStaleness ==
  LET gone == {c \in Held : entries[c].age > Staleness}
  IN  /\ sincePrune = PruneInterval
      /\ sincePrune' = 0
      /\ entries' = [c \in Cells |-> IF c \in gone THEN None ELSE entries[c]]
      /\ unknown' = unknown \ gone
      /\ UNCHANGED warned

\* One turn of Run: the ticker fires, Prune drops what has lapsed and marks
\* what has newly gone quiet, and Run logs a warning for each of the latter.
Prune ==
  /\ sincePrune = PruneInterval
  /\ sincePrune' = 0
  /\ entries' = [c \in Cells |-> IF c \in Lapsed THEN None ELSE entries[c]]
  /\ unknown' = (unknown \ Lapsed) \cup WentUnknown
  /\ warned' = [c \in Cells |->
                  IF c \in WentUnknown THEN warned[c] + 1 ELSE warned[c]]

Older(s) == [s EXCEPT !.age = IF @ < MaxAge THEN @ + 1 ELSE @]

\* The clock.  A sweeper that keeps up runs before time moves past its
\* ticker; one that does not may be late by any amount.
Tick ==
  /\ TimelySweep => sincePrune < PruneInterval
  /\ sincePrune' = IF sincePrune < PruneInterval
                   THEN sincePrune + 1 ELSE sincePrune
  /\ entries' = [c \in Cells |->
                   IF entries[c] = None THEN None ELSE Older(entries[c])]
  /\ UNCHANGED <<unknown, warned>>

Next ==
  \/ \E c \in Cells, r \in Reports : Report(c, r) \/ RefuseReport(c, r)
  \/ \E c \in Cells : Forget(c)
  \/ Prune
  \/ Tick

Spec == Init /\ [][Next]_vars

-----------------------------------------------------------------------------
(***************************************************************************)
(* Properties.                                                             *)
(***************************************************************************)
\* The index never outgrows MaxCells, whatever order heartbeats, deletions
\* and sweeps come in (Report's check and its store are one critical
\* section), and what it holds was usable when it was stored.
IndexBounded ==
  /\ Cardinality(Held) <= MaxCells
  /\ \A c \in Held : Validate(entries[c].report)

\* The sweeper's memory of whom it warned about never outlives the silence:
\* a marked cell is held and is stale right now.  A mark left behind by a
\* heartbeat or a Forget would swallow the warning of the next silence.
MarkedIsStale ==
  \A c \in unknown : c \in Held /\ EntryOf(entries[c]).health = "Unknown"

\* One silence is warned about at most once, however often the sweeper runs.
WarnedOncePerSilence == \A c \in Cells : warned[c] <= 1

\* What Run's comment asks for: the sweeper never drops a cell from the
\* index without a warning having been logged for that silence.
LapseWasWarned ==
  [][\A c \in Cells :
       (/\ sincePrune' < sincePrune
        /\ entries[c] # None
        /\ entries'[c] = None) => warned[c] > 0]_vars

-----------------------------------------------------------------------------
(***************************************************************************)
(* What the index promises placement: the fresh entries and nothing else.  *)
(***************************************************************************)
FreshView ==
  [c \in Cells |->
     IF c \in Held /\ Snapshot[c].health = "Fresh"
     THEN entries[c] ELSE None]

Fresh == INSTANCE FreshIndex WITH view <- FreshView

SweepUnseen == sincePrune' < sincePrune => UNCHANGED FreshView

\* What placement reads behaves like the abstract index, and no sweep, late
\* or not, shows in it: the retention, the bound and the marks change nothing
\* a decision can see (entryLocked, Prune, withDefaults).
ImplementsFreshIndex == Fresh!Spec /\ [][SweepUnseen]_vars
=============================================================================
