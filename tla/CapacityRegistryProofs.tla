----------------------- MODULE CapacityRegistryProofs -----------------------
(***************************************************************************)
(* Proofs about CapacityRegistry, for any set of cells, any heartbeats,    *)
(* any windows and any bound.                                              *)
(***************************************************************************)
EXTENDS CapacityRegistry, FiniteSetTheorems, TLAPS

(***************************************************************************)
(* The retention the registry works with is never shorter than the         *)
(* staleness window, however withDefaults was configured.                  *)
(***************************************************************************)
LEMMA RetentionCoversStaleness ==
  /\ Staleness \in Nat \ {0}
  /\ Retention \in Nat
  /\ Retention >= Staleness
  /\ MaxAge \in Nat
  /\ MaxAge = Retention + 1
BY WindowsAssumption DEF Retention, MaxAge

\* A stored record is taken apart and aged within its type.
LEMMA StoredFacts ==
  ASSUME NEW s \in Stored
  PROVE  /\ s # None
         /\ s.report \in Reports
         /\ s.age \in Nat
         /\ s.age <= MaxAge
         /\ Older(s) \in Stored
         /\ Older(s) # None
         /\ Older(s).report = s.report
         /\ Older(s).age = IF s.age < MaxAge THEN s.age + 1 ELSE s.age
BY NoneAssumption, RetentionCoversStaleness DEF Stored, Older

\* A heartbeat is stored within its type, at age zero.
LEMMA FreshRecord ==
  ASSUME NEW r \in Reports
  PROVE  /\ [report |-> r, age |-> 0] \in Stored
         /\ [report |-> r, age |-> 0] # None
BY NoneAssumption, RetentionCoversStaleness DEF Stored

-----------------------------------------------------------------------------
(***************************************************************************)
(* The model is well typed: no operation of the registry leaves its map,   *)
(* its marks or its ticker outside their domains.                          *)
(***************************************************************************)
LEMMA TypeInit == Init => TypeOK
BY WindowsAssumption DEF Init, TypeOK

LEMMA TypeStep == TypeOK /\ [Next]_vars => TypeOK'
<1> SUFFICES ASSUME TypeOK, [Next]_vars PROVE TypeOK'
  OBVIOUS
<1> USE DEF TypeOK
<1>1. ASSUME NEW c \in Cells, NEW r \in Reports, Report(c, r) PROVE TypeOK'
  BY <1>1, FreshRecord DEF Report, Store
<1>2. ASSUME NEW c \in Cells, NEW r \in Reports, RefuseReport(c, r)
      PROVE  TypeOK'
  BY <1>2 DEF RefuseReport, vars
<1>3. ASSUME NEW c \in Cells, Forget(c) PROVE TypeOK'
  BY <1>3 DEF Forget
<1>4. CASE Prune
  <2>1. Lapsed \subseteq Cells /\ WentUnknown \subseteq Cells
    BY DEF Lapsed, WentUnknown, Held
  <2> QED BY <1>4, <2>1, WindowsAssumption DEF Prune
<1>5. CASE Tick
  <2>1. entries' \in [Cells -> Stored \cup {None}]
    BY <1>5, StoredFacts DEF Tick
  <2> QED BY <1>5, <2>1, WindowsAssumption DEF Tick
<1>6. CASE UNCHANGED vars
  BY <1>6 DEF vars
<1> QED BY <1>1, <1>2, <1>3, <1>4, <1>5, <1>6 DEF Next

(***************************************************************************)
(* Type correctness of every reachable state.                              *)
(***************************************************************************)
THEOREM TypeCorrect == Spec => []TypeOK
BY TypeInit, TypeStep, PTL DEF Spec

-----------------------------------------------------------------------------
(***************************************************************************)
(* The bound.                                                              *)
(***************************************************************************)
LEMMA BoundInit == Init => IndexBounded
<1> SUFFICES ASSUME Init PROVE IndexBounded
  OBVIOUS
<1>1. Held = {}
  BY DEF Init, Held
<1> QED BY <1>1, FS_EmptySet, WindowsAssumption DEF IndexBounded

\* A subset of the held cells fits wherever they fit.
LEMMA SubsetFits ==
  ASSUME NEW S \in SUBSET Cells, NEW T \in SUBSET S,
         Cardinality(S) <= MaxCells
  PROVE  Cardinality(T) <= MaxCells
<1>1. IsFiniteSet(S)
  BY CellsAssumption, FS_Subset
<1>2. /\ IsFiniteSet(T)
      /\ Cardinality(T) <= Cardinality(S)
  BY <1>1, FS_Subset
<1>3. Cardinality(S) \in Nat /\ Cardinality(T) \in Nat
  BY <1>1, <1>2, FS_CardinalityType
<1> QED BY <1>2, <1>3, WindowsAssumption

LEMMA BoundStep == TypeOK /\ IndexBounded /\ [Next]_vars => IndexBounded'
<1> SUFFICES ASSUME TypeOK, IndexBounded, [Next]_vars PROVE IndexBounded'
  OBVIOUS
<1>0. Held \in SUBSET Cells
  BY DEF Held
<1>1. ASSUME NEW c \in Cells, NEW r \in Reports, Report(c, r)
      PROVE  IndexBounded'
  <2>1. Held' = Held \cup {c}
    BY <1>1, FreshRecord DEF Report, Store, Held, TypeOK
  <2>2. \A d \in Held' : Validate(entries'[d].report)
    BY <1>1, <2>1 DEF Report, Store, IndexBounded, TypeOK, Held
  <2>3. CASE c \in Held
    <3>1. Held' = Held
      BY <2>1, <2>3
    <3> QED BY <3>1, <2>2 DEF IndexBounded
  <2>4. CASE c \notin Held
    <3>1. IsFiniteSet(Held) /\ Cardinality(Held) \in Nat
      BY <1>0, CellsAssumption, FS_Subset, FS_CardinalityType
    <3>2. Cardinality(Held) < MaxCells
      BY <1>1, <2>4 DEF Report, HasRoom
    <3>3. Cardinality(Held') = Cardinality(Held) + 1
      BY <2>1, <2>4, <3>1, FS_AddElement, SMTT(20)
    <3> QED BY <3>1, <3>2, <3>3, <2>2, WindowsAssumption DEF IndexBounded
  <2> QED BY <2>3, <2>4
<1>2. ASSUME NEW c \in Cells, NEW r \in Reports, RefuseReport(c, r)
      PROVE  IndexBounded'
  BY <1>2 DEF RefuseReport, vars, IndexBounded, Held
<1>3. ASSUME NEW c \in Cells, Forget(c) PROVE IndexBounded'
  <2>1. Held' \in SUBSET Held
    BY <1>3 DEF Forget, Held, TypeOK
  <2>2. \A d \in Held' : entries'[d] = entries[d]
    BY <1>3 DEF Forget, Held, TypeOK
  <2> QED BY <1>0, <2>1, <2>2, SubsetFits DEF IndexBounded
<1>4. CASE Prune
  <2>1. Held' \in SUBSET Held
    BY <1>4 DEF Prune, Held, TypeOK
  <2>2. \A d \in Held' : entries'[d] = entries[d]
    BY <1>4 DEF Prune, Held, TypeOK
  <2> QED BY <1>0, <2>1, <2>2, SubsetFits DEF IndexBounded
<1>5. CASE Tick
  <2>1. \A c \in Cells : entries[c] # None => entries[c] \in Stored
    BY DEF TypeOK
  <2>2. \A c \in Cells : entries'[c] = IF entries[c] = None
                                       THEN None ELSE Older(entries[c])
    BY <1>5 DEF Tick
  <2>3. Held' = Held
    BY <2>1, <2>2, StoredFacts DEF Held
  <2>4. \A d \in Held : entries'[d].report = entries[d].report
    BY <2>1, <2>2, StoredFacts DEF Held
  <2> QED BY <2>3, <2>4 DEF IndexBounded
<1>6. CASE UNCHANGED vars
  BY <1>6 DEF vars, IndexBounded, Held
<1> QED BY <1>1, <1>2, <1>3, <1>4, <1>5, <1>6 DEF Next

(***************************************************************************)
(* The index never holds more than MaxCells cells, and only usable         *)
(* heartbeats, whatever the fleet sends.                                   *)
(***************************************************************************)
THEOREM Bounded == Spec => []IndexBounded
<1>1. Init => TypeOK /\ IndexBounded
  BY TypeInit, BoundInit
<1>2. (TypeOK /\ IndexBounded) /\ [Next]_vars => (TypeOK /\ IndexBounded)'
  BY TypeStep, BoundStep
<1> QED BY <1>1, <1>2, PTL DEF Spec

-----------------------------------------------------------------------------
(***************************************************************************)
(* The sweeper's marks and its warnings.                                   *)
(*                                                                         *)
(* WarnedOncePerSilence is not inductive: a second warning is prevented by *)
(* the mark, so the invariant has to say that while a cell is held the     *)
(* mark and the warning go together.                                       *)
(***************************************************************************)
MarkMeansWarned ==
  \A c \in Held : warned[c] = IF c \in unknown THEN 1 ELSE 0

SweepInv ==
  /\ TypeOK
  /\ MarkedIsStale
  /\ MarkMeansWarned
  /\ WarnedOncePerSilence

\* The health of an entry is a matter of its age alone.
LEMMA UnknownIsOld ==
  \A s : EntryOf(s).health = "Unknown" <=> s.age > Staleness
BY DEF EntryOf

LEMMA SweepInit == Init => SweepInv
BY TypeInit DEF Init, SweepInv, MarkedIsStale, MarkMeansWarned, Held,
                WarnedOncePerSilence

LEMMA SweepStep == SweepInv /\ [Next]_vars => SweepInv'
<1> SUFFICES ASSUME SweepInv, [Next]_vars PROVE SweepInv'
  OBVIOUS
<1>0. TypeOK /\ TypeOK'
  BY TypeStep DEF SweepInv
<1> DEFINE Marks == /\ MarkedIsStale
                    /\ MarkMeansWarned
                    /\ WarnedOncePerSilence
<1> SUFFICES Marks'
  BY <1>0 DEF SweepInv
<1> HIDE DEF Marks
<1>a. /\ \A c \in unknown : c \in Held /\ entries[c].age > Staleness
      /\ \A c \in Held : warned[c] = IF c \in unknown THEN 1 ELSE 0
      /\ \A c \in Cells : warned[c] <= 1
  BY UnknownIsOld DEF SweepInv, MarkedIsStale, MarkMeansWarned,
                      WarnedOncePerSilence
<1>b. ASSUME \A c \in unknown' : c \in Held' /\ entries'[c].age > Staleness,
             \A c \in Held' : warned'[c] = IF c \in unknown' THEN 1 ELSE 0,
             \A c \in Cells : warned'[c] <= 1
      PROVE  Marks'
  BY <1>b, UnknownIsOld DEF Marks, MarkedIsStale, MarkMeansWarned,
                            WarnedOncePerSilence
<1>1. ASSUME NEW c \in Cells, NEW r \in Reports, Report(c, r) PROVE Marks'
  <2>1. Held' = Held \cup {c}
    BY <1>0, <1>1, FreshRecord DEF Report, Store, Held, TypeOK
  <2>2. \A d \in Cells \ {c} : entries'[d] = entries[d]
    BY <1>0, <1>1 DEF Report, Store, TypeOK
  <2>3. warned' = [warned EXCEPT ![c] = 0] /\ unknown' = unknown \ {c}
    BY <1>1 DEF Report
  <2>4. \A d \in unknown' : d \in Held' /\ entries'[d].age > Staleness
    BY <1>0, <1>a, <2>1, <2>2, <2>3 DEF TypeOK
  <2>5. \A d \in Held' : warned'[d] = IF d \in unknown' THEN 1 ELSE 0
    BY <1>0, <1>a, <2>1, <2>3 DEF TypeOK, Held
  <2>6. \A d \in Cells : warned'[d] <= 1
    BY <1>0, <1>a, <2>3 DEF TypeOK
  <2> QED BY <1>b, <2>4, <2>5, <2>6
<1>2. ASSUME NEW c \in Cells, NEW r \in Reports, RefuseReport(c, r)
      PROVE  Marks'
  BY <1>2, <1>a, <1>b DEF RefuseReport, vars, Held
<1>3. ASSUME NEW c \in Cells, Forget(c) PROVE Marks'
  <2>1. Held' = Held \ {c}
    BY <1>0, <1>3 DEF Forget, Held, TypeOK
  <2>2. \A d \in Cells \ {c} : entries'[d] = entries[d]
    BY <1>0, <1>3 DEF Forget, TypeOK
  <2> QED BY <1>0, <1>3, <1>a, <1>b, <2>1, <2>2 DEF Forget, TypeOK
<1>4. CASE Prune
  <2>1. Held' = Held \ Lapsed
    BY <1>4 DEF Prune, Held, Lapsed
  <2>2. \A c \in Held' : entries'[c] = entries[c]
    BY <1>4, <2>1 DEF Prune, Held
  <2>3. /\ unknown' = (unknown \ Lapsed) \cup WentUnknown
        /\ WentUnknown \subseteq Held'
        /\ WentUnknown \cap unknown = {}
        /\ \A c \in WentUnknown : entries[c].age > Staleness
    BY <1>4, <2>1 DEF Prune, WentUnknown
  <2>4. \A c \in Cells : warned'[c] = IF c \in WentUnknown
                                      THEN warned[c] + 1 ELSE warned[c]
    BY <1>4 DEF Prune
  <2>5. \A c \in unknown' : c \in Held' /\ entries'[c].age > Staleness
    BY <1>a, <2>1, <2>2, <2>3
  <2>6. \A c \in Held' : warned'[c] = IF c \in unknown' THEN 1 ELSE 0
    <3> TAKE c \in Held'
    <3>1. c \in Cells /\ c \in Held /\ c \notin Lapsed
      BY <2>1 DEF Held
    <3> QED BY <1>a, <2>3, <2>4, <3>1
  <2>7. \A c \in Cells : warned'[c] <= 1
    <3> TAKE c \in Cells
    <3>1. CASE c \in WentUnknown
      BY <1>a, <2>1, <2>3, <2>4, <3>1
    <3>2. CASE c \notin WentUnknown
      BY <1>a, <2>4, <3>2
    <3> QED BY <3>1, <3>2
  <2> QED BY <1>b, <2>5, <2>6, <2>7
<1>5. CASE Tick
  <2>1. \A c \in Cells : entries'[c] = IF entries[c] = None
                                       THEN None ELSE Older(entries[c])
    BY <1>5 DEF Tick
  <2>2. Held' = Held
    BY <1>0, <2>1, StoredFacts DEF Held, TypeOK
  <2>3. \A c \in Held : entries[c] \in Stored
    BY <1>0 DEF Held, TypeOK
  <2>4. \A c \in Held : entries[c].age > Staleness
                          => entries'[c].age > Staleness
    BY <2>1, <2>3, StoredFacts, RetentionCoversStaleness DEF Held
  <2> QED BY <1>5, <1>a, <1>b, <2>2, <2>4 DEF Tick
<1>6. CASE UNCHANGED vars
  BY <1>6, <1>a, <1>b DEF vars, Held
<1> QED BY <1>1, <1>2, <1>3, <1>4, <1>5, <1>6 DEF Next

(***************************************************************************)
(* A mark never outlives the silence it stands for: no heartbeat, Forget   *)
(* or lapse leaves one behind.                                             *)
(***************************************************************************)
THEOREM MarksAreStale == Spec => []MarkedIsStale
<1>1. SweepInv => MarkedIsStale
  BY DEF SweepInv
<1> QED BY <1>1, SweepInit, SweepStep, PTL DEF Spec

(***************************************************************************)
(* Run logs at most one warning per silence.                               *)
(***************************************************************************)
THEOREM WarnsOnce == Spec => []WarnedOncePerSilence
<1>1. SweepInv => WarnedOncePerSilence
  BY DEF SweepInv
<1> QED BY <1>1, SweepInit, SweepStep, PTL DEF Spec

-----------------------------------------------------------------------------
(***************************************************************************)
(* When the retention outlives the staleness window by at least one sweep  *)
(* and the sweeper keeps up, an unmarked entry is never older than the     *)
(* window plus the time since the last sweep.                              *)
(***************************************************************************)
SweepKeepsUp ==
  \A c \in Held \ unknown : entries[c].age <= Staleness + sincePrune

LEMMA KeepsUpStep ==
  ASSUME TimelySweep, TypeOK, SweepKeepsUp, [Next]_vars
  PROVE  SweepKeepsUp'
<1>0. /\ sincePrune \in Nat
      /\ \A c \in Held : entries[c] \in Stored
  BY WindowsAssumption DEF TypeOK, Held
<1>1. ASSUME NEW c \in Cells, NEW r \in Reports, Report(c, r)
      PROVE  SweepKeepsUp'
  <2>1. \A d \in Held' : d = c \/ (d \in Held /\ entries'[d] = entries[d])
    BY <1>1 DEF Report, Store, Held, TypeOK
  <2>2. entries'[c].age = 0
    BY <1>1 DEF Report, Store, TypeOK
  <2> QED BY <1>0, <1>1, <2>1, <2>2, WindowsAssumption
          DEF Report, SweepKeepsUp
<1>2. ASSUME NEW c \in Cells, NEW r \in Reports, RefuseReport(c, r)
      PROVE  SweepKeepsUp'
  BY <1>2 DEF RefuseReport, vars, SweepKeepsUp, Held
<1>3. ASSUME NEW c \in Cells, Forget(c) PROVE SweepKeepsUp'
  <2>1. \A d \in Held' : d # c /\ d \in Held /\ entries'[d] = entries[d]
    BY <1>3 DEF Forget, Held, TypeOK
  <2> QED BY <1>3, <2>1 DEF Forget, SweepKeepsUp
<1>4. CASE Prune
  <2>1. \A c \in Held' : /\ c \in Held \ Lapsed
                          /\ entries'[c] = entries[c]
    BY <1>4 DEF Prune, Held, Lapsed
  <2>2. \A c \in Held' \ unknown' : ~(entries[c].age > Staleness)
    BY <1>4, <2>1 DEF Prune, WentUnknown
  <2>3. sincePrune' = 0
    BY <1>4 DEF Prune
  <2> SUFFICES ASSUME NEW c \in Held' \ unknown'
               PROVE  entries'[c].age <= Staleness + sincePrune'
    BY DEF SweepKeepsUp
  <2>4. entries[c].age \in Nat
    BY <1>0, <2>1, StoredFacts
  <2> QED BY <2>1, <2>2, <2>3, <2>4, WindowsAssumption
<1>5. CASE Tick
  <2>1. sincePrune' = sincePrune + 1
    BY <1>5 DEF Tick
  <2>2. \A c \in Held' : c \in Held /\ entries'[c] = Older(entries[c])
    BY <1>5 DEF Tick, Held
  <2>3. unknown' = unknown
    BY <1>5 DEF Tick
  <2> SUFFICES ASSUME NEW c \in Held' \ unknown'
               PROVE  entries'[c].age <= Staleness + sincePrune'
    BY DEF SweepKeepsUp
  <2>4. entries[c].age \in Nat /\ entries'[c].age <= entries[c].age + 1
    BY <1>0, <2>2, StoredFacts, RetentionCoversStaleness
  <2>5. entries'[c].age \in Nat
    BY <1>0, <2>2, StoredFacts
  <2>6. entries[c].age <= Staleness + sincePrune
    BY <2>2, <2>3 DEF SweepKeepsUp
  <2> QED BY <1>0, <2>1, <2>4, <2>5, <2>6, WindowsAssumption
<1>6. CASE UNCHANGED vars
  BY <1>6 DEF vars, SweepKeepsUp, Held
<1> QED BY <1>1, <1>2, <1>3, <1>4, <1>5, <1>6 DEF Next

(***************************************************************************)
(* Under those two conditions the sweeper never drops a cell it has not    *)
(* warned about.  The first condition is needed: with a retention equal to *)
(* the staleness window the code drops cells in silence.                   *)
(***************************************************************************)
THEOREM LapseIsWarned ==
  ASSUME TimelySweep, Retention >= Staleness + PruneInterval
  PROVE  Spec => LapseWasWarned
<1> DEFINE IInv == SweepInv /\ SweepKeepsUp
<1> DEFINE Step ==
      \A c \in Cells :
        (/\ sincePrune' < sincePrune
         /\ entries[c] # None
         /\ entries'[c] = None) => warned[c] > 0
<1>1. Init => IInv
  BY SweepInit DEF Init, SweepKeepsUp, Held
<1>2. IInv /\ [Next]_vars => IInv'
  BY SweepStep, KeepsUpStep DEF SweepInv
<1>3. IInv /\ [Next]_vars => [Step]_vars
  <2> SUFFICES ASSUME IInv, Next, NEW c \in Cells,
                      sincePrune' < sincePrune,
                      entries[c] # None, entries'[c] = None
               PROVE  warned[c] > 0
    OBVIOUS
  <2>1. TypeOK /\ MarkMeansWarned /\ SweepKeepsUp
    BY DEF SweepInv
  <2>2. Prune
    BY <2>1, WindowsAssumption
       DEF Next, Report, RefuseReport, Forget, Tick, vars, TypeOK
  <2>3. c \in Held /\ c \in Lapsed
    BY <2>2 DEF Prune, Held
  <2>4. entries[c] \in Stored
    BY <2>1 DEF TypeOK
  <2>5. entries[c].age \in Nat /\ entries[c].age > Retention
    BY <2>3, <2>4, StoredFacts DEF Lapsed
  <2>6. ~(entries[c].age <= Staleness + sincePrune)
    BY <2>1, <2>5, WindowsAssumption, RetentionCoversStaleness DEF TypeOK
  <2>7. c \in unknown
    BY <2>1, <2>3, <2>6 DEF SweepKeepsUp
  <2> QED BY <2>1, <2>3, <2>7 DEF MarkMeansWarned
<1>4. LapseWasWarned <=> [][Step]_vars
  BY DEF LapseWasWarned
<1> HIDE DEF IInv, Step
<1> QED BY <1>1, <1>2, <1>3, <1>4, PTL DEF Spec

-----------------------------------------------------------------------------
(***************************************************************************)
(* The registry implements FreshIndex.                                     *)
(***************************************************************************)
LEMMA ViewOf ==
  \A c \in Cells :
    FreshView[c] = IF entries[c] # None /\ ~(entries[c].age > Staleness)
                   THEN entries[c] ELSE None
BY DEF FreshView, Snapshot, Held, EntryOf

LEMMA ViewInit == Init => Fresh!Init
BY ViewOf DEF Init, Fresh!Init, FreshView

\* Prune drops only entries that were no longer fresh.
LEMMA PruneUnseen == TypeOK /\ Prune => UNCHANGED FreshView
<1> SUFFICES ASSUME TypeOK, Prune PROVE FreshView' = FreshView
  OBVIOUS
<1>x. \A c \in Cells :
        FreshView'[c] = IF entries'[c] # None /\ ~(entries'[c].age > Staleness)
                        THEN entries'[c] ELSE None
  BY DEF FreshView, Snapshot, Held, EntryOf
<1>1. \A c \in Cells : FreshView'[c] = FreshView[c]
  <2> TAKE c \in Cells
  <2>1. CASE c \in Lapsed
    <3>1. entries[c] \in Stored /\ entries[c].age > Retention
      BY <2>1 DEF Lapsed, Held, TypeOK
    <3>2. entries[c].age > Staleness
      BY <3>1, StoredFacts, RetentionCoversStaleness
    <3>3. entries'[c] = None
      BY <2>1 DEF Prune
    <3> QED BY <1>x, <3>2, <3>3, ViewOf
  <2>2. CASE c \notin Lapsed
    <3>1. entries'[c] = entries[c]
      BY <2>2 DEF Prune
    <3> QED BY <1>x, <3>1, ViewOf
  <2> QED BY <2>1, <2>2
<1> QED BY <1>1 DEF FreshView

\* Only Prune sets the sweeper's clock back.
LEMMA SweepStepUnseen == TypeOK /\ [Next]_vars => [SweepUnseen]_vars
<1> SUFFICES ASSUME TypeOK, [Next]_vars, sincePrune' < sincePrune
             PROVE  UNCHANGED FreshView
  BY DEF SweepUnseen
<1>1. sincePrune \in Nat
  BY WindowsAssumption DEF TypeOK
<1>2. ~UNCHANGED sincePrune
  BY <1>1
<1>3. ~Tick
  BY <1>1 DEF Tick
<1>4. Prune
  BY <1>2, <1>3 DEF Next, Report, RefuseReport, Forget, vars
<1> QED BY <1>4, PruneUnseen

LEMMA ViewStep == TypeOK /\ [Next]_vars => [Fresh!Next]_FreshView
<1> SUFFICES ASSUME TypeOK, [Next]_vars PROVE [Fresh!Next]_FreshView
  OBVIOUS
<1>v. FreshView = [c \in Cells |-> FreshView[c]]
  BY DEF FreshView
<1>w. FreshView' = [c \in Cells |-> FreshView'[c]]
  BY DEF FreshView
<1>x. \A c \in Cells :
        FreshView'[c] = IF entries'[c] # None /\ ~(entries'[c].age > Staleness)
                        THEN entries'[c] ELSE None
  BY DEF FreshView, Snapshot, Held, EntryOf
<1>1. ASSUME NEW c \in Cells, NEW r \in Reports, Report(c, r)
      PROVE  Fresh!Accept(c, r)
  <2>1. entries' = [entries EXCEPT ![c] = [report |-> r, age |-> 0]]
    BY <1>1 DEF Report, Store
  <2>2. FreshView'[c] = [report |-> r, age |-> 0]
    BY <1>x, <2>1, FreshRecord, WindowsAssumption DEF TypeOK
  <2>3. \A d \in Cells \ {c} : FreshView'[d] = FreshView[d]
    BY <1>x, <2>1, ViewOf DEF TypeOK
  <2>4. FreshView' = [FreshView EXCEPT ![c] = [report |-> r, age |-> 0]]
    BY <1>v, <1>w, <2>2, <2>3
  <2>5. Fresh!Validate(r) <=> Validate(r)
    BY DEF Fresh!Validate, Validate
  <2> QED BY <1>1, <2>4, <2>5 DEF Report, Fresh!Accept
<1>2. ASSUME NEW c \in Cells, NEW r \in Reports, RefuseReport(c, r)
      PROVE  UNCHANGED FreshView
  BY <1>2 DEF RefuseReport, vars, FreshView, Snapshot, Held
<1>3. ASSUME NEW c \in Cells, Forget(c) PROVE Fresh!Drop(c)
  <2>1. FreshView'[c] = None
    BY <1>x, <1>3 DEF Forget, TypeOK
  <2>2. \A d \in Cells \ {c} : FreshView'[d] = FreshView[d]
    BY <1>x, <1>3, ViewOf DEF Forget, TypeOK
  <2> QED BY <1>v, <1>w, <2>1, <2>2 DEF Fresh!Drop
<1>4. CASE Prune
  BY <1>4, PruneUnseen
<1>5. CASE Tick
  <2>1. ASSUME NEW c \in Cells
        PROVE  FreshView'[c] =
                 IF FreshView[c] = None \/ FreshView[c].age = Staleness
                 THEN None ELSE [FreshView[c] EXCEPT !.age = @ + 1]
    <3>1. CASE entries[c] = None
      <4>1. entries'[c] = None
        BY <1>5, <3>1 DEF Tick
      <4> QED BY <1>x, <3>1, <4>1, ViewOf
    <3>2. CASE entries[c] # None
      <4>1. entries[c] \in Stored
        BY <3>2 DEF TypeOK
      <4>2. entries'[c] = Older(entries[c])
        BY <1>5, <3>2 DEF Tick
      <4>3. CASE entries[c].age > Staleness
        <5>1. entries'[c].age > Staleness
          BY <4>1, <4>2, <4>3, StoredFacts, RetentionCoversStaleness
        <5> QED BY <1>x, <4>3, <5>1, ViewOf
      <4>4. CASE ~(entries[c].age > Staleness)
        <5>1. FreshView[c] = entries[c]
          BY <3>2, <4>4, ViewOf
        <5>2. entries'[c] = [entries[c] EXCEPT !.age = @ + 1]
          BY <4>1, <4>2, <4>4, StoredFacts, RetentionCoversStaleness
             DEF Older
        <5>3. entries'[c] # None
          BY <4>1, <4>2, StoredFacts
        <5>4. entries'[c].age = entries[c].age + 1
          BY <4>1, <5>2 DEF Stored
        <5>5. CASE entries[c].age = Staleness
          <6>1. entries'[c].age > Staleness
            BY <5>4, <5>5, RetentionCoversStaleness
          <6> QED BY <1>x, <5>1, <5>5, <6>1
        <5>6. CASE entries[c].age # Staleness
          <6>1. ~(entries'[c].age > Staleness)
            BY <4>1, <4>4, <5>4, <5>6, StoredFacts, RetentionCoversStaleness
          <6> QED BY <1>x, <3>2, <5>1, <5>2, <5>3, <5>6, <6>1, Zenon
        <5> QED BY <5>5, <5>6
      <4> QED BY <4>3, <4>4
    <3> QED BY <3>1, <3>2
  <2> QED BY <1>w, <2>1 DEF Fresh!Age, Fresh!Next
<1>6. CASE UNCHANGED vars
  BY <1>6 DEF vars, FreshView, Snapshot, Held
<1> QED BY <1>1, <1>2, <1>3, <1>4, <1>5, <1>6 DEF Next, Fresh!Next

(***************************************************************************)
(* The registry implements FreshIndex: what a placement reads is exactly   *)
(* the heartbeats no older than the staleness window, and neither the      *)
(* sweeper nor the retention nor the bound can be seen through it.         *)
(***************************************************************************)
THEOREM Refinement == Spec => ImplementsFreshIndex
<1>1. Init => TypeOK /\ Fresh!Init
  BY TypeInit, ViewInit
<1> QED BY <1>1, TypeStep, ViewStep, SweepStepUnseen, PTL
        DEF Spec, ImplementsFreshIndex, Fresh!Spec
=============================================================================
