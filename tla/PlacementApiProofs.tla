------------------------- MODULE PlacementApiProofs -------------------------
(***************************************************************************)
(* Theorems about PlacementApi, for any number of concurrent requests and  *)
(* any finite registry: first that the engine's choices exist, then, with  *)
(* the steps of PlacementApiSteps, the safety of the handler that makes    *)
(* them.                                                                   *)
(***************************************************************************)
EXTENDS PlacementApiSteps, FiniteSetTheorems, WellFoundedInduction

(***************************************************************************)
(* Orders on finite sets.                                                  *)
(***************************************************************************)
\* A strict order on a finite set that is not empty has a minimal element:
\* the sets of what lies below an element are finite, and one of them has no
\* other inside it.
LEMMA MinimalExists ==
  ASSUME NEW S, IsFiniteSet(S), S # {}, NEW R,
         \A x \in S : <<x, x>> \notin R,
         \A x, y, z \in S : <<x, y>> \in R /\ <<y, z>> \in R => <<x, z>> \in R
  PROVE  \E x \in S : \A y \in S : <<y, x>> \notin R
<1> DEFINE Below(x) == {y \in S : <<y, x>> \in R}
           Sets == {Below(x) : x \in S}
<1>1. Sets \subseteq FiniteSubsetsOf(S)
  BY FS_Subset, Zenon DEF FiniteSubsetsOf
<1>2. Sets # {}
  <2>1. PICK x \in S : TRUE
    OBVIOUS
  <2>2. Below(x) \in Sets
    OBVIOUS
  <2> QED
    BY <2>2, Zenon
<1>3. IsWellFoundedOn(StrictSubsetOrdering(S), FiniteSubsetsOf(S))
  BY FS_StrictSubsetOrderingWellFounded
<1>4. PICK B \in Sets : \A C \in Sets : <<C, B>> \notin StrictSubsetOrdering(S)
  <2> HIDE DEF Sets
  <2> QED
    BY <1>1, <1>2, <1>3, WFMin
<1>5. PICK x \in S : B = Below(x)
  OBVIOUS
<1>6. ASSUME NEW y \in S, <<y, x>> \in R PROVE FALSE
  <2> DEFINE C == Below(y)
  <2>1. C \in Sets
    OBVIOUS
  <2>2. C \subseteq B /\ y \in B /\ y \notin C
    BY <1>5, <1>6
  <2>3. C \in SUBSET S /\ B \in SUBSET S
    BY <1>5
  <2> HIDE DEF C, Sets, Below
  <2>4. <<C, B>> \in StrictSubsetOrdering(S)
    BY <2>2, <2>3 DEF StrictSubsetOrdering
  <2> QED
    BY <1>4, <2>1, <2>4
<1> QED
  BY <1>6

\* A set of naturals that is not empty has a least element.
LEMMA LeastNatural ==
  ASSUME NEW T \in SUBSET Nat, T # {}
  PROVE  \E x \in T : \A y \in T : x <= y
<1>1. PICK x \in T : \A y \in T : <<y, x>> \notin OpToRel(<, Nat)
  BY NatLessThanWellFounded, WFMin
<1>2. ASSUME NEW y \in T PROVE x <= y
  <2>1. x \in Nat /\ y \in Nat
    BY <1>1
  <2>2. ~(y < x)
    BY <1>1, <2>1, Zenon DEF OpToRel
  <2> QED
    BY <2>1, <2>2
<1> QED
  BY <1>2

\* Among the members of a finite set of naturals there is one with exactly n
\* below it, for every n less than their number: take the least of those
\* with at least n below.
LEMMA NthExists ==
  ASSUME NEW S \in SUBSET Nat, IsFiniteSet(S), NEW n \in Nat,
         n < Cardinality(S)
  PROVE  Nth(S, n) \in S
<1> DEFINE Below(x) == {y \in S : y < x}
           rank == [x \in S |-> Cardinality(Below(x))]
           High == {x \in S : rank[x] >= n}
<1>0. \A x \in S : IsFiniteSet(Below(x))
  BY FS_Subset
<1>1. \A x \in S : rank[x] \in Nat
  BY <1>0, FS_CardinalityType
<1>2. ASSUME NEW x \in S, NEW y \in S, x < y PROVE rank[x] < rank[y]
  <2>1. Below(x) \subseteq Below(y) /\ x \in Below(y) /\ x \notin Below(x)
    <3>1. x \in Nat /\ y \in Nat /\ \A z \in S : z \in Nat
      OBVIOUS
    <3> HIDE DEF rank, High
    <3>2. \A z \in S : z < x => z < y
      BY <1>2, <3>1
    <3>3. ~(x < x)
      BY <3>1
    <3> QED
      BY <1>2, <3>2, <3>3, Zenon
  <2>2. /\ Cardinality(Below(x)) <= Cardinality(Below(y))
        /\ Cardinality(Below(x)) # Cardinality(Below(y))
    <3> HIDE DEF Below
    <3> QED
      BY <1>0, <2>1, FS_Subset
  <2>3. Cardinality(Below(x)) \in Nat /\ Cardinality(Below(y)) \in Nat
    BY <1>1
  <2> QED
    BY <2>2, <2>3
<1>3. ASSUME NEW T \in SUBSET S, \A x \in T : rank[x] < n
      PROVE  Cardinality(T) <= n
  <2> DEFINE f == [x \in T |-> rank[x]]
  <2>1. \A x \in T : rank[x] \in 0..(n - 1)
    BY <1>1, <1>3
  <2>2. \A x, y \in T : rank[x] = rank[y] => x = y
    <3> SUFFICES ASSUME NEW x \in T, NEW y \in T, rank[x] = rank[y], x # y
                 PROVE  FALSE
      OBVIOUS
    <3>1. x \in S /\ y \in S /\ rank[x] \in Nat /\ rank[y] \in Nat
      BY <1>1
    <3>2. x < y \/ y < x
      BY <3>1
    <3> HIDE DEF rank
    <3> QED
      BY <1>2, <3>1, <3>2
  <2> HIDE DEF rank
  <2>3. f \in Injection(T, 0..(n - 1))
    BY <2>1, <2>2 DEF Injection, IsInjective
  <2>4. IsFiniteSet(0..(n - 1)) /\ Cardinality(0..(n - 1)) = n
    <3>1. 0 \in Int /\ n - 1 \in Int
      OBVIOUS
    <3>2. /\ IsFiniteSet(0..(n - 1))
          /\ Cardinality(0..(n - 1)) = IF 0 > n - 1 THEN 0 ELSE n - 1 - 0 + 1
      BY <3>1, FS_Interval
    <3>3. (IF 0 > n - 1 THEN 0 ELSE n - 1 - 0 + 1) = n
      OBVIOUS
    <3> QED
      BY <3>2, <3>3
  <2> QED
    BY <2>3, <2>4, FS_Injection
<1> HIDE DEF rank
<1>4. High # {}
  <2> SUFFICES ASSUME High = {} PROVE FALSE
    OBVIOUS
  <2>1. \A x \in S : rank[x] < n
    BY <1>1
  <2> QED
    BY <1>3, <2>1, FS_CardinalityType
<1>5. PICK c \in High : \A y \in High : c <= y
  BY <1>4, LeastNatural, Zenon
<1>6. \A y \in Below(c) : rank[y] < n
  BY <1>1, <1>5
<1>7. rank[c] = n
  <2>1. Cardinality(Below(c)) <= n
    <3> HIDE DEF High
    <3> QED
      BY <1>3, <1>6
  <2> QED
    BY <1>1, <1>5, <2>1 DEF rank
<1> QED
  BY <1>5, <1>7 DEF Nth, rank

\* The least by a strict weak order, ties to the first name: it exists in
\* every finite set of names that is not empty.
LEMMA LeastByName ==
  ASSUME NEW S \in SUBSET Nat, IsFiniteSet(S), S # {}, NEW L,
         \A c \in S : <<c, c>> \notin L,
         \A b, c, d \in S : <<b, c>> \in L /\ <<c, d>> \in L => <<b, d>> \in L,
         \A b, c, d \in S : <<b, d>> \in L => <<b, c>> \in L \/ <<c, d>> \in L
  PROVE  \E x \in S : \A d \in S \ {x} :
           <<x, d>> \in L \/ (<<d, x>> \notin L /\ x < d)
<1> DEFINE R == {p \in S \X S :
                   p \in L \/ (<<p[2], p[1]>> \notin L /\ p[1] < p[2])}
<1>0. \A c \in S : c \in Nat
  OBVIOUS
<1>1. \A c, d \in S :
        <<c, d>> \in R <=> <<c, d>> \in L \/ (<<d, c>> \notin L /\ c < d)
  OBVIOUS
<1> HIDE DEF R
<1>2. \A c \in S : <<c, c>> \notin R
  <2> SUFFICES ASSUME NEW c \in S PROVE <<c, c>> \notin R
    OBVIOUS
  <2>1. ~(c < c)
    BY <1>0
  <2> QED
    BY <1>1, <2>1
<1>3. ASSUME NEW b \in S, NEW c \in S, NEW d \in S,
             <<b, c>> \in R, <<c, d>> \in R
      PROVE  <<b, d>> \in R
  <2>1. b < c /\ c < d => b < d
    BY <1>0
  <2> QED
    BY <1>1, <1>3, <2>1, Zenon
<1>4. PICK x \in S : \A y \in S : <<y, x>> \notin R
  BY <1>2, <1>3, MinimalExists, Zenon
<1>5. ASSUME NEW d \in S, d # x
      PROVE  <<x, d>> \in L \/ (<<d, x>> \notin L /\ x < d)
  <2>1. d < x \/ x < d
    BY <1>0, <1>5
  <2> QED
    BY <1>1, <1>4, <2>1
<1> QED
  BY <1>5

-----------------------------------------------------------------------------
(***************************************************************************)
(* The engine's choices.                                                   *)
(***************************************************************************)
\* Ratios with positive denominators: less used is a strict order, and of
\* two different ones either may be at most the other.
LEMMA LessUsedTransitive ==
  ASSUME NEW a \in Nat, NEW b \in Nat \ {0}, NEW c \in Nat,
         NEW d \in Nat \ {0}, NEW e \in Nat, NEW f \in Nat \ {0}
  PROVE  /\ a * d < c * b /\ c * f <= e * d => a * f < e * b
         /\ a * d <= c * b /\ c * f < e * d => a * f < e * b
         /\ a * d <= c * b /\ c * f <= e * d => a * f <= e * b
<1>1. /\ b > 0 /\ d > 0 /\ f > 0
      /\ a * d \in Nat /\ c * b \in Nat /\ c * f \in Nat /\ e * d \in Nat
      /\ a * f \in Nat /\ e * b \in Nat
  OBVIOUS
<1>2. /\ (a * d) * f = (a * f) * d
      /\ (c * b) * f = (c * f) * b
      /\ (e * d) * b = (e * b) * d
  OBVIOUS
<1>3. \A x, y \in Nat, k \in Nat \ {0} :
        /\ x < y <=> x * k < y * k
        /\ x <= y <=> x * k <= y * k
  OBVIOUS
<1> QED
  BY <1>1, <1>2, <1>3

\* Least loaded picks an admitted cell, whatever their number and load.
LEMMA LeastLoadedExists ==
  ASSUME NEW S \in SUBSET Nat, IsFiniteSet(S), S # {}, NEW sn,
         \A c \in S : sn[c].utilisation \in Nat \X (Nat \ {0})
  PROVE  LeastLoaded(S, sn) \in S
<1> DEFINE L == {p \in S \X S :
                   LessUsed(sn[p[1]].utilisation, sn[p[2]].utilisation)}
           used(c) == sn[c].utilisation[1]
           room(c) == sn[c].utilisation[2]
<1>1. \A c \in S : used(c) \in Nat /\ room(c) \in Nat \ {0}
  BY Zenon
<1>2. \A c, d \in S :
        /\ <<c, d>> \in L <=> LessUsed(sn[c].utilisation, sn[d].utilisation)
        /\ <<c, d>> \in L <=> used(c) * room(d) < used(d) * room(c)
  BY DEF LessUsed
<1> HIDE DEF L, used, room
<1>3. \A c \in S : <<c, c>> \notin L
  <2> SUFFICES ASSUME NEW c \in S PROVE <<c, c>> \notin L
    OBVIOUS
  <2>1. used(c) * room(c) \in Nat
    BY <1>1
  <2>2. ~(used(c) * room(c) < used(c) * room(c))
    BY <2>1
  <2> QED
    BY <1>2, <2>2
<1>4. ASSUME NEW b \in S, NEW c \in S, NEW d \in S
      PROVE  /\ <<b, c>> \in L /\ <<c, d>> \in L => <<b, d>> \in L
             /\ <<b, d>> \in L => <<b, c>> \in L \/ <<c, d>> \in L
  <2>1. /\ used(b) \in Nat /\ used(c) \in Nat /\ used(d) \in Nat
        /\ room(b) \in Nat \ {0} /\ room(c) \in Nat \ {0}
        /\ room(d) \in Nat \ {0}
    BY <1>1
  <2>2. /\ used(b) * room(c) \in Nat /\ used(c) * room(b) \in Nat
        /\ used(c) * room(d) \in Nat /\ used(d) * room(c) \in Nat
        /\ used(b) * room(d) \in Nat /\ used(d) * room(b) \in Nat
    BY <2>1
  <2>3. /\ used(b) * room(c) < used(c) * room(b)
           /\ used(c) * room(d) <= used(d) * room(c)
              => used(b) * room(d) < used(d) * room(b)
        /\ used(d) * room(c) <= used(c) * room(d)
           /\ used(c) * room(b) <= used(b) * room(c)
              => used(d) * room(b) <= used(b) * room(d)
    BY <2>1, LessUsedTransitive, SMTT(20)
  <2> QED
    BY <1>2, <2>2, <2>3
<1>5. PICK x \in S : \A d \in S \ {x} :
        <<x, d>> \in L \/ (<<d, x>> \notin L /\ x < d)
  BY <1>3, <1>4, LeastByName, Zenon
<1>6. \A d \in S \ {x} :
        \/ LessUsed(sn[x].utilisation, sn[d].utilisation)
        \/ /\ ~LessUsed(sn[d].utilisation, sn[x].utilisation)
           /\ x < d
  BY <1>2, <1>5, Zenon
<1> QED
  BY <1>6, Zenon DEF LeastLoaded

\* Whatever the strategy and the cursor, score returns a survivor.
LEMMA ScoreExists ==
  ASSUME NEW S \in SUBSET Nat, IsFiniteSet(S), S # {}, NEW sn,
         \A c \in S : sn[c].utilisation \in Nat \X (Nat \ {0}),
         NEW strategy, NEW cursor \in Nat
  PROVE  Score(strategy, S, cursor, sn) \in S
<1>1. Cardinality(S) \in Nat /\ Cardinality(S) # 0
  BY FS_CardinalityType, FS_EmptySet
<1> DEFINE n == Cardinality(S)
<1>2. cursor % n \in Nat /\ cursor % n < n
  <2> HIDE DEF n
  <2>1. n \in Nat \ {0}
    BY <1>1 DEF n
  <2> QED
    BY <2>1
<1>3. RoundRobin(S, cursor) \in S
  BY <1>2, NthExists DEF RoundRobin
<1>4. LeastLoaded(S, sn) \in S
  BY LeastLoadedExists
<1> QED
  BY <1>3, <1>4 DEF Score

\* selectPolicy returns a policy that matches the caller, if one does.
LEMMA SelectPolicyExists ==
  ASSUME NEW pols \in [Policies -> PolicySpecs \cup {None}], NEW id
  PROVE  SelectPolicy(pols, id) # None =>
           /\ SelectPolicy(pols, id) \in Policies
           /\ pols[SelectPolicy(pols, id)] \in PolicySpecs
<1> DEFINE G == Governs(pols, id)
           rank(p) == CHOOSE n \in 0..9 : Matches(pols[p], id, n)
           L == {pq \in G \X G : rank(pq[2]) < rank(pq[1])}
<1>1. \A p \in G : p \in Policies /\ p \in Nat /\ pols[p] \in PolicySpecs
  BY NamesAssumption, Zenon DEF Governs
<1>2. IsFiniteSet(G)
  BY <1>1, NamesAssumption, FS_Subset
<1>3. ASSUME NEW p \in G PROVE rank(p) \in Nat
  <2> DEFINE spec == pols[p]
             T == {m \in 0..9 : \E sel \in spec.subjects :
                     MatchSubject(sel, id) /\ Specificity(sel) = 9 - m}
  <2>1. \A sel \in spec.subjects : Specificity(sel) \in 0..9
    BY <1>1, SpecsAssumption
  <2>2. PICK sel \in spec.subjects : MatchSubject(sel, id)
    BY DEF Governs
  <2>3. 9 - Specificity(sel) \in T
    <3>1. /\ 9 - Specificity(sel) \in 0..9
          /\ 9 - (9 - Specificity(sel)) = Specificity(sel)
      BY <2>1
    <3> QED
      BY <2>2, <3>1
  <2>4. PICK m \in T : \A k \in T : m <= k
    <3>1. T \in SUBSET Nat /\ T # {}
      BY <2>3
    <3> HIDE DEF T
    <3> QED
      BY <3>1, LeastNatural
  <2>5. \A s \in spec.subjects : MatchSubject(s, id) => Specificity(s) <= 9 - m
    <3> SUFFICES ASSUME NEW s \in spec.subjects, MatchSubject(s, id)
                 PROVE  Specificity(s) <= 9 - m
      OBVIOUS
    <3>1. /\ 9 - Specificity(s) \in 0..9
          /\ 9 - (9 - Specificity(s)) = Specificity(s)
      BY <2>1
    <3>2. 9 - Specificity(s) \in T
      BY <3>1
    <3>3. m <= 9 - Specificity(s) /\ Specificity(s) \in 0..9 /\ m \in 0..9
      BY <2>1, <2>4, <3>2
    <3> QED
      BY <3>3
  <2>6. Matches(spec, id, 9 - m) /\ 9 - m \in 0..9
    BY <2>4, <2>5 DEF Matches
  <2>7. rank(p) \in 0..9
    BY <2>6
  <2> HIDE DEF rank
  <2> QED
    BY <2>7
<1> HIDE DEF rank
<1>4. CASE G # {}
  <2>1. \A p, q \in G : <<p, q>> \in L <=> rank(q) < rank(p)
    OBVIOUS
  <2> HIDE DEF L, G
  <2>2. \A p \in G : <<p, p>> \notin L
    BY <1>3, <2>1
  <2>3. ASSUME NEW p \in G, NEW q \in G, NEW r \in G
        PROVE  /\ <<p, q>> \in L /\ <<q, r>> \in L => <<p, r>> \in L
               /\ <<p, r>> \in L => <<p, q>> \in L \/ <<q, r>> \in L
    <3>1. rank(p) \in Nat /\ rank(q) \in Nat /\ rank(r) \in Nat
      BY <1>3
    <3> QED
      BY <2>1, <3>1
  <2>4. PICK p \in G : \A q \in G \ {p} :
          <<p, q>> \in L \/ (<<q, p>> \notin L /\ p < q)
    <3>1. G \in SUBSET Nat
      BY <1>1
    <3> QED
      BY <1>2, <1>4, <2>2, <2>3, <3>1, LeastByName, Zenon
  <2>5. ASSUME NEW q \in G
        PROVE  rank(q) < rank(p) \/ (rank(q) = rank(p) /\ p <= q)
    <3>1. /\ rank(p) \in Nat /\ rank(q) \in Nat /\ p \in Nat /\ q \in Nat
      BY <1>1, <1>3
    <3>2. CASE q = p
      BY <3>1, <3>2
    <3>3. CASE q # p
      <4>1. rank(q) < rank(p) \/ (~(rank(p) < rank(q)) /\ p < q)
        BY <2>1, <2>4, <3>3, Zenon
      <4> QED
        BY <3>1, <4>1
    <3> QED
      BY <3>2, <3>3
  <2>6. SelectPolicy(pols, id) \in G
    BY <1>4, <2>5, Zenon DEF SelectPolicy, rank, G
  <2> QED
    BY <1>1, <2>6
<1>5. CASE G = {}
  BY <1>5 DEF SelectPolicy
<1> QED
  BY <1>4, <1>5

\* The engine's choices exist: selectPolicy's and score's.
THEOREM EngineAlwaysChooses == EngineChooses
<1>1. ASSUME NEW S \in SUBSET Cells, NEW cursor \in Nat, NEW sn, NEW strategy,
             S # {}, \A c \in S : sn[c].utilisation \in Nat \X (Nat \ {0})
      PROVE  Score(strategy, S, cursor, sn) \in S
  <2>1. S \in SUBSET Nat /\ IsFiniteSet(S)
    BY NamesAssumption, FS_Subset, Zenon
  <2> QED
    BY <1>1, <2>1, ScoreExists
<1> QED
  BY <1>1, SelectPolicyExists DEF EngineChooses

-----------------------------------------------------------------------------
(***************************************************************************)
(* What every behaviour of the handlers keeps.                             *)
(***************************************************************************)
LEMMA IInvAlways == Spec => []IInv
<1>1. IInv /\ [Next]_vars => IInv'
  BY EngineAlwaysChooses, NextIInv
<1> QED
  BY InitIInv, <1>1, PTL DEF Spec

\* For every request, whatever others do at the same time: an answer has the
\* audit records it claims, written first, for the same cell and policy
\* (handlePlacement, refuse and the audit of a mint).
THEOREM TrailIsComplete == Spec => []TrailTellsAnswer
<1>1. IInv => TrailTellsAnswer
  BY Zenon DEF IInv, Good, Stage, Told, TrailTellsAnswer
<1> QED
  BY IInvAlways, <1>1, PTL

\* For every registry and every sequence of edits to it: the cell granted was
\* open to the request, and had fresh capacity, since the request arrived
\* (Engine.Place, filter, keep and score).
THEOREM GrantsOpenCells == Spec => []GrantedCellWasOpen
<1>1. IInv => GrantedCellWasOpen
  BY SMTT(20) DEF IInv, Good, Watched, GrantedCellWasOpen
<1> QED
  BY IInvAlways, <1>1, PTL

\* A refusal that a stance may answer is given only before a cell is decided
\* on and a token issued (refusal.Optimisation, handlePlacement).
THEOREM MintFailsClosed == Spec => []FallbackOnlyBeforeMint
<1>1. IInv => FallbackOnlyBeforeMint
  BY SMTT(20) DEF IInv, Good, Stage, FallbackOnlyBeforeMint
<1> QED
  BY IInvAlways, <1>1, PTL

\* For every policy, request, label and lifetime a cell may issue: what leaves
\* the hub respects the ceiling (ResolveTTL, Broker.Mint).
THEOREM CeilingIsKept == Spec => []HandedOutWithinCeiling
<1>1. IInv => HandedOutWithinCeiling
  BY SMTT(20) DEF IInv, Good, Stage, HandedOutWithinCeiling
<1> QED
  BY IInvAlways, <1>1, PTL

\* For any number of concurrent requests and any registry, the handler makes
\* placements as Placement promises them: every step of it is one step of one
\* of them, the end of all under way, or nothing a client could tell
\* (handlePlacement, Engine.Place, Broker.Mint).
THEOREM PlacementsAreKept == Spec => ImplementsPlacement
<1>1. Init => Abstract!Init
  BY Zenon DEF Init, Abstract!Init, Chosen, Issued, Gone, Chose, Got, Died
<1>2. IInv /\ [Next]_vars => [Abstract!Next]_<<Chosen, Issued, answer, Gone>>
  BY EngineAlwaysChooses, NextView, Zenon DEF Stutter
<1> QED
  BY IInvAlways, <1>1, <1>2, PTL
     DEF Spec, ImplementsPlacement, Abstract!Spec, Abstract!vars

=============================================================================
