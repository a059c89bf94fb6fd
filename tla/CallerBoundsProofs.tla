------------------------- MODULE CallerBoundsProofs -------------------------
(***************************************************************************)
(* What the hub holds one caller to.  TokenLifetime, for every set of env  *)
(* labels and every set of durations; and CallerLimiter, for every rate,   *)
(* burst, number of callers and handlers, and any lateness of a handler.   *)
(***************************************************************************)
EXTENDS CallerLimiter, TokenLifetime, TLAPS

-----------------------------------------------------------------------------
(***************************************************************************)
(* How long its credentials live.                                          *)
(***************************************************************************)
\* The built-in table has positive bounds, and the fallback is its least.
LEMMA BuiltInBounds ==
  ASSUME NEW env
  PROVE  /\ BoundsFor(env) \in [default : Nat, max : Nat]
         /\ BoundsFor("unlabelled").default <= BoundsFor(env).default
         /\ BoundsFor("unlabelled").max <= BoundsFor(env).max
  BY DEF BoundsFor

\* Policy and ceiling leave bounds that are durations, the default within the
\* maximum and the maximum within the ceiling.
LEMMA EffectiveBounds ==
  ASSUME NEW env, NEW policy \in [default : Nat, max : Nat],
         NEW ceiling \in Nat
  PROVE  LET b == Ceiled(Overridden(BoundsFor(env), policy), ceiling) IN
         /\ b.default \in Nat /\ b.max \in Nat
         /\ b.default <= b.max
         /\ ceiling > 0 => b.max <= ceiling
<1> DEFINE o == Overridden(BoundsFor(env), policy)
<1>1. o.default \in Nat /\ o.max \in Nat
  BY BuiltInBounds DEF Overridden
<1> HIDE DEF o
<1>2. Ceiled(o, ceiling).default \in Nat /\ Ceiled(o, ceiling).max \in Nat
  BY <1>1 DEF Ceiled, Least
<1>3. Ceiled(o, ceiling).default <= Ceiled(o, ceiling).max
  BY <1>1 DEF Ceiled, Least
<1>4. ceiling > 0 => Ceiled(o, ceiling).max <= ceiling
  BY <1>1 DEF Ceiled, Least
<1> QED
  BY <1>2, <1>3, <1>4 DEF o

\* Raising a value within a maximum to a floor within it stays between them,
\* and undoes no cut.
LEMMA RaisedToFloor ==
  ASSUME NEW max \in Nat, NEW floor \in Nat, floor <= max,
         NEW asked \in Nat, asked <= max
  PROVE  /\ Greatest(asked, floor) \in Nat
         /\ floor <= Greatest(asked, floor) /\ Greatest(asked, floor) <= max
         /\ asked <= Greatest(asked, floor)
  BY DEF Greatest

\* What ResolveTTL returns, in terms of the effective bounds.
LEMMA Resolution ==
  ASSUME NEW a \in [env : Envs, policy : [default : Nat, max : Nat],
                    requested : Nat, ceiling : Nat, floor : Nat]
  PROVE  LET b == Ceiled(Overridden(BoundsFor(a.env), a.policy), a.ceiling)
             r == Resolved(a)
             asked == IF a.requested > 0 THEN Least(a.requested, b.max)
                      ELSE b.default
         IN  /\ r.max = b.max
             /\ r.granted = Greatest(asked, a.floor)
             /\ r.ok <=> ~(a.floor > 0 /\ b.max < a.floor)
             /\ r.clamped <=> a.requested > b.max
  BY Zenon DEF Resolved, ResolveTTL

LEMMA AsksAreDurations ==
  Asks \subseteq [env : Envs, policy : [default : Nat, max : Nat],
                  requested : Nat, ceiling : Nat, floor : Nat]
  BY DEF Asks, Minutes

\* Every ask, reachable or not, is granted within its bounds and told
\* honestly of a clamp.
LEMMA ResolvedWithinBounds ==
  ASSUME NEW a \in Asks
  PROVE  LET r == Resolved(a) IN
         /\ r.ok => (a.floor <= r.granted /\ r.granted <= r.max)
         /\ a.ceiling > 0 => r.max <= a.ceiling
         /\ r.ok => (r.clamped <=> a.requested > r.granted)
<1> DEFINE b == Ceiled(Overridden(BoundsFor(a.env), a.policy), a.ceiling)
           asked == IF a.requested > 0 THEN Least(a.requested, b.max)
                    ELSE b.default
<1>1. /\ a.policy \in [default : Nat, max : Nat]
      /\ a.requested \in Nat /\ a.ceiling \in Nat /\ a.floor \in Nat
  BY AsksAreDurations
<1>2. /\ b.default \in Nat /\ b.max \in Nat /\ b.default <= b.max
      /\ a.ceiling > 0 => b.max <= a.ceiling
  BY <1>1, EffectiveBounds
<1>3. /\ Resolved(a).max = b.max
      /\ Resolved(a).granted = Greatest(asked, a.floor)
      /\ Resolved(a).ok <=> ~(a.floor > 0 /\ b.max < a.floor)
      /\ Resolved(a).clamped <=> a.requested > b.max
  BY AsksAreDurations, Resolution
<1> HIDE DEF b
<1>4. /\ asked \in Nat /\ asked <= b.max
      /\ a.requested > b.max => asked = b.max
      /\ (0 < a.requested /\ a.requested <= b.max) => asked = a.requested
  BY <1>1, <1>2 DEF Least
<1> HIDE DEF asked
<1>5. ASSUME Resolved(a).ok
      PROVE  /\ a.floor <= Resolved(a).granted
             /\ Resolved(a).granted <= Resolved(a).max
             /\ Resolved(a).clamped <=> a.requested > Resolved(a).granted
  <2>1. a.floor <= b.max
    BY <1>1, <1>2, <1>3, <1>5
  <2> DEFINE g == Greatest(asked, a.floor)
  <2>2. g \in Nat /\ a.floor <= g /\ g <= b.max /\ asked <= g
    BY <1>1, <1>2, <1>4, <2>1, RaisedToFloor, Zenon
  <2>3. Resolved(a).granted = g
    BY <1>3
  <2> HIDE DEF g
  <2>4. a.requested > b.max <=> a.requested > g
    BY <1>1, <1>2, <1>4, <2>2
  <2> QED
    BY <1>3, <2>2, <2>3, <2>4
<1>6. a.ceiling > 0 => Resolved(a).max <= a.ceiling
  BY <1>2, <1>3
<1> QED
  BY <1>5, <1>6

LEMMA AskStep == AskTypeOK /\ [AskNext]_ask => AskTypeOK'
<1> SUFFICES ASSUME AskTypeOK, [AskNext]_ask PROVE AskTypeOK'
  OBVIOUS
<1>1. ASSUME NEW d \in Minutes, Request(d) PROVE AskTypeOK'
  BY <1>1 DEF AskTypeOK, Asks, Request
<1>2. ASSUME NEW d \in Minutes, Configure(d) PROVE AskTypeOK'
  BY <1>2 DEF AskTypeOK, Asks, Configure
<1>3. ASSUME NEW e \in Envs, Relabel(e) PROVE AskTypeOK'
  BY <1>3 DEF AskTypeOK, Asks, Relabel
<1>4. ASSUME NEW p \in [default : Minutes, max : Minutes], EditPolicy(p)
      PROVE  AskTypeOK'
  BY <1>4 DEF AskTypeOK, Asks, EditPolicy
<1>5. CASE UNCHANGED ask
  BY <1>5 DEF AskTypeOK
<1> QED
  BY <1>1, <1>2, <1>3, <1>4, <1>5 DEF AskNext

\* The arguments of ResolveTTL stay arguments it is defined for.
THEOREM AsksTyped == AskSpec => []AskTypeOK
<1>1. AskInit => AskTypeOK
  BY DEF AskInit, AskTypeOK
<1> QED
  BY <1>1, AskStep, PTL DEF AskSpec

\* No credential is granted outside the provider's floor, the effective
\* maximum and the hub's ceiling (ResolveTTL).
THEOREM GrantsAreBounded == AskSpec => []GrantIsBounded
<1>1. AskTypeOK => GrantIsBounded
  BY ResolvedWithinBounds DEF AskTypeOK, GrantIsBounded
<1> QED
  BY <1>1, AsksTyped, PTL

\* A caller is told of a clamp exactly when there was one (ResolveTTL).
THEOREM ClampsAreReported == AskSpec => []ClampIsReported
<1>1. AskTypeOK => ClampIsReported
  BY ResolvedWithinBounds DEF AskTypeOK, ClampIsReported
<1> QED
  BY <1>1, AsksTyped, PTL

\* A caller moves its lifetime within bounds it cannot move (ResolveTTL).
THEOREM CallersChooseWithin == AskSpec => CallerOnlyChoosesWithin
<1> DEFINE Step == ask' = [ask EXCEPT !.requested = ask'.requested] =>
             LET r == Resolved(ask) s == Resolved(ask') IN
             /\ s.max = r.max /\ (s.ok <=> r.ok)
             /\ (0 < ask.requested /\ ask.requested <= ask'.requested)
                  => r.granted <= s.granted
<1>1. ASSUME AskTypeOK, AskTypeOK' PROVE Step
  <2> SUFFICES ASSUME ask' = [ask EXCEPT !.requested = ask'.requested]
               PROVE  LET r == Resolved(ask) s == Resolved(ask') IN
                      /\ s.max = r.max /\ (s.ok <=> r.ok)
                      /\ (0 < ask.requested /\ ask.requested <= ask'.requested)
                           => r.granted <= s.granted
    OBVIOUS
  <2> DEFINE b == Ceiled(Overridden(BoundsFor(ask.env), ask.policy), ask.ceiling)
  <2>1. /\ ask'.env = ask.env /\ ask'.policy = ask.policy
        /\ ask'.ceiling = ask.ceiling /\ ask'.floor = ask.floor
        /\ ask.requested \in Nat /\ ask'.requested \in Nat
        /\ ask.floor \in Nat /\ ask.ceiling \in Nat
        /\ ask.policy \in [default : Nat, max : Nat]
    BY <1>1, AsksAreDurations DEF AskTypeOK, Asks
  <2>2. b.max \in Nat
    BY <2>1, EffectiveBounds
  <2>3. /\ Resolved(ask).max = b.max
        /\ Resolved(ask).ok <=> ~(ask.floor > 0 /\ b.max < ask.floor)
        /\ 0 < ask.requested => Resolved(ask).granted =
             Greatest(Least(ask.requested, b.max), ask.floor)
    BY <1>1, AsksAreDurations, Resolution DEF AskTypeOK
  <2>4. /\ Resolved(ask').max = b.max
        /\ Resolved(ask').ok <=> ~(ask.floor > 0 /\ b.max < ask.floor)
        /\ 0 < ask'.requested => Resolved(ask').granted =
             Greatest(Least(ask'.requested, b.max), ask.floor)
    BY <1>1, <2>1, AsksAreDurations, Resolution DEF AskTypeOK
  <2> HIDE DEF b
  <2>5. (0 < ask.requested /\ ask.requested <= ask'.requested)
          => Resolved(ask).granted <= Resolved(ask').granted
    BY <2>1, <2>2, <2>3, <2>4 DEF Greatest, Least
  <2> QED
    BY <2>3, <2>4, <2>5
<1> QED
  BY <1>1, AsksTyped, PTL DEF CallerOnlyChoosesWithin

\* Losing a cell's label never lengthens a credential (strictestBounds).
THEOREM UnlabelledIsLeast == AskSpec => UnlabelledIsStrictest
<1> DEFINE Unset == [default |-> 0, max |-> 0]
           Step == (/\ ask' = [ask EXCEPT !.env = "unlabelled"]
                    /\ ask.policy = [default |-> 0, max |-> 0])
             => /\ Resolved(ask').max <= Resolved(ask).max
                /\ Resolved(ask').granted <= Resolved(ask).granted
<1>1. ASSUME AskTypeOK, AskTypeOK' PROVE Step
  <2> SUFFICES ASSUME ask' = [ask EXCEPT !.env = "unlabelled"],
                      ask.policy = [default |-> 0, max |-> 0]
               PROVE  /\ Resolved(ask').max <= Resolved(ask).max
                      /\ Resolved(ask').granted <= Resolved(ask).granted
    OBVIOUS
  <2> DEFINE b == Ceiled(BoundsFor(ask.env), ask.ceiling)
             c == Ceiled(BoundsFor("unlabelled"), ask.ceiling)
             Asked(x) == IF ask.requested > 0 THEN Least(ask.requested, x.max)
                         ELSE x.default
  <2>1. /\ ask'.env = "unlabelled" /\ ask'.policy = Unset
        /\ ask'.ceiling = ask.ceiling /\ ask'.floor = ask.floor
        /\ ask'.requested = ask.requested /\ ask.requested \in Nat
        /\ ask.floor \in Nat /\ ask.ceiling \in Nat
    BY <1>1, AsksAreDurations DEF AskTypeOK, Asks
  <2>2. /\ Overridden(BoundsFor(ask.env), Unset) = BoundsFor(ask.env)
        /\ Overridden(BoundsFor("unlabelled"), Unset) = BoundsFor("unlabelled")
    BY BuiltInBounds DEF Overridden
  <2>3. /\ b.default \in Nat /\ b.max \in Nat /\ c.default \in Nat /\ c.max \in Nat
        /\ c.default <= b.default /\ c.max <= b.max
    BY <2>1, BuiltInBounds DEF Ceiled, Least
  <2>4. /\ Resolved(ask).max = b.max
        /\ Resolved(ask).granted = Greatest(Asked(b), ask.floor)
    BY <1>1, <2>2, AsksAreDurations, Resolution DEF AskTypeOK
  <2>5. /\ Resolved(ask').max = c.max
        /\ Resolved(ask').granted = Greatest(Asked(c), ask.floor)
    BY <1>1, <2>1, <2>2, AsksAreDurations, Resolution DEF AskTypeOK
  <2> HIDE DEF b, c
  <2>6. Asked(c) \in Nat /\ Asked(b) \in Nat /\ Asked(c) <= Asked(b)
    BY <2>1, <2>3 DEF Least
  <2> HIDE DEF Asked
  <2>7. Greatest(Asked(c), ask.floor) <= Greatest(Asked(b), ask.floor)
    BY <2>1, <2>6 DEF Greatest
  <2> QED
    BY <2>3, <2>4, <2>5, <2>7
<1> QED
  BY <1>1, AsksTyped, PTL DEF UnlabelledIsStrictest

-----------------------------------------------------------------------------
(***************************************************************************)
(* The bucket.                                                             *)
(***************************************************************************)
\* A bucket holds at least one placement (the burst that Validate requires).
LEMMA FullFacts == Full \in Nat /\ Full >= Cost /\ Cost \in Nat /\ Cost > 0
<1>1. Cost \in Nat /\ Cost > 0 /\ Burst \in Nat /\ Burst > 0
  BY LimitAssumption DEF ValidLimits
<1>2. \A m \in Nat : m * Cost \in Nat
  BY <1>1
<1>3. PICK m \in Nat : Burst = m + 1
  <2>1. Burst - 1 \in Nat /\ Burst = (Burst - 1) + 1
    BY <1>1
  <2>2. QED
    BY <2>1
<1>4. Burst * Cost = m * Cost + Cost
  BY <1>1, <1>3
<1>5. QED
  BY <1>1, <1>2, <1>3, <1>4 DEF Full

\* Retry-After never falls short of the wait (the rounding of placement_api).
LEMMA RetryAfterCovers ==
  ASSUME NEW w \in Nat
  PROVE  RetryAfter(w) \in Nat /\ RetryAfter(w) >= w
<1>1. Second \in Nat /\ Second > 0
  BY LimitAssumption
<1>2. CASE w <= Second
  BY <1>1, <1>2 DEF RetryAfter
<1>3. CASE w > Second
  <2> DEFINE q == (w + Second - 1) \div Second
             r == (w + Second - 1) % Second
  <2>1. q \in Int /\ r \in 0..(Second - 1) /\ w + Second - 1 = Second * q + r
    BY <1>1
  <2>2. Second * q >= w /\ Second * q \in Int
    BY <2>1, <1>1
  <2>3. RetryAfter(w) = Second * q
    BY <1>3, <1>1 DEF RetryAfter
  <2> QED
    BY <2>2, <2>3
<1> QED
  BY <1>1, <1>2, <1>3

\* What asking a bucket does to it (ReserveN and CancelAt).
LEMMA AdvanceFacts ==
  ASSUME NEW b \in Buckets, NEW t \in Nat
  PROVE  /\ Advance(b, t) \in Buckets
         /\ Advance(b, t).last = t
         /\ Advance(b, t).tokens >= b.tokens
         /\ Advance(b, t).tokens <= Full
         /\ t < b.last => Advance(b, t).tokens = b.tokens
         /\ t >= b.last => Advance(b, t).tokens <= b.tokens + (t - b.last)
         /\ t >= b.last => \/ Advance(b, t).tokens = Full
                           \/ Advance(b, t).tokens = b.tokens + (t - b.last)
BY FullFacts DEF Advance, Buckets, Lesser

LEMMA ReserveFacts ==
  ASSUME NEW b \in Buckets, NEW t \in Nat
  PROVE  /\ Reserve(b, t) \in Buckets
         /\ Reserve(b, t).last = t
         /\ Grants(b, t) => Reserve(b, t).tokens = Advance(b, t).tokens - Cost
         /\ ~Grants(b, t) => Reserve(b, t).tokens = Advance(b, t).tokens
<1> DEFINE a == Advance(b, t)
<1>1. a \in Buckets /\ a.last = t
  BY AdvanceFacts
<1>2. CASE Grants(b, t)
  <2>1. a.tokens - Cost \in 0..Full
    BY <1>1, <1>2, FullFacts DEF Grants, Buckets
  <2> QED
    BY <1>1, <1>2, <2>1 DEF Reserve, Buckets
<1>3. CASE ~Grants(b, t)
  BY <1>1, <1>3 DEF Reserve
<1> QED
  BY <1>2, <1>3

LEMMA NewBucketFacts ==
  ASSUME NEW t \in Nat
  PROVE  /\ NewBucket(t) \in Buckets /\ NewBucket(t).last = t
         /\ NewBucket(t).tokens = Full /\ Grants(NewBucket(t), t)
<1>1. NewBucket(t) \in Buckets /\ NewBucket(t).last = t /\ NewBucket(t).tokens = Full
  BY FullFacts DEF NewBucket, Buckets
<1> QED
  BY <1>1, AdvanceFacts, FullFacts DEF Grants, Buckets
-----------------------------------------------------------------------------
(***************************************************************************)
(* The inductive invariant.                                                *)
(***************************************************************************)
\* Nothing is dated in the future, and no handler is later than MaxLate.
Dated ==
  /\ \A h \in Handlers :
       request[h] # None => now - MaxLate <= request[h].at /\ request[h].at <= now
  /\ \A c \in Callers :
       callers[c] # None =>
         callers[c].seen = callers[c].bucket.last /\ callers[c].seen <= now
  /\ callers[Watched] # None => mark = callers[Watched].bucket.last
  /\ mark <= now

\* Units granted or still held were in the bucket or earned since; a bucket
\* that was dropped counts as full at the time it was dropped.
Accounted ==
  spent > 0 =>
    IF callers[Watched] # None
    THEN spent + callers[Watched].bucket.tokens <= Full + rewound + (mark - since)
    ELSE spent <= rewound + (mark - since)

\* A bucket that was dropped would be full for the latest of handlers.
Forgotten ==
  Full + MaxLate <= Idle =>
    IF callers[Watched] # None THEN callers[Watched].bucket = eternal
    ELSE eternal.tokens = Full \/ eternal.last + Full + MaxLate <= now

\* What a caller was promised is there in time.
Promised ==
  promise # None /\ callers[Watched] # None =>
    LET b == callers[Watched].bucket
    IN  b.last < promise /\ b.tokens + (promise - b.last) >= Cost

IInv == TypeOK /\ Dated /\ Accounted /\ Forgotten /\ Promised

LEMMA InitIInv == Init => IInv
<1> SUFFICES ASSUME Init PROVE IInv
  OBVIOUS
<1>1. TypeOK
  BY FullFacts, LimitAssumption, NewBucketFacts DEF Init, TypeOK
<1>2. QED
  BY <1>1, FullFacts, LimitAssumption, NewBucketFacts
     DEF Init, IInv, Dated, Accounted, Forgotten, Promised

\* Reading the clock and the passing of time.
LEMMA ArriveIInv ==
  ASSUME IInv, NEW h \in Handlers, NEW c \in Callers, Arrive(h, c)
  PROVE  IInv'
<1>1. TypeOK'
  BY DEF IInv, TypeOK, Arrive, histories
<1>2. Dated'
  BY LimitAssumption DEF IInv, TypeOK, Arrive, histories, Dated
<1>3. Accounted' /\ Forgotten' /\ Promised'
  BY DEF IInv, Arrive, histories, Accounted, Forgotten, Promised
<1> QED
  BY <1>1, <1>2, <1>3 DEF IInv

LEMMA TickIInv ==
  ASSUME IInv, Tick
  PROVE  IInv'
<1>1. TypeOK'
  BY DEF IInv, TypeOK, Tick, histories
<1>2. Dated'
  <2>1. \A d \in Callers : callers[d] # None => callers[d].seen \in Nat
    BY DEF IInv, TypeOK, Entries
  <2> QED
    BY <2>1, LimitAssumption DEF IInv, TypeOK, Tick, histories, Dated
<1>3. Accounted' /\ Promised'
  BY DEF IInv, Tick, histories, Accounted, Promised
<1>4. Forgotten'
  BY FullFacts, LimitAssumption
     DEF IInv, Tick, histories, Forgotten, TypeOK, Buckets, Entries
<1> QED
  BY <1>1, <1>2, <1>3, <1>4 DEF IInv

LEMMA IdleFacts == Idle \in Nat /\ Idle >= Full
BY FullFacts, LimitAssumption DEF Idle

\* A sweep leaves an entry alone or drops it, and then not before Idle.
LEMMA SweptFacts ==
  ASSUME TypeOK, NEW t \in Nat, NEW d \in Callers
  PROVE  /\ Swept(t) = [x \in Callers |-> Swept(t)[x]]
         /\ \/ Swept(t)[d] = callers[d]
            \/ /\ Swept(t)[d] = None /\ callers[d] # None
               /\ t - callers[d].seen >= Idle
BY DEF Swept, TypeOK

\* One call of allow.
LEMMA AllowIInv ==
  ASSUME IInv, NEW h \in Handlers, Allow(h)
  PROVE  IInv'
<1> DEFINE c == request[h].caller
           t == request[h].at
           kept == Swept(t)
           b == IF kept[c] = None THEN NewBucket(t) ELSE kept[c].bucket
           W == Watched
<1>1. /\ TypeOK /\ c \in Callers /\ t \in Nat
      /\ now - MaxLate <= t /\ t <= now /\ W \in Callers
      /\ MaxLate \in Nat /\ request[h] # None
  BY LimitAssumption DEF IInv, TypeOK, Dated, Allow
<1>2. /\ callers' = [kept EXCEPT ![c] = Used(b, t)]
      /\ lastSweep' = IF t - lastSweep >= SweepEvery THEN t ELSE lastSweep
      /\ request' = [request EXCEPT ![h] = None]
      /\ IF c = W THEN Observed(b, t)
         ELSE UNCHANGED <<eternal, promise, spent, rewound>>
      /\ mark' = IF c = W \/ kept[W] # callers[W] THEN t ELSE mark
      /\ now' = now /\ since' = since
  BY DEF Allow
<1>3. \A d \in Callers :
        \/ kept[d] = callers[d]
        \/ kept[d] = None /\ callers[d] # None /\ t - callers[d].seen >= Idle
  BY <1>1, SweptFacts
<1>4. kept = [d \in Callers |-> kept[d]]
  BY <1>1, SweptFacts
<1>5. b \in Buckets
  <2>1. CASE kept[c] = None
    BY <2>1, <1>1, NewBucketFacts
  <2>2. CASE kept[c] # None
    <3>1. kept[c] = callers[c] /\ callers[c] \in Entries
      BY <2>2, <1>1, <1>3 DEF TypeOK
    <3> QED
      BY <3>1, <2>2 DEF Entries
  <2> QED
    BY <2>1, <2>2
<1> DEFINE e == [bucket |-> Reserve(b, t), seen |-> t]
<1>6. /\ e \in Entries /\ e.bucket.last = t
      /\ e.bucket = Reserve(b, t) /\ e.seen = t /\ e # None
  <2>1. Reserve(b, t) \in Buckets /\ Reserve(b, t).last = t
    BY <1>1, <1>5, ReserveFacts, Zenon
  <2>2. e \in Entries
    BY <2>1, <1>1 DEF Entries
  <2> QED
    BY <2>1, <2>2, NoneAssumption, SMTT(20)
<1>7. /\ callers'[c] = e
      /\ \A d \in Callers : d # c => callers'[d] = kept[d]
      /\ DOMAIN callers' = Callers
      /\ callers' \in [Callers -> Entries \cup {None}]
  <2>1. \A d \in Callers : kept[d] \in Entries \cup {None}
    BY <1>1, <1>3, Zenon DEF TypeOK
  <2>2. callers' = [kept EXCEPT ![c] = e]
    BY <1>2, SMTT(20) DEF Used
  <2> HIDE DEF kept, e, c
  <2> QED
    BY <1>1, <1>4, <1>6, <2>1, <2>2
<1>8. request' \in [Handlers -> [caller : Callers, at : Nat] \cup {None}]
  BY <1>1, <1>2 DEF TypeOK
<1> DEFINE old == callers[W]
           tok == old.bucket.tokens
<1>9. /\ now \in Nat /\ mark \in Nat /\ since \in Nat /\ spent \in Nat
      /\ rewound \in Nat /\ eternal \in Buckets /\ promise \in Nat \cup {None}
      /\ lastSweep \in Int /\ mark <= now
      /\ old # None => /\ old.bucket \in Buckets /\ tok \in Nat /\ tok <= Full
                       /\ old.bucket.last = mark /\ old.seen = mark
  BY <1>1, FullFacts DEF IInv, Dated, TypeOK, Entries, Buckets
<1>10. mark' \in Nat /\ mark' <= now /\ lastSweep' \in Int
  BY <1>1, <1>2, <1>9
<1>11. /\ \A g \in Handlers :
            request'[g] # None =>
              now' - MaxLate <= request'[g].at /\ request'[g].at <= now'
       /\ \A d \in Callers :
            callers'[d] # None => /\ callers'[d].seen = callers'[d].bucket.last
                                  /\ callers'[d].seen <= now'
  <2>1. \A d \in Callers :
          callers[d] # None => /\ callers[d].seen = callers[d].bucket.last
                               /\ callers[d].seen <= now
    BY DEF IInv, Dated
  <2>2. ASSUME NEW d \in Callers, callers'[d] # None
        PROVE  callers'[d].seen = callers'[d].bucket.last /\ callers'[d].seen <= now'
    <3>1. CASE d = c
      BY <3>1, <1>1, <1>2, <1>6, <1>7, Zenon
    <3>2. CASE d # c
      <4>1. callers'[d] = callers[d]
        BY <3>2, <2>2, <1>3, <1>7
      <4> QED
        BY <4>1, <2>1, <2>2, <1>2
    <3> QED
      BY <3>1, <3>2
  <2>3. ASSUME NEW g \in Handlers, request'[g] # None
        PROVE  now' - MaxLate <= request'[g].at /\ request'[g].at <= now'
    <3>1. request'[g] = request[g]
      BY <1>1, <1>2, <2>3 DEF TypeOK
    <3> QED
      BY <3>1, <2>3, <1>2 DEF IInv, Dated
  <2> QED
    BY <2>2, <2>3
<1>12. Full \in Nat /\ Cost \in Nat /\ Cost > 0 /\ Full >= Cost /\ Idle >= Full
       /\ Idle \in Nat
  BY FullFacts, IdleFacts
<1>13. CASE c # W
  <2>1. /\ UNCHANGED <<eternal, promise, spent, rewound, since, now>>
        /\ callers'[W] = kept[W]
    BY <1>1, <1>2, <1>7, <1>13, SMTT(20)
  <2>2. TypeOK'
    BY <2>1, <1>7, <1>8, <1>9, <1>10, SMTT(20) DEF TypeOK
  <2>3. CASE kept[W] = callers[W]
    <3>1. callers'[W] = callers[W] /\ mark' = mark
      BY <2>1, <2>3, <1>2, <1>13
    <3>2. Dated'
      BY <3>1, <1>9, <1>10, <1>11, <2>1, SMTT(20) DEF Dated
    <3>3. Accounted' /\ Forgotten' /\ Promised'
      BY <3>1, <2>1, SMTT(20) DEF IInv, Accounted, Forgotten, Promised
    <3> QED
      BY <2>2, <3>2, <3>3 DEF IInv
  <2>4. CASE kept[W] # callers[W]
    <3>1. callers'[W] = None /\ mark' = t /\ old # None /\ t - mark >= Idle
      BY <2>1, <2>4, <1>1, <1>2, <1>3, <1>9, SMTT(20)
    <3>2. Dated'
      BY <3>1, <1>10, <1>11, <2>1 DEF Dated
    <3>3. Accounted'
      <4>1. spent > 0 => spent + tok <= Full + rewound + (mark - since)
        BY <3>1 DEF IInv, Accounted
      <4>2. spent > 0 => spent <= rewound + (t - since)
        BY <4>1, <3>1, <1>1, <1>9, <1>12
      <4> QED
        BY <4>2, <3>1, <2>1 DEF Accounted
    <3>4. Forgotten'
      <4>1. Full + MaxLate <= Idle => old.bucket = eternal
        BY <3>1 DEF IInv, Forgotten
      <4>2. Full + MaxLate <= Idle => eternal.last + Full + MaxLate <= now
        BY <4>1, <3>1, <1>1, <1>9, <1>12
      <4> QED
        BY <4>2, <3>1, <2>1 DEF Forgotten
    <3>5. Promised'
      BY <3>1 DEF Promised
    <3> QED
      BY <2>2, <3>2, <3>3, <3>4, <3>5 DEF IInv
  <2> QED
    BY <2>3, <2>4
<1>14. CASE c = W
  <2> DEFINE adv == Advance(b, t).tokens
             new == Reserve(b, t).tokens
  <2> HIDE DEF b, t, kept, tok, e, adv, new
  <2>1. /\ callers'[W] = e /\ mark' = t /\ now' = now /\ since' = since
        /\ eternal' = Reserve(eternal, t)
        /\ promise' = IF Grants(b, t) THEN None ELSE t + RetryAfter(Wait(b, t))
        /\ spent' = IF Grants(b, t) /\ t >= since THEN spent + Cost ELSE spent
        /\ rewound' = IF spent > 0 /\ t < mark
                      THEN rewound + (mark - t) ELSE rewound
    BY <1>2, <1>7, <1>14 DEF Observed
  <2>2. /\ adv \in Nat /\ adv <= Full /\ new \in Nat
        /\ Grants(b, t) => new = adv - Cost /\ adv >= Cost
        /\ ~Grants(b, t) => new = adv /\ adv < Cost
    <3>1. Advance(b, t) \in Buckets /\ Reserve(b, t) \in Buckets
      BY <1>1, <1>5, AdvanceFacts, ReserveFacts
    <3>2. adv \in Nat /\ adv <= Full /\ new \in Nat
      BY <3>1, <1>12 DEF adv, new, Buckets
    <3>3. Grants(b, t) <=> adv >= Cost
      BY DEF Grants, adv
    <3>4. /\ Grants(b, t) => new = adv - Cost
          /\ ~Grants(b, t) => new = adv
      BY <1>1, <1>5, ReserveFacts DEF adv, new
    <3> QED
      BY <3>2, <3>3, <3>4, <1>12
  <2>3. Wait(b, t) = Cost - adv
    BY DEF Wait, adv
  <2>4. ~Grants(b, t) => /\ Cost - adv \in Nat /\ Cost - adv > 0
                         /\ RetryAfter(Cost - adv) \in Nat
                         /\ RetryAfter(Cost - adv) >= Cost - adv
    BY <2>2, <1>12, RetryAfterCovers
  <2>5. TypeOK'
    <3>1. eternal' \in Buckets
      BY <2>1, <1>1, <1>9, ReserveFacts
    <3>2. promise' \in Nat \cup {None}
      BY <2>1, <2>3, <2>4, <1>1
    <3>3. spent' \in Nat /\ rewound' \in Nat /\ now' \in Nat /\ since' \in Nat
      BY <2>1, <1>1, <1>9, <1>12
    <3> QED
      BY <3>1, <3>2, <3>3, <1>7, <1>8, <1>10 DEF TypeOK
  <2>6. Dated'
    BY <2>1, <1>2, <1>6, <1>10, <1>11, Zenon DEF Dated
  <2>7. Accounted'
    <3>1. CASE spent = 0
      <4>1. spent' > 0 => spent' = Cost /\ t >= since /\ new = adv - Cost
        <5>1. ~Grants(b, t) \/ ~(t >= since) => spent' = 0
          BY <3>1, <2>1
        <5> QED
          BY <5>1, <3>1, <2>1, <2>2, <1>12
      <4>2. spent' > 0 => spent' + new <= Full + rewound' + (t - since)
        BY <4>1, <3>1, <2>1, <2>2, <1>1, <1>9, <1>12
      <4> QED
        BY <4>2, <2>1, <1>6 DEF Accounted, new
    <3>2. CASE spent > 0
      <4>1. spent + adv <= Full + rewound' + (t - since)
        <5>1. CASE kept[W] # None
          <6>1. old # None /\ b = old.bucket
            BY <5>1, <1>1, <1>3, <1>14 DEF b
          <6>2. spent + tok <= Full + rewound + (mark - since)
            BY <6>1, <3>2 DEF IInv, Accounted, tok
          <6>3. /\ t < mark => adv = tok
                /\ t >= mark => adv <= tok + (t - mark)
            BY <6>1, <1>1, <1>9, AdvanceFacts DEF adv, tok
          <6> QED
            BY <6>1, <6>2, <6>3, <3>2, <2>1, <2>2, <1>1, <1>9, <1>12
        <5>2. CASE kept[W] = None /\ callers[W] = None
          <6>1. spent <= rewound + (mark - since)
            BY <5>2, <3>2, SMTT(20) DEF IInv, Accounted
          <6> QED
            BY <6>1, <3>2, <2>1, <2>2, <1>1, <1>9, <1>12, SMTT(20)
        <5>3. CASE kept[W] = None /\ callers[W] # None
          <6>1. t - mark >= Idle
            BY <5>3, <1>1, <1>3, <1>9
          <6>2. spent + tok <= Full + rewound + (mark - since)
            BY <5>3, <3>2 DEF IInv, Accounted, tok
          <6> QED
            BY <5>3, <6>1, <6>2, <3>2, <2>1, <2>2, <1>1, <1>9, <1>12, SMTT(20)
        <5> QED
          BY <5>1, <5>2, <5>3
      <4>2. spent' + new <= spent + adv
        BY <2>1, <2>2, <1>9, <1>12
      <4>3. spent' + new <= Full + rewound' + (t - since)
        <5>1. spent' \in Nat /\ rewound' \in Nat
          BY <2>5 DEF TypeOK
        <5> QED
          BY <4>1, <4>2, <5>1, <2>2, <1>1, <1>9, <1>12
      <4> QED
        BY <4>3, <2>1, <1>6 DEF Accounted, new
    <3> QED
      BY <3>1, <3>2, <1>9
  <2>8. Forgotten'
    <3> SUFFICES ASSUME Full + MaxLate <= Idle
                 PROVE  Reserve(b, t) = Reserve(eternal, t)
      BY <2>1, <1>6 DEF Forgotten
    <3>1. CASE kept[W] # None
      <4>1. old # None /\ b = old.bucket
        BY <3>1, <1>1, <1>3, <1>14 DEF b
      <4> QED
        BY <4>1 DEF IInv, Forgotten
    <3>2. CASE kept[W] = None
      <4>1. eternal.tokens = Full \/ t - eternal.last >= Full
        <5>1. CASE callers[W] = None
          BY <5>1, <1>1, <1>9, <1>12 DEF IInv, Forgotten, Buckets
        <5>2. CASE callers[W] # None
          <6>1. t - mark >= Idle /\ old.bucket = eternal /\ old.bucket.last = mark
            BY <5>2, <3>2, <1>1, <1>3, <1>9 DEF IInv, Forgotten
          <6> QED
            BY <6>1, <1>1, <1>9, <1>12
        <5> QED
          BY <5>1, <5>2
      <4>2. Advance(eternal, t) = [tokens |-> Full, last |-> t]
        BY <4>1, <1>1, <1>9, <1>12 DEF Advance, Lesser, Buckets
      <4>3. b = [tokens |-> Full, last |-> t]
        BY <3>2, <1>14 DEF NewBucket, b
      <4>4. Advance(b, t) = [tokens |-> Full, last |-> t]
        BY <4>3, <1>1, <1>12 DEF Advance, Lesser
      <4> QED
        BY <4>2, <4>4 DEF Reserve, Grants
    <3> QED
      BY <3>1, <3>2
  <2>9. Promised'
    <3>1. e.bucket.last = t /\ e.bucket.tokens = new
      BY <1>6 DEF new
    <3>2. promise' # None => ~Grants(b, t) /\ promise' = t + RetryAfter(Cost - adv)
      BY <2>1, <2>3
    <3>3. promise' # None => t < promise' /\ new + (promise' - t) >= Cost
      BY <3>2, <2>2, <2>4, <1>1, <1>12
    <3> QED
      BY <3>1, <3>3, <2>1 DEF Promised
  <2> QED
    BY <2>5, <2>6, <2>7, <2>8, <2>9 DEF IInv
<1> QED
  BY <1>13, <1>14

\* Every step keeps the invariant.
LEMMA NextIInv == IInv /\ [Next]_vars => IInv'
<1> SUFFICES ASSUME IInv, [Next]_vars PROVE IInv'
  OBVIOUS
<1>1. CASE UNCHANGED vars
  BY <1>1, SMTT(20) DEF vars, histories, IInv, TypeOK, Dated, Accounted,
     Forgotten, Promised
<1>2. CASE Next
  BY <1>1, <1>2, ArriveIInv, AllowIInv, TickIInv DEF Next, Terminated
<1> QED
  BY <1>1, <1>2

-----------------------------------------------------------------------------
\* The three promises of the limiter, whatever its rate and burst.
LEMMA IInvImplies ==
  IInv => GrantsWithinRate /\ ForgettingIsUnobservable /\ WaitIsHonoured
<1> SUFFICES ASSUME IInv
             PROVE  GrantsWithinRate /\ ForgettingIsUnobservable /\ WaitIsHonoured
  OBVIOUS
<1> DEFINE b == callers[Watched].bucket
<1>1. /\ now \in Nat /\ mark \in Nat /\ since \in Nat /\ spent \in Nat
      /\ rewound \in Nat /\ mark <= now /\ promise \in Nat \cup {None}
      /\ callers[Watched] # None => b \in Buckets
  BY LimitAssumption DEF IInv, TypeOK, Dated, Entries
<1>2. GrantsWithinRate
  <2>1. spent > 0 => spent <= Full + rewound + (mark - since)
    BY <1>1, FullFacts DEF IInv, Accounted, Buckets
  <2> QED
    BY <1>1, <2>1, FullFacts DEF GrantsWithinRate
<1>3. ForgettingIsUnobservable
  BY DEF IInv, Forgotten, ForgettingIsUnobservable
<1>4. WaitIsHonoured
  <2> SUFFICES ASSUME promise # None, callers[Watched] # None
               PROVE  Grants(b, promise)
    BY DEF WaitIsHonoured
  <2>1. b.last < promise /\ b.tokens + (promise - b.last) >= Cost
    BY DEF IInv, Promised
  <2>2. promise \in Nat /\ b \in Buckets
    BY <1>1
  <2> QED
    BY <2>1, <2>2, FullFacts DEF Grants, Advance, Lesser, Buckets
<1> QED
  BY <1>2, <1>3, <1>4

\* A caller never gets more than its burst and its rate, in any window, but
\* for the time its bucket was set back by handlers out of order.
THEOREM RateIsKept == Spec => []GrantsWithinRate
BY InitIInv, NextIInv, IInvImplies, PTL DEF Spec

\* Forgetting a caller changes nothing it can observe, as long as no handler
\* is later than the time between refilling and forgetting.
THEOREM ForgettingIsSafe == Spec => []ForgettingIsUnobservable
BY InitIInv, NextIInv, IInvImplies, PTL DEF Spec

\* Whoever waits as told finds a token.
THEOREM WaitsAreHonoured == Spec => []WaitIsHonoured
BY InitIInv, NextIInv, IInvImplies, PTL DEF Spec
=============================================================================
