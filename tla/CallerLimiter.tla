--------------------------- MODULE CallerLimiter ----------------------------
(***************************************************************************)
(* The per-caller placement limit of one replica                           *)
(* (internal/hub/ratelimit.go, and the 429 of placement_api.go).           *)
(*                                                                         *)
(* A handler reads the clock and only then takes the limiter's mutex, so   *)
(* the limiter is asked about times out of order.  Time is in ticks and a  *)
(* bucket in ticks as well: a bucket earns one unit per tick and a         *)
(* placement costs Cost units, which is one over the configured rate.      *)
(* Buckets are golang.org/x/time/rate; its floating point is left out.     *)
(***************************************************************************)
EXTENDS Integers

CONSTANTS
  Callers,     \* issuer and subject, the key of the map
  Watched,     \* the caller whose history is kept: any one of them
  Handlers,
  Cost,        \* ticks that earn one placement
  Burst,       \* --placement-burst
  SweepEvery,  \* sweepEvery in ticks
  Second,      \* ticks in a second, the unit of Retry-After
  MaxLate,     \* the longest a handler waits for the mutex
  MaxTime,
  None

\* Config.Validate refuses a rate with no burst, and newCallerLimiter builds no
\* limiter for a rate of zero.
ValidLimits == Cost \in Nat \ {0} /\ Burst \in Nat \ {0}

ASSUME LimitAssumption ==
  /\ ValidLimits
  /\ SweepEvery \in Nat \ {0} /\ Second \in Nat \ {0}
  /\ MaxLate \in Nat /\ Watched \in Callers

Full == Burst * Cost

\* newCallerLimiter: forget a caller no sooner than its bucket has refilled,
\* which takes Full ticks.
Idle == IF Full > SweepEvery THEN Full ELSE SweepEvery

VARIABLES
  now,        \* the replica's clock
  request,    \* per handler: the caller and the time it read, or None
  callers,    \* callerLimiter.callers: [bucket, seen] per caller, or None
  lastSweep,
  \* The watched caller's history:
  eternal,    \* the bucket it would have in a limiter that never forgets
  promise,    \* when it was last told to come back, or None
  mark,       \* when its bucket was last used, or dropped
  since,      \* the time from which on its requests are counted
  spent,      \* the units granted to its counted requests
  rewound     \* the ticks its bucket was set back by meanwhile

histories == <<eternal, promise, mark, since, spent, rewound>>
vars == <<now, request, callers, lastSweep, histories>>

Buckets == [tokens : 0..Full, last : Nat]
Entries == [bucket : Buckets, seen : Nat]

ASSUME NoneAssumption == None \notin Nat /\ None \notin Entries

TypeOK ==
  /\ now \in Nat
  /\ request \in [Handlers -> [caller : Callers, at : Nat] \cup {None}]
  /\ callers \in [Callers -> Entries \cup {None}]
  /\ lastSweep \in Int
  /\ eternal \in Buckets
  /\ promise \in Nat \cup {None}
  /\ mark \in Nat /\ since \in Nat /\ spent \in Nat /\ rewound \in Nat

\* A bucket that starts empty.
NewBucketEmpty(t) == [tokens |-> 0, last |-> t]

\* rate.NewLimiter, at the time of its first use.
NewBucket(t) == [tokens |-> Full, last |-> t]

\* The zero lastSweep is longer ago than any interval.
Init ==
  /\ now = 0
  /\ request = [h \in Handlers |-> None]
  /\ callers = [c \in Callers |-> None]
  /\ lastSweep = 0 - SweepEvery
  /\ eternal = NewBucket(0) /\ promise = None
  /\ mark = 0 /\ since \in 0..MaxTime /\ spent = 0 /\ rewound = 0

-----------------------------------------------------------------------------
Lesser(a, b) == IF a < b THEN a ELSE b

\* Limiter.advance: what the bucket earned since it was last used, no more
\* than its capacity; a time that lies before its last use earns nothing and
\* becomes its last use.
Advance(b, t) ==
  [tokens |-> IF t < b.last THEN b.tokens
              ELSE Lesser(Full, b.tokens + (t - b.last)),
   last |-> t]

\* ReserveN and, when there is a wait, CancelAt: a placement is paid for at
\* once or not at all.
Grants(b, t) == Advance(b, t).tokens >= Cost

\* A reservation cancelled whether or not there is a wait.
ReserveCancelled(b, t) == Advance(b, t)

\* A refusal that keeps what it reserved.
ReserveSpending(b, t) == [Advance(b, t) EXCEPT !.tokens = @ - Cost]

Reserve(b, t) ==
  IF Grants(b, t) THEN [Advance(b, t) EXCEPT !.tokens = @ - Cost]
  ELSE Advance(b, t)

\* DelayFrom of a reservation that had to wait.
Wait(b, t) == Cost - Advance(b, t).tokens

\* Retry-After: whole seconds, rounded up, at least one; in ticks.
RetryAfter(wait) ==
  Second * (IF wait <= Second THEN 1 ELSE (wait + Second - 1) \div Second)

\* sweep, when it is due, of callers not seen for Idle.
Swept(t) ==
  IF t - lastSweep >= SweepEvery
  THEN [c \in Callers |->
          IF callers[c] # None /\ t - callers[c].seen >= Idle
          THEN None ELSE callers[c]]
  ELSE callers

\* The entry once its bucket b was asked at t.
Used(b, t) == [bucket |-> Reserve(b, t), seen |-> t]

-----------------------------------------------------------------------------
\* handlePlacement reads the clock.
Arrive(h, c) ==
  /\ request[h] = None
  /\ request' = [request EXCEPT ![h] = [caller |-> c, at |-> now]]
  /\ UNCHANGED <<now, callers, lastSweep, histories>>

\* What the watched caller saw of a request at t that found bucket b.
Observed(b, t) ==
  /\ eternal' = Reserve(eternal, t)
  /\ promise' = IF Grants(b, t) THEN None ELSE t + RetryAfter(Wait(b, t))
  /\ spent' = IF Grants(b, t) /\ t >= since THEN spent + Cost ELSE spent
  /\ rewound' = IF spent > 0 /\ t < mark THEN rewound + (mark - t) ELSE rewound

\* allow, under the mutex.
Allow(h) ==
  LET c == request[h].caller
      t == request[h].at
      kept == Swept(t)
      b == IF kept[c] = None THEN NewBucket(t) ELSE kept[c].bucket
  IN
  /\ request[h] # None
  /\ callers' = [kept EXCEPT ![c] = Used(b, t)]
  /\ lastSweep' = IF t - lastSweep >= SweepEvery THEN t ELSE lastSweep
  /\ request' = [request EXCEPT ![h] = None]
  /\ IF c = Watched THEN Observed(b, t)
     ELSE UNCHANGED <<eternal, promise, spent, rewound>>
  /\ mark' = IF c = Watched \/ kept[Watched] # callers[Watched] THEN t ELSE mark
  /\ UNCHANGED <<now, since>>

\* Time passes, but not past a handler that is still to get the mutex.
Tick ==
  /\ now < MaxTime
  /\ \A h \in Handlers : request[h] # None => now - request[h].at < MaxLate
  /\ now' = now + 1
  /\ UNCHANGED <<request, callers, lastSweep, histories>>

Terminated ==
  /\ now = MaxTime
  /\ UNCHANGED vars

Next ==
  \/ \E h \in Handlers, c \in Callers : Arrive(h, c)
  \/ \E h \in Handlers : Allow(h)
  \/ Tick
  \/ Terminated

Spec == Init /\ [][Next]_vars

-----------------------------------------------------------------------------
\* The requests a caller makes from any moment on are granted no more than a
\* burst and what the rate earns it in the time that passed, plus the time its
\* bucket was set back by handlers that reached the mutex out of order:
\* forgetting the caller, whenever a sweep happens, earns it nothing (allow,
\* sweep and idle).
GrantsWithinRate ==
  now >= since => spent <= Full + (now - since) + rewound

\* The bucket a caller finds is the one it would have found had the limiter
\* never forgotten anybody, whoever triggered the sweep and however late the
\* caller's own request got the mutex, as long as the bucket refills sooner
\* than it is forgotten by the time a handler may be late (the idle comment:
\* "forgetting changes nothing a caller can observe").
ForgettingIsUnobservable ==
  Full + MaxLate <= Idle =>
    (callers[Watched] # None => callers[Watched].bucket = eternal)

\* A caller told to come back after a number of seconds finds a token then,
\* however often it was refused in between, by whichever of its handlers
\* (CancelAt, and the rounding of Retry-After).
WaitIsHonoured ==
  promise # None /\ callers[Watched] # None =>
    Grants(callers[Watched].bucket, promise)
=============================================================================
