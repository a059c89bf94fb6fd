\* Two callers and two handlers; a bucket of one placement refills in two
\* ticks and is forgotten after three; a handler is late by at most one.
\* The durations straddle every built-in bound.
SPECIFICATION MCSpec
CONSTANTS
  Callers = {a, b}
  Watched = a
  Handlers = {h1, h2}
  Cost = 2
  Burst = 1
  SweepEvery = 3
  Second = 1
  MaxLate = 1
  MaxTime = 6
  None = None
  Envs = {"prod", "stage", "dev", "unlabelled"}
  Durations = {0, 5, 10, 15, 60, 90}
SYMMETRY Symmetry
INVARIANTS
  GrantsWithinRate
  ForgettingIsUnobservable
  WaitIsHonoured
  GrantIsBounded
  ClampIsReported
