\* Two requests place one workload through a cache that lags behind the
\* store, while the record expires and is swept.
SPECIFICATION Spec
CONSTANTS
  Workloads = {w1}
  Cells = {c1, c2}
  Replicas = {r1}
  Handlers = {h1, h2}
  ExpireAfter = 2
  RefreshAfter = 1
  MaxPerPolicy = 1
  MaxNow = 2
  MaxWrites = 3
  MaxUID = 1
  None = None
SYMMETRY Symmetry
INVARIANTS
  RememberedWasMinted
PROPERTIES
  RewriteHasCause
  SweepTakesOnlyExpired
