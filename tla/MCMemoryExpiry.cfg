\* Every expired record is eventually gone, with the policy deleted and
\* recreated once.
SPECIFICATION FairSpec
CONSTANTS
  Workloads = {w1}
  Cells = {c1}
  Replicas = {r1}
  Handlers = {h1}
  ExpireAfter = 2
  RefreshAfter = 1
  MaxPerPolicy = 1
  MaxNow = 3
  MaxWrites = 2
  MaxUID = 2
  None = None
PROPERTIES
  ExpiredIsSwept
