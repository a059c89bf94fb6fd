\* Two cells, one of which is drained or deleted and may lose its agent; a
\* replica restarts once and one relay is lost.
SPECIFICATION FairSpec
CONSTANTS
  Cells = {c1, c2}
  Replicas = {r1, r2}
  Mortal = {c1}
  StaleAfter = 1
  Retention = 1
  WarmupTimeout = 1
  MaxMishaps = 2
  Nil = Nil
PROPERTIES
  
  DeletedCellLapses
