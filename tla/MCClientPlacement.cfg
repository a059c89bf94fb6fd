\* Two jobs deploy one workload and try it dark in dry runs.
\* A cached decision lives for a second, two ticks.
SPECIFICATION Spec
CONSTANTS
  Jobs = {j1, j2}
  c1 = c1
  Cells = {c1, c2}
  Options <- MCOptions
  CacheTTL = 2
  Second = 2
  Partial = Partial
  None = None
SYMMETRY Symmetry
INVARIANTS
  KubeconfigIsThisRuns
  
  CachedAnswerIsRecent
PROPERTY
  EntrySurvives
