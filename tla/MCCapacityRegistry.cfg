\* Three cells compete for two slots.  The windows have the shape of the
\* defaults: the retention outlives the staleness window by more than a
\* sweep.
SPECIFICATION Spec
CONSTANTS
  Cells = {c1, c2, c3}
  Reports <- MCReports
  Staleness = 2
  ConfiguredRetention = 0
  DefaultRetention = 5
  MaxCells = 2
  PruneInterval = 2
  TimelySweep = TRUE
  None = None
SYMMETRY Symmetry
INVARIANTS
  IndexBounded
  WarnedOncePerSilence
PROPERTIES
  LapseWasWarned
  ImplementsFreshIndex
