\* One request of every kind under every wiring, with or without a record of
\* an earlier placement, the registry changing under it, and a crash.
SPECIFICATION FairSpec
CONSTANTS
  Handlers = {h1}
  Cells = {1, 2}
  Policies = {1, 2}
  Requests <- AllRequests
  ClusterSpecs <- MCAllSpecs
  PolicySpecs <- AllPolicies
  Entries <- MCAllEntries
  Lifetimes = {61, 300}
  Wirings <- AnyWiring
  InitClusters <- MCInitClusters
  InitPolicies <- MCInitPolicies
  InitSnapshot <- MCInitSnapshot
  InitRemembered <- AnyRecorded
  Ceiling = 60
  Floor = 10
  None = None
  MaxEdits = 2
  MaxCrashes = 1
INVARIANTS
  TrailTellsAnswer
  FallbackOnlyBeforeMint
  GrantedCellWasOpen
PROPERTY
  ImplementsPlacement
  EveryRequestEnds
