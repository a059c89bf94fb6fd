\* Every history of three edits, failures and restarts around one cell and one
\* policy, and of four around a trust configuration and its Secret.
SPECIFICATION MCSpec
CONSTANTS
  Cells = {c1}
  Budget = 3
  TrustBudget = 4
  Specs <- MCSpecs
  None = None
  Nil = Nil
INVARIANTS
  ClaimedGenerationIsTrue
  WritesFollowEdits
PROPERTIES
  StateChangeIsConfined
  StatusesSettle
  StatusForetellsMint
  TrustBecomesReady
CHECK_DEADLOCK FALSE
