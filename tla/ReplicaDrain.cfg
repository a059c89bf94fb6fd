\* The shutdown signal arrives while startup is about to mark the replica
\* ready.
SPECIFICATION Spec
CONSTANT DrainDelay = 1
INVARIANT
  DrainingIsUnready
