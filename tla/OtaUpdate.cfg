SPECIFICATION FairSpec
CONSTANTS
  Faults = {}
INVARIANTS
  TrialIsSupervised
  Recoverable
PROPERTIES
  TrialRunsOnce
  ImplementsABUpdate
  TrialEnds
