SPECIFICATION Spec
CONSTANTS
  v1 = v1  v2 = v2
  Console = Console  Fleet = Fleet
  NumKeys = 2
  Values = {v1, v2}
  Unset = Unset  Torn = Torn  Empty = Empty  Erred = Erred
  Faults = {"reset", "open", "write", "read"}
INVARIANTS
  DifferenceIsPending
  SuccessIsDurable
PROPERTIES
  ImplementsStagedStore
