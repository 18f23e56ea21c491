SPECIFICATION Spec
CONSTANTS
  Faults = {"power", "write", "delete", "erase", "select"}
INVARIANTS
  BootedOnTarget
  BootBankVerified
\* After a failed erasure the bank that is selected may not boot: the device
\* then really stops.
CHECK_DEADLOCK FALSE
