SPECIFICATION Spec
CONSTANTS
  Jobs = 2
  NumBlocks = 3
  Window = 1
  MaxMomentum = 1
  QueueLength = 20
  Faults = {"create", "write", "publish", "activate"}
INVARIANTS
  BufferIsOwed
  FileIsCounted
  NeverStranded
\* The device resets into a complete image, and an agent that could not reach
\* the broker stops.
CHECK_DEADLOCK FALSE
