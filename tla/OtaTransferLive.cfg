SPECIFICATION FairSpec
CONSTANTS
  Jobs = 1
  NumBlocks = 2
  Window = 2
  MaxMomentum = 1
  QueueLength = 20
  Faults = {"publish", "activate"}
PROPERTIES
  TransferEnds
\* The device resets into a complete image, and an agent that could not reach
\* the broker stops.
CHECK_DEADLOCK FALSE
