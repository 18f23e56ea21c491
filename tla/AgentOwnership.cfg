SPECIFICATION Spec
CONSTANTS
  m1 = m1  m2 = m2  c1 = c1  c2 = c2
  Commands = {m1, m2}
  Clients = {c1, c2}
  Self = Self
  NoCommand = NoCommand
  NoCaller = NoCaller
  QueueLength = 2
  MaxOutstandingAcks = 2
  MaxPacketId = 3
  ClientKinds = {"QoS0", "QoS1"}
SYMMETRY Symmetry
VIEW View
INVARIANTS
  TypeOK
  NoCommandLost
  NoCommandShared
  SendNeverFails
  OwedIsSubmitted
  AcksMatchOperations
  NothingAwaitsAcrossConnections
PROPERTIES
  SubmittedIsImmutable
  ImplementsLifecycle
