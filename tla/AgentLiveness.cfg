SPECIFICATION FairSpec
CONSTANTS
  m1 = m1  m2 = m2  c1 = c1  c2 = c2
  Commands = {m1, m2}
  Clients = {c1}
  Self = Self
  NoCommand = NoCommand
  NoCaller = NoCaller
  QueueLength = 1
  MaxOutstandingAcks = 1
  MaxPacketId = 2
  ClientKinds = {"QoS1"}
PROPERTIES
  AwaitingIsConcluded
