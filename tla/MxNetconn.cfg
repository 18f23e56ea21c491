SPECIFICATION FairSpec
CONSTANTS
  a1 = a1  a2 = a2
  Addresses = {a1}
  NoAddress = NoAddress
  Repeats = FALSE
INVARIANTS
  LinkComesWithStatus
PROPERTIES
  AddressIsAnnounced
  LossClearsAddress
