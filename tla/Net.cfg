\* Every kind, for the system and for one process.
SPECIFICATION Spec
CONSTANTS
  Socket <- Sockets
  Kinds = {"inet", "tcp", "tcp4", "tcp6", "udp", "udp4", "udp6", "unix"}
  Capacity = 2
  OwnCapacity = 1
  MaxInodes = 2
INVARIANTS
  TypeOK
  ListedRight
  MissedWhenFull
