\* Are the connections of a process listed?
SPECIFICATION Spec
CONSTANTS
  Socket <- Sockets
  Kinds = {"tcp"}
  Capacity = 2
  OwnCapacity = 1
  MaxInodes = 2
INVARIANT
  OwnConnectionsListed
