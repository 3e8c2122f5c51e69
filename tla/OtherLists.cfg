\* Every function, whose calls follow one another; arrays that grow begin with
\* one element, and three processes are more than EnumProcesses has room for.
SPECIFICATION Spec
CONSTANTS
  Entry = {1, 2, 3}
  Wanted = {1, 3}
  Table <- Tabled
  Listings <- AllListings
  Kinds = {"inet", "tcp4", "udp", "unix"}
  Room = 1
  MaxPids = 2
INVARIANTS
  InBounds
  NothingLeft
  NoneTwice
  LengthIsWritten
  HalfHasReason
PROPERTY
  PromiseKept
