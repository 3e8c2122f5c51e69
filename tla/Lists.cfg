\* All six functions, whose calls follow one another; an array that grows does
\* so twice.
SPECIFICATION Spec
CONSTANTS
  Entry = {1, 2, 3, 4}
  Wanted = {1, 3, 4}
  Listings = {"pids", "open_files", "users", "threads", "disk_partitions", "net_if_stats"}
  Room = 1
  MaxFiles = 2
INVARIANTS
  InBounds
  NothingHeld
  NoneTwice
  MissedForNewcomers
  HalfReadIsGone
PROPERTY
  PromiseKept
