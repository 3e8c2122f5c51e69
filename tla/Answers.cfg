\* Seven parts that share nothing, each with all of its functions.
SPECIFICATION Spec
CONSTANTS
  Parts = {"strings", "cpu", "affinity", "nice", "tty", "start", "clock"}
  MaxStrings = 4
  Beyond = 2
  Vectors <- AllVectors
  Cpus = 2
  Wrap = 7
  LastTick = 3
  Intervals = {0, 1, 2}
  NCpu = 3
  NiceValues <- SomeNiceValues
  Holder = {h1, h2}
  Process = {p1, p2}
  Device <- Devices
  Starts = 2
  CallsOf <- AllCalls
  PartsOfSecond = 3
  LastPart = 8
  TickWrap = 5
  Boots = {10, 11, 12, 15}
  Epoch = 20
  FileTimes = 64
INVARIANTS
  VectorInBounds VectorOfText VectorComplete NoStrays
  PercentInRange PercentIsShare AffinityListed AffinityAsSet NiceKept
  TerminalHonest NothingUnset BootTimeRight FiletimeRight
