\* One thread, one pid next to its own, three processes that carry it in turn.
SPECIFICATION PlatformSpec
CONSTANTS
  None = None
  NoCall = NoCall
  Pid = {self, p1}
  SelfPid = self
  Proc = {q0, q1, q2}
  Self = q0
  MaxExec = 1
  Caller = {c1}
  Calls = {"name", "exe", "KILL", "wait"}
  Timeouts <- Forever
  Platform <- AllPlatforms
SYMMETRY Interchangeable
INVARIANTS
  HandleIdentity
  LentStringsLive
CHECK_DEADLOCK FALSE
