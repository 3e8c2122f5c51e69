\* Two threads that wait for, and ask about, the same pids.
SPECIFICATION PlatformSpec
CONSTANTS
  None = None
  NoCall = NoCall
  Pid = {self, p1}
  SelfPid = self
  Proc = {q0, q1, q2}
  Self = q0
  MaxExec = 0
  Caller = {c1, c2}
  Calls = {"is_running", "wait"}
  Timeouts <- AllTimeouts
  Platform <- AllPlatforms
SYMMETRY InterchangeableToo
INVARIANTS
  RunningWitnessed
  WaitWitnessed
  OneWaitPerExit
  WaitIsBounded
CHECK_DEADLOCK FALSE
