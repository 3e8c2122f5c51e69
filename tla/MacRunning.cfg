\* Does is_running on macOS say whether the process is running?
SPECIFICATION PlatformSpec
CONSTANTS
  None = None
  NoCall = NoCall
  Pid = {self, p1}
  SelfPid = self
  Proc = {q0, q1}
  Self = q0
  MaxExec = 0
  Caller = {c1}
  Calls = {"is_running"}
  Timeouts = {}
  Platform = {"macos"}
INVARIANT
  IsRunningWitnessed
CHECK_DEADLOCK FALSE
