\* As Handles.cfg, with the getters that ask and the signals that stop.
SPECIFICATION PlatformSpec
CONSTANTS
  None = None
  NoCall = NoCall
  Pid = {self, p1}
  SelfPid = self
  Proc = {q0, q1, q2}
  Self = q0
  MaxExec = 0
  Caller = {c1}
  Calls = {"cwd", "username", "create_time", "get_ppid", "get_status", "is_running", "STOP", "CONT", "TERM"}
  Timeouts = {}
  Platform <- AllPlatforms
SYMMETRY Interchangeable
INVARIANTS
  GetterWitnessed
  StatusWitnessed
CHECK_DEADLOCK FALSE
