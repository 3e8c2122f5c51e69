\* Two threads, one of which may kill what the other waits for.
SPECIFICATION FairPlatformSpec
CONSTANTS
  None = None
  NoCall = NoCall
  Pid = {self, p1}
  SelfPid = self
  Proc = {q0, q1}
  Self = q0
  MaxExec = 0
  Caller = {c1, c2}
  Calls = {"is_running", "KILL", "wait"}
  Timeouts <- WaitOrPoll
  Platform <- Stepping
PROPERTIES
  CallsReturn
  KilledWaitReturns
CHECK_DEADLOCK FALSE
