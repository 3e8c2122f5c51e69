\* Files of up to seven lines.
SPECIFICATION Spec
CONSTANTS
  Path = {"lib", "[anon]"}
  Kb = {1}
  MaxLines = 7
  NoPath = ""
INVARIANTS
  ReportedWhole
  LastReported
CHECK_DEADLOCK FALSE
