\* Is every mapping reported?
SPECIFICATION Spec
CONSTANTS
  Path = {"lib", "[anon]"}
  Kb = {1}
  MaxLines = 3
  NoPath = ""
INVARIANT
  EveryMappingReported
CHECK_DEADLOCK FALSE
