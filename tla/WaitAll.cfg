\* Two children, no fork fails.
SPECIFICATION Spec
CONSTANTS
  Pids = {p1, p2}
  Shell = Shell
  NoPid = NoPid
  MaxFailures = 0
PROPERTIES WaitsForAll
CHECK_DEADLOCK FALSE
