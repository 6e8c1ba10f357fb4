SPECIFICATION Spec
CONSTANTS
  Invocations = 2
  Runs = {r1, r2}
  Watched = {r1}
  None = None
  Keep = TRUE
  MaxLines = 1
  MaxFaults = 1
CHECK_DEADLOCK FALSE
INVARIANTS TypeOK OwnContext WorkerLinesSeen
PROPERTIES CloseHonoured
