SPECIFICATION Spec
CONSTANTS
  Runs = {r1}
  Operators = {o1}
  Results = {"PASS", "WAITING_FOR_APPROVAL"}
  MaxTries = 2
  MaxFaults = 2
INVARIANTS TypeOK StartsOnce ShownIsEarned
PROPERTIES BridgedRunsOnce LockReleased
CHECK_DEADLOCK FALSE
