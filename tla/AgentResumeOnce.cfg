SPECIFICATION Spec
CONSTANTS
  Locators = {"l1"}
  Labels = {""}
  MaxAttempts = 2
  Handlers = {h1, h2}
  MaxRequests = 2
  Tokens = {t1}
  MaxEdits = 0
  MaxFaults = 0
INVARIANT ResumedOnce
CHECK_DEADLOCK FALSE
