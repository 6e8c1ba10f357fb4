SPECIFICATION Spec
CONSTANTS
  Locators = {"l1", "l2"}
  Labels = {"", "button"}
  MaxAttempts = 2
  Handlers = {h1, h2}
  MaxRequests = 3
  Tokens = {t1, t2}
  MaxEdits = 2
  MaxFaults = 1
INVARIANTS TypeOK AppliedOnce ReplayAgrees StartsBounded OverlayWasApproved
PROPERTIES SettledStays
CHECK_DEADLOCK FALSE
