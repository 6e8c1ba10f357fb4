SPECIFICATION Spec
CONSTANTS
  Flows = {f1}
  Entered <- MCEntered
  Handlers = {h1, h2}
  MaxClock = 3
  MaxEdits = 1
  MaxBoots = 1
INVARIANTS RejectedStays GatesAgree
PROPERTIES DecidedOnce
CHECK_DEADLOCK FALSE
SYMMETRY Symmetry
