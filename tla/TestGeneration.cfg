SPECIFICATION Spec
CONSTANTS
  Agents = {a1, a2}
  Flows = {"alike", "home", "login"}
  MaxGenerations = 2
  MaxFaults = 1
INVARIANTS PendingIsChecked SoundIsOffered
CHECK_DEADLOCK FALSE
