CONSTANTS
  Runs = {r1, r2}
  Handlers = {h1, h2}
  Asked = {"item", "sku"}
  MaxEdits = 1
SPECIFICATION Spec
INVARIANTS
  PassIsEarned
PROPERTIES
  JudgedStays
CHECK_DEADLOCK FALSE
SYMMETRY Symmetry
