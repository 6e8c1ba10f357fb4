CONSTANTS
  Flows = {p, q}
  ProductFlow = p
  NoFlow = NoFlow
  Suite = Suite
  MaxRecoveries = 2
  MaxIterations = 2
  Llm = "auto"
  Racing = FALSE
SPECIFICATION Spec
PROPERTIES GatedUnlessIncident InvocationsEnd
CHECK_DEADLOCK FALSE
