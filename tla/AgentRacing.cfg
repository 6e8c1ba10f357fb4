CONSTANTS
  Flows = {p, q}
  ProductFlow = p
  NoFlow = NoFlow
  Suite = Suite
  MaxRecoveries = 2
  MaxIterations = 2
  Llm = "auto"
  Racing = TRUE
SPECIFICATION Spec
CHECK_DEADLOCK FALSE
INVARIANTS TypeOK RunsOnce RunsUnderReuse ConclusionAgrees
PROPERTIES SingleFlowGated ImplementsAgentRun
