SPECIFICATION Spec
CONSTANTS
  ToolIDs = {c1, c2}
  TextKinds = {"text", "reasoning"}
  MaxEvents = 7
SYMMETRY ToolSymmetry
CHECK_DEADLOCK FALSE
INVARIANTS FinishedOnce UsageOnRequest CollectAgrees
