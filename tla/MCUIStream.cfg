SPECIFICATION Spec
CONSTANTS
  ToolIDs = {c1, c2}
  TextKinds = {"text"}
  MaxEvents = 10
SYMMETRY ToolSymmetry
CHECK_DEADLOCK FALSE
INVARIANTS StepsBracketed ToolPartsInOrder StepWaitsForTools EndsOnce
