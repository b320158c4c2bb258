SPECIFICATION Spec
CONSTANTS
  s1 = s1
  Sessions = {s1}
  SessionOf <- MCSessionOf
  NoRun = NoRun
  Free = Free
  Instances = {i1, i2}
  Calls = {c1, c2, c3}
  Runs = {r1}
  Ops = {"create", "delete", "cancel"}
  Reasons = {"stop"}
  Expires = FALSE
  Faults = {}
  AgentMay = {"error", "lateError", "malformed", "overrun"}
  AgentEvents = 2
  Timed = {i1, i2}
  OneBatch = TRUE
  CallersLeave = FALSE
  MaxCrashes = 0
SYMMETRY Symmetry
INVARIANTS CompletedMeansCompleted NoZombie DeletionComplete
