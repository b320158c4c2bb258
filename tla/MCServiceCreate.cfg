SPECIFICATION Spec
CONSTANTS
  s1 = s1
  Sessions = {s1}
  SessionOf <- MCSessionOf
  NoRun = NoRun
  Free = Free
  Instances = {i1, i2}
  Calls = {c1, c2, c3}
  Runs = {r1, r2}
  Ops = {"create", "get"}
  Reasons = {"stop", "tool_calls"}
  Expires = FALSE
  Faults = {}
  AgentMay = {"error"}
  AgentEvents = 2
  Timed = {}
  OneBatch = TRUE
  CallersLeave = FALSE
  MaxCrashes = 0
SYMMETRY Symmetry
INVARIANTS OneActiveRun ReportAgrees EveryEndReported
