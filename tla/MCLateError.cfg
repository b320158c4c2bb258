SPECIFICATION Spec
CONSTANTS
  s1 = s1
  Sessions = {s1}
  SessionOf <- MCSessionOf
  NoRun = NoRun
  Free = Free
  Instances = {i1}
  Calls = {c1}
  Runs = {r1}
  Ops = {"create"}
  Reasons = {"stop", "tool_calls"}
  Expires = FALSE
  Faults = {}
  AgentMay = {"lateError"}
  AgentEvents = 1
  Timed = {}
  OneBatch = TRUE
  CallersLeave = FALSE
  MaxCrashes = 0
SYMMETRY Symmetry
INVARIANT ReportAgrees
