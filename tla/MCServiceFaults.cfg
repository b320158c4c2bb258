SPECIFICATION MCSpec
CONSTANTS
  s1 = s1
  Sessions = {s1}
  SessionOf <- MCSessionOf
  NoRun = NoRun
  Free = Free
  Instances = {i1}
  Calls = {c1, c2}
  Runs = {r1}
  Ops = {"create", "get", "delete", "cancel"}
  Reasons = {"stop", "tool_calls"}
  Expires = TRUE
  Faults = {"lost", "resend", "reinit"}
  AgentMay = {"error", "lateError"}
  AgentEvents = 1
  Timed = {}
  OneBatch = FALSE
  CallersLeave = TRUE
  MaxCrashes = 1
SYMMETRY Symmetry
PROPERTY StoreSpec
