SPECIFICATION FairSpec
CONSTANTS
  s1 = s1
  Sessions = {s1}
  SessionOf <- MCSessionOf
  NoRun = NoRun
  Free = Free
  Instances = {i1, i2}
  Calls = {c1, c2}
  Runs = {r1}
  Ops = {"create", "delete", "cancel"}
  Reasons = {"stop", "tool_calls"}
  Expires = FALSE
  Faults = {}
  AgentMay = {"error"}
  AgentEvents = 1
  Timed = {i1}
  OneBatch = TRUE
  CallersLeave = FALSE
  MaxCrashes = 0
PROPERTIES CallsReturn SessionFreed CancelReachesWorker
