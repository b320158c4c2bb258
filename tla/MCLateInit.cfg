SPECIFICATION FairSpec
CONSTANTS
  s1 = s1
  Sessions = {s1}
  SessionOf <- MCSessionOf
  NoRun = NoRun
  Free = Free
  Instances = {i1, i2}
  Calls = {c1, c2, c3}
  Runs = {r1}
  Ops = {"create", "get", "cancel"}
  Reasons = {"stop", "tool_calls"}
  Expires = FALSE
  Faults = {"lost", "resend", "reinit"}
  AgentMay = {}
  AgentEvents = 0
  Timed = {}
  OneBatch = TRUE
  CallersLeave = FALSE
  MaxCrashes = 0
PROPERTY TerminalIrreversible
