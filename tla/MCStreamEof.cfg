SPECIFICATION Spec
CONSTANTS
  s1 = s1
  r1 = r1
  Sessions = {s1}
  Runs = {r1}
  NoRun = NoRun
  SessionOf <- MCSessionOf
  Reasons = {"tool_calls"}
  Expires = TRUE
  Faults = {}
  MaxEvents = 2
  Subscribers = {u1}
  MaxNext = 3
INVARIANT EofMeansDrained
