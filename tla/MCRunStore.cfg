SPECIFICATION MCSpec
CONSTANTS
  s1 = s1
  r1 = r1
  r2 = r2
  Sessions = {s1}
  Runs = {r1, r2}
  NoRun = NoRun
  SessionOf <- MCSessionOf
  Reasons = {"tool_calls"}
  Expires = TRUE
  Faults = {"lost", "resend"}
  MaxEvents = 2
SYMMETRY RunSymmetry
INVARIANTS StoreTypeOK PointerNotTerminal SealedByOutcome
PROPERTIES TerminalIrreversible LifecycleSpec
