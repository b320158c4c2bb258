SPECIFICATION Spec
CONSTANTS
  Replies <- RepliesReused
  JSONTools = {"c2"}
  Files <- MCFiles
  MaxTurns = 1
INVARIANTS InputKept UIHistoryKept EveryViewKept IdsIdentify
CHECK_DEADLOCK FALSE
