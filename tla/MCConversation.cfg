SPECIFICATION Spec
CONSTANTS
  Replies <- MCReplies
  JSONTools = {"c2"}
  Files <- MCFiles
  MaxTurns = 3
INVARIANTS InputKept UIHistoryKept EveryViewKept IdsIdentify
CHECK_DEADLOCK FALSE
