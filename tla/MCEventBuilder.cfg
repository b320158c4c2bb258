SPECIFICATION Spec
CONSTANTS
  Symbols = {"a", "b", "c", "o", "r", "x", "y", "<", "t", "/"}
  OpenTag <- MCOpenTag
  CloseTag <- MCCloseTag
  Messages <- MCMessages
  MaxCalls = 2
  Unfinished = FALSE
  MaxMessages = 4
  MaxRoom = 10
CHECK_DEADLOCK FALSE
INVARIANTS BlocksWellFormed FinishClosesBlocks TextMatchesOutput
INVARIANTS OutputComplete ToolCallsComplete UsageCountedOnce FeedsWriters
