SPECIFICATION Spec
CONSTANTS
  OpenTag <- MCOpenTag
  CloseTag <- MCCloseTag
  Symbols = {"<", "t", "/", ">"}
  MaxChunk = 3
  MaxText = 7
CHECK_DEADLOCK FALSE
INVARIANTS ChunkingIrrelevant OnlyTagsWait
