SPECIFICATION Spec
CONSTANTS
  VGA_VIDEO_ROWS = 2
  VGA_VIDEO_COLUMNS = 9
  VGA_TABSIZE = 2
  IndexSpace = 64
  LEN = 6
  Letters = {"h"}
  PromptText <- MCPromptText
  Builtins <- MCBuiltins
  UnknownText <- MCUnknownText
  Message <- MCMessage
  MessageAt <- MCMessageAt
INVARIANTS
  TypeOK
  WritesInBounds
  ShownIsRead
