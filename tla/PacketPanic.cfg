SPECIFICATION Spec
CONSTANTS
  Codecs = {"variable"}
  WriteBuf = 8
  ReadBuf = 4
  HeaderLen = 2
  DelimLen = 2
  FixedLen = 7
  Bodies = {0, 3, 6, 7}
  Messages = 2
  Flushes = 2
  Strip = TRUE
  MaxLength = 8
  MaxReceive = 7
INVARIANT NoPanic
CHECK_DEADLOCK FALSE
