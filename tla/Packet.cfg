SPECIFICATION Spec
CONSTANTS
  Codecs = {"variable", "fixed", "delimiter"}
  WriteBuf = 8
  ReadBuf = 4
  HeaderLen = 2
  DelimLen = 2
  FixedLen = 7
  Bodies = {0, 3, 6, 7}
  Messages = 3
  Flushes = 2
  Strip = TRUE
  MaxLength = 8
  MaxReceive = 7
INVARIANTS
  TypeOK
  WholePackets
  NextBytes
  
  RoundTrip
CHECK_DEADLOCK FALSE
