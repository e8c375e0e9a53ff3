SPECIFICATION SSpec
CONSTANTS
  Stream <- Flat
  MaxBulk = 11
  MaxElems = 3
  LLMax = 127
  CheckFrom = 2
  LenRange = 65536
CHECK_DEADLOCK FALSE
INVARIANTS
  ParserTypeOK
  NoFrameHeldBack
  NoCommandHeldBack
PROPERTIES
  FramesExact
  CommandsExact
