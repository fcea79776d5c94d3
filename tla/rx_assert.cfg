CONSTANTS
  TsnMod = 32
  WrapRad = 8
  InitTsn = 29
  InStreams = 2
  InBufferLimit = 6
  GapMod = 16
  PeerChunks <- MCUnordered
  PeerSignals = {}
  MaxTxNotifications = 1
SPECIFICATION Spec
CHECK_DEADLOCK FALSE
INVARIANTS AssertInvariants
