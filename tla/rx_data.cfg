CONSTANTS
  TsnMod = 32
  WrapRad = 8
  InitTsn = 29
  InStreams = 2
  InBufferLimit = 6
  GapMod = 16
  PeerChunks <- MCUnknownStream
  PeerSignals = {"SAck", "Abort", "ShutDown", "ShutDownAck", "ShutDownComplete", "HeartBeat", "HeartBeatAck"}
  MaxTxNotifications = 2
SPECIFICATION Spec
CHECK_DEADLOCK FALSE
INVARIANTS BufferAccounting WholeMessages DeliveredOnceInOrder
PROPERTIES SackExact NeverForgets
