CONSTANTS
  TsnMod = 16
  WrapRad = 4
  PacketHeader = 1
  CwndFloor = 3
  CwndStep = 1
  UsizeMax = 100
  InitTsn = 9
  OutStreams = 1
  OutBufferLimit = 6
  PeerArwnd = 5
  InitPmtu = 3
  CongestionMtu = 3
  DataHeader = 1
  SeqMod = 4
  Lens = {2, 4}
  Orderings = {FALSE}
  DataLimits = {3}
  Packed = {0}
  GapBlocks <- MCGapBlocks
  ARwnds <- MCARwnds
  PROBE_STEP_SIZE = 2
  ProbeStepBack = 1
  UsizeMod = 32
  U32Mod = 16
  MaxProbeSize = 0
  Notifications = {}
  MaxBytes = 8
  MaxDupAcks = 2
  MaxSendNext = 0
  InStreams = 1
  InBufferLimit = 5
  GapMod = 16
  MaxTxNotifications = 1
  MaxSacks = 1
SPECIFICATION TransferFairSpec
CHECK_DEADLOCK FALSE
PROPERTIES AcksCatchUp
