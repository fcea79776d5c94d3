CONSTANTS
  TsnMod = 32
  WrapRad = 8
  PacketHeader = 1
  CwndFloor = 3
  CwndStep = 1
  UsizeMax = 100
  InitTsn = 9
  OutStreams = 1
  OutBufferLimit = 5
  PeerArwnd = 4
  InitPmtu = 3
  CongestionMtu = 3
  DataHeader = 1
  SeqMod = 4
  Lens = {5}
  Orderings = {FALSE}
  DataLimits = {3}
  Packed = {0}
  ARwnds = {0, 4}
  GapBlocks <- MCGapBlocks
  PROBE_STEP_SIZE = 2
  ProbeStepBack = 1
  UsizeMod = 32
  U32Mod = 16
  MaxProbeSize = 0
  Notifications = {}
  MaxBytes = 5
  MaxDupAcks = 2
  MaxSendNext = 1
SPECIFICATION Spec
CHECK_DEADLOCK FALSE
INVARIANTS FrontIsSendable
