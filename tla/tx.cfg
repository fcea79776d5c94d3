CONSTANTS
  TsnMod = 16
  WrapRad = 4
  PacketHeader = 1
  CwndFloor = 3
  CwndStep = 1
  UsizeMax = 100
  InitTsn = 9
  OutStreams = 1
  OutBufferLimit = 4
  PeerArwnd = 3
  InitPmtu = 3
  CongestionMtu = 3
  DataHeader = 1
  SeqMod = 4
  Lens = {1, 4}
  Orderings = {FALSE}
  DataLimits = {3}
  Packed = {0}
  ARwnds = {0, 3}
  GapBlocks <- MCGapBlocks
  PROBE_STEP_SIZE = 2
  ProbeStepBack = 2
  UsizeMod = 8
  U32Mod = 8
  MaxProbeSize = 5
  Notifications = {"SAck", "Abort", "Shutdown", "InitiateShutdown", "PeerShutdown", "PeerShutdownAck", "PeerShutdownComplete"}
  MaxBytes = 9
  MaxDupAcks = 2
  MaxSendNext = 1
SPECIFICATION Spec
INVARIANTS TypeOK AssertInvariants RecoveryHasData RtoArmed FlowControlled OutstandingIsNew ShutdownDrained OneChunkPerTsn FragmentsChain
CONSTRAINT ControlIsEarly
