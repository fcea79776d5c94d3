CONSTANTS
  Connectors = {"conn"}
  Acceptors = {}
  ImmediateSenders = {"imm"}
  Senders = {"send"}
  Pollers = {"poll"}
  Receivers = {"recv"}
  Waiters = {"wait"}
  Messages = 2
  OutBufferLimit = 1
  Packets <- MCPackets
  MaxPackets = 1
  MaxTimeouts = 0
  MaxShutdowns = 1
SPECIFICATION FairSpec
CHECK_DEADLOCK FALSE
INVARIANTS NoLostWakeup MapHoldsOnlyOpen
PROPERTIES SendReturns ShutdownFollowsData RegisteredWaiterReturns
