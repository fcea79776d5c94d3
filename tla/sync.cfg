CONSTANTS
  Main = "main"
  Nets = {"net"}
  Connectors = {"conn"}
  Acceptors = {}
  Killers = {"kill"}
  Senders = {"send"}
  Pollers = {"poll"}
  Receivers = {"recv"}
  Messages = 2
  OutBufferLimit = 1
  Packets <- MCPackets
  MaxPackets = 2
  MaxTimeouts = 1
  MaxCbErrors = 1
SPECIFICATION FairSpec
CHECK_DEADLOCK FALSE
INVARIANTS NoLostWakeup PanicHasCause
PROPERTIES SendReturns
