CONSTANTS
  Endpoint = {a, b}
  Senders = {a, b}
  InitiateIn = {"None"}
  Removes = {b}
  Lossy = {"ShutDown", "ShutDownAck"}
  MaxSendNext = 1
SPECIFICATION FairSpec
CHECK_DEADLOCK FALSE
INVARIANTS NothingLostByClosing
PROPERTIES BothClose
