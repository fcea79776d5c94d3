CONSTANTS
  A = A
  B = B
  Endpoint = {A, B}
  incoming_streams <- MCIncoming
  outgoing_streams <- MCOutgoing
  Connects <- MCBothSides
  MaxDraws = 3
  MaxAssocs = 3
  MaxRestarts = 0
  OutlivesRestart = {"StateCookie", "StateCookieAck", "Data", "HeartBeat", "HeartBeatAck", "Abort"}
SPECIFICATION Spec
CHECK_DEADLOCK FALSE
INVARIANTS Agreement
