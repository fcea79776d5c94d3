CONSTANTS
  A = A
  B = B
  Endpoint = {A, B}
  incoming_streams <- MCIncoming
  outgoing_streams <- MCOutgoing
  Connects <- MCOneSide
  MaxDraws = 4
  MaxAssocs = 3
  MaxRestarts = 1
  OutlivesRestart = {"StateCookie", "StateCookieAck", "Data", "HeartBeat", "HeartBeatAck", "Abort"}
SPECIFICATION FairSpec
CHECK_DEADLOCK FALSE
INVARIANTS TypeOK Agreement StreamsAgree DataOfThisAssociation
PROPERTIES ConnectCompletes
