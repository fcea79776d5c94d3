SPECIFICATION Spec
CONSTANTS
    Port = {1, 2}
    LocalPort = 9
    Pmtu = 40
    Capacity = 64
    MaxForeign <- MCMaxForeign
    Inits <- MCInits
    Queues <- MCQueues
    Bundles <- MCBundles
    Foreign <- MCForeign
INVARIANTS Dispatched Answered CookieOpens PacketsFit
CHECK_DEADLOCK FALSE
