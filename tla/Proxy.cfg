SPECIFICATION Spec
CONSTANTS
    p1 = p1
    p2 = p2
    k1 = k1
    k2 = k2
    Setups <- MCSetups
    Pairs <- MCPairs
    Keys <- MCKeys
    MaxFlows = 1
    MaxSockets = 2
INVARIANTS TypeOK NoOrphanSocket ReturnsClean
PROPERTIES CancelReturns TCPErrorReturns
CHECK_DEADLOCK FALSE
