SPECIFICATION Spec
CONSTANTS
    p1 = p1
    p2 = p2
    k1 = k1
    k2 = k2
    Setups <- MCUDPSetups
    Pairs <- MCPairs
    Keys <- MCKeys
    MaxFlows = 1
    MaxSockets = 2
PROPERTY TerminalErrorReturns
CHECK_DEADLOCK FALSE
