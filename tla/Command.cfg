SPECIFICATION Spec
CONSTANTS
    p1 = p1
    p2 = p2
    p3 = p3
    Processes <- MCProcesses
    Setups <- MCSetups
    Args <- MCArgs
    Existing <- MCExisting
    Levels = 2
    UpdateCap = 1
    MaxUpdates = 2
INVARIANTS TypeOK SameIdentity TornOnlyAfterFault
PROPERTIES NeverOverwritten LoadSettles SignalExits
CHECK_DEADLOCK FALSE
