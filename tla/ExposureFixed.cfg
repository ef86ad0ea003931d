SPECIFICATION Spec
CONSTANTS
    Relays = {r1,r2}
    Explicit = {r1,r2}
    DiscoveryEnabled = FALSE
    MaxDiscovered = 1
    UDPEnabled = TRUE
    ConnIds = {}
    AcceptCap = 1
    FaultyCleanup = {}
    Acceptors = {a1}
    Waiters = {w1,w2}
    DatagramWaiters = {w2}
INVARIANT NoLostWakeup
CHECK_DEADLOCK FALSE
