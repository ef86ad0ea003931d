SPECIFICATION Spec
CONSTANTS
    Relays = {r1, r2}
    Explicit = {r1, r2}
    DiscoveryEnabled = FALSE
    MaxDiscovered = 1
    UDPEnabled = FALSE
    ConnIds = {}
    AcceptCap = 1
    FaultyCleanup = {}
    Acceptors = {}
    Waiters = {}
    DatagramWaiters = {}
INVARIANT NoCrash
