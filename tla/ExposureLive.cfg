SPECIFICATION Spec
CONSTANTS
    Relays = {r1, r2}
    Explicit = {r1}
    DiscoveryEnabled = TRUE
    MaxDiscovered = 1
    UDPEnabled = FALSE
    ConnIds = {}
    AcceptCap = 1
    FaultyCleanup = {r1}
    Acceptors = {}
    Waiters = {w1}
    DatagramWaiters = {}
PROPERTIES WaitersUnblock CloseCompletes
