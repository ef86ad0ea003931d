SPECIFICATION Spec
CONSTANTS
    Relays = {r1, r2}
    Explicit = {r1}
    DiscoveryEnabled = TRUE
    MaxDiscovered = 1
    UDPEnabled = FALSE
    ConnIds = {1}
    AcceptCap = 1
    FaultyCleanup = {}
    Acceptors = {a1}
    Waiters = {}
    DatagramWaiters = {}
INVARIANTS TypeOK CountsMatch SignalMeansAllFailed NoCrash NoUsableCandidateLeft CloseIsFinal OneOwnerPerConn
PROPERTIES ImplementsListener
