SPECIFICATION Spec
CONSTANTS
    Explicit = {r1}
    Discovered = {r2}
    UpdatesPerRelay = 3
INVARIANTS TypeOK UpdateOrder NothingDropped
CHECK_DEADLOCK FALSE
