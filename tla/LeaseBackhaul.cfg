SPECIFICATION Spec
CONSTANTS
    Slots = {s1}
    UDPEnabled = TRUE
    MaxTokens = 2
INVARIANT BackhaulHasCurrentToken
CHECK_DEADLOCK FALSE
