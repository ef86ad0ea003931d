SPECIFICATION Spec
CONSTANTS
    Slots = {s1}
    UDPEnabled = TRUE
    MaxTokens = 2
INVARIANTS TypeOK TokenCertain SignersOwned NoBogusFailure RetryDecisions
PROPERTIES RefreshJustified SignFailureIsCurrent CertainLeaseReleased CancelTerminates LostLeaseGivenUp
CHECK_DEADLOCK FALSE
