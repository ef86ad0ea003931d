SPECIFICATION Spec
CONSTANTS
    Hosts <- MCHosts
    Inputs <- MCInputs
    Documents <- MCDocuments
    Caps = {1, 2}
    MaxClock = 3
INVARIANTS TypeOK OneSupervisorPerRelay
PROPERTIES AdoptionSound CandidateSettled
CHECK_DEADLOCK FALSE
