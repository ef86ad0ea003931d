SPECIFICATION Spec
CONSTANTS
    Flat = {}
    Nested = {waitReady}
    Writers = {}
    Close = close
PROPERTY CloseGetsLock
CHECK_DEADLOCK FALSE
