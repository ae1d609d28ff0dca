CONSTANTS
    NumKids = 1
    PipeCap = 1
    MaxSignals = 1
    MaxMsgs = 1
    Sleep = 1
SPECIFICATION Spec
PROPERTY PauseReturns
CHECK_DEADLOCK FALSE
