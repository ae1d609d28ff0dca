CONSTANTS
    NumKids = 3
    PipeCap = 2
    MaxSignals = 3
    MaxMsgs = 3
    Sleep = 2
SPECIFICATION Spec
INVARIANTS NothingForgotten WaitedFor Restored
PROPERTY Responds
CHECK_DEADLOCK FALSE
