CONSTANTS
    Unreadable = Unreadable
    Client = {c1, c2}
    MaxBlocks = 2
    QCap = 1
    Mortal = {c1}
    Faults = {"fork", "read"}
SPECIFICATION Spec
INVARIANTS
    SuccessIsWholeFile
PROPERTIES
    NoZombieStays
    Answered
    ChildEnds
CHECK_DEADLOCK FALSE
