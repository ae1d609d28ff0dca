CONSTANTS
    MaxPid = 5
    Pid = {1, 2, 3, 4, 5}
    Parent = 2
    Child = 3
    User = {1, 2, 3, 4}
    BufMax = 2
    Programs = {"p_id", "pstree"}
SPECIFICATION Spec
INVARIANTS NoneMissed PrintedOnce
PROPERTY EndsWell
CHECK_DEADLOCK FALSE
