CONSTANTS
    MaxPid = 5
    Pid = {1, 2, 3, 4, 5}
    Parent = 2
    Child = 3
    User = {1, 2, 3, 4}
    BufMax = 2
    Programs = {"pstree"}
SPECIFICATION Spec
INVARIANT EndIsNoError
CHECK_DEADLOCK FALSE
