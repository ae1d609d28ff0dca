CONSTANTS
    Writer = {w1, w2}
    numBytes = 2
    MaxLen = 3
    BufSize = 2
    MAX_ENTRIES = 2
    NumFiles = 2
    Instance = {i1, i2, i3}
    Nobody = nobody
    NumDirs = 2
    MaxInts = 1
    NetClient = {n1, n2}
    MaxReq = 2
SPECIFICATION Spec
INVARIANTS  AppendKeepsAll  AclsSound AnswersMatch MapsFirst
PROPERTY NobodyBlocked
CHECK_DEADLOCK FALSE
