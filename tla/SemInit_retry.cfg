CONSTANTS
    Byte = {0, 1, 2, 3}
    NUL = 0
    Input <- MCInput
    BUF_SIZE = 2
    p1 = p1
    p2 = p2
    p3 = p3
    Proc <- MCProc
    SemOp <- MCSemOp
    Programs = {"good"}
    MAX_TRIES = 2
    Killable = {}
    c1 = c1
    c2 = c2
    c3 = c3
    NoClient = NoClient
    Client = {c1, c2, c3}
    SeqLen <- MCSeqLen
    Mortal = {c1, c3}
    MaxLives = 2
SPECIFICATION SysSpec
PROPERTY FatalMeansUninitialised
CHECK_DEADLOCK FALSE
