CONSTANTS
    r1 = r1
    r2 = r2
    a = a
    b = b
    x = x
    y = y
    p1 = p1
    p2 = p2
    Dir = {r1, a, b}
    Root = {r1}
    Trees <- OneRoot
    Name = {x, y}
    Proc = {p1}
    MaxOps = 2
    QMax = 3
    ReadMax = 3
    Pace = {"between"}
    Top = Top
    Outside = Outside
    Free = Free
    Gone = Gone
SPECIFICATION Spec
INVARIANT ConsistentAtRest
CHECK_DEADLOCK FALSE
