CONSTANTS
    r1 = r1
    r2 = r2
    a = a
    b = b
    x = x
    y = y
    p1 = p1
    p2 = p2
    Dir = {r1, r2, a, b}
    Root = {r1, r2}
    Trees <- TwoRoots
    Name = {x, y}
    Proc = {p1, p2}
    MaxOps = 2
    QMax = 3
    ReadMax = 3
    Pace = {"settled", "free"}
    Top = Top
    Outside = Outside
    Free = Free
    Gone = Gone
SPECIFICATION Spec
INVARIANTS SettledConsistent WatchesCached DeadEntriesKnown
PROPERTY Settles
CHECK_DEADLOCK FALSE
