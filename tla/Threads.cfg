CONSTANTS
    Counts <- MCCounts
    Programs = {"condvar", "poll"}
    NumThreads = 3
    Loops = 3
    NumBarriers = 2
    BarrierSize = 3
SPECIFICATION Spec
INVARIANTS UnitsConserved UnjoinedAgrees InStep ExitMeansDone NoLostWakeup
PROPERTY Finishes
CHECK_DEADLOCK FALSE
