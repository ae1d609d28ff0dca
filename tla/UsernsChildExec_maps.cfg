SPECIFICATION Spec
INVARIANT MapsBeforeExec
CHECK_DEADLOCK FALSE
