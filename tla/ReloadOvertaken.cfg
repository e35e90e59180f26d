SPECIFICATION Spec
CHECK_DEADLOCK FALSE
CONSTANT MaxDecls = 4
INVARIANT TimerAfterReload
