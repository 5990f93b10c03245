SPECIFICATION Spec
CONSTANT NumWorkloads = 3
INVARIANTS TypeOK NoUseAfterFree CleanupAfterThreads ReportsPass
PROPERTY Terminates
CHECK_DEADLOCK FALSE
