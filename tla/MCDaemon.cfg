CONSTANTS
    Pids = {1, 2, 3}
    instances = 2
    MaxReloads = 2
    MaxFailures = 2
SPECIFICATION DaemonSpec
INVARIANT WorkersInSight
PROPERTIES WorkersReplaced WorkerLeaves GoesDown
CHECK_DEADLOCK FALSE
