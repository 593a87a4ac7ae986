CONSTANTS
    worker1 = worker1
    worker2 = worker2
    screen = screen
    NoThread = NoThread
    Threads = {worker1, screen}
    Hosts <- TuiExit
    MaxLocks = 2
SPECIFICATION Spec
CHECK_DEADLOCK FALSE
INVARIANTS CloseNotLost
