CONSTANTS
    worker1 = worker1
    worker2 = worker2
    screen = screen
    NoThread = NoThread
    Threads = {worker1, worker2, screen}
    Hosts <- BothHosts
    MaxLocks = 3
SPECIFICATION FairSpec
CHECK_DEADLOCK FALSE
INVARIANTS OneOwner AcceptedCancelCommitted KeptForOneCaller GivenBackByOneCaller
PROPERTY CloseCarriedOut
