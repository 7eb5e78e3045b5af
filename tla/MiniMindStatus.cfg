\* One training process, which ends while a status is asked for.
SPECIFICATION FairSpec
CONSTANTS
    api1 = api1
    api2 = api2
    NoThread = NoThread
    NoProcess = 0
    Threads = {api1, api2}
    Trainers = {1}
    Servers = {3}
    Seconds = 2
    Starts = 2
    Restarts = 0
PROPERTY
    StatusReturns
\* Both threads may be blocked.
CHECK_DEADLOCK FALSE
