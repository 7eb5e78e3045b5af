\* Two threads, three processes of two that train and two that serve, two seconds, one restart.
SPECIFICATION FairSpec
CONSTANTS
    api1 = api1
    api2 = api2
    NoThread = NoThread
    NoProcess = 0
    Threads = {api1, api2}
    Trainers = {1, 2}
    Servers = {3, 4}
    Seconds = 2
    Starts = 3
    Restarts = 1
INVARIANTS
    TrainingIsKnown
    OverMeansEnded
    ServerIsKnown
PROPERTY
    CallsReturn
\* Both threads may be blocked.
CHECK_DEADLOCK FALSE
