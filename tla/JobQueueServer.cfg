\* One server process; each kind of fault may happen once, and threads are fair.
SPECIFICATION FairSpec
CONSTANTS
    None = None
    server = server
    w1 = w1
    w2 = w2
    boot = boot
    api = api
    Jobs <- MCJobs
    MaxTry = 2
    Controllers = {boot}
    Workers = {w1, w2}
    Procs = {server}
    Clients = {boot, api}
    Home <- ServerHome
    MaxStarts = 3
    Budget <- EachFaultOnce
INVARIANTS
    ExclusiveAttempt
    RunningIsOwned
    RunningHasWorker
    OneWorker
PROPERTY
    ImplementsLedger
    JobsSettle
CHECK_DEADLOCK TRUE
