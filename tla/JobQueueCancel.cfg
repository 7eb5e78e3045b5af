\* One server process, no fault: what cancel() promises.
SPECIFICATION FairSpec
CONSTANTS
    None = None
    server = server
    w1 = w1
    w2 = w2
    boot = boot
    api = api
    Jobs <- MCJobs
    MaxTry = 2
    Controllers = {boot}
    Workers = {w1, w2}
    Procs = {server}
    Clients = {boot, api}
    Home <- ServerHome
    MaxStarts = 3
    Budget <- NoFault
PROPERTY
    CancelIsFinal
CHECK_DEADLOCK TRUE
