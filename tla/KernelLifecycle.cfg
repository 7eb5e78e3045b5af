\* Two services, one handler, two boots, one step of a boot or of a stop that fails.
SPECIFICATION FairSpec
CONSTANTS
    api1 = api1
    Services <- TwoServices
    Handlers = {api1}
    Boots = 2
    Failures = 1
INVARIANTS
    OfflineIsDown
    ServesOnlyStarted
    OneRunner
PROPERTY
    
    SupervisorEnds
\* The kernel may be off for good, and the supervisor with it.
CHECK_DEADLOCK FALSE
