\* Two jobs; one rare event may happen.
SPECIFICATION FairSpec
CONSTANTS
    None = None
    sync = sync
    audit = audit
    w1 = w1
    w2 = w2
    boot = boot
    api = api
    Order <- TwoJobs
    Interval <- IntervalOfOne
    Loops = {w1, w2}
    Callers = {boot, api}
    Controllers = {boot, api}
    Runners = {api}
    AgeCap = 2
    MaxLag = 1
    Events = 1
INVARIANTS
    OneLoop
    RunningHasLoop
    SavedIsCurrent
PROPERTY
    JobsKeepRunning
CHECK_DEADLOCK TRUE
