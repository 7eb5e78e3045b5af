\* Two threads on a plan of three steps, one subscriber that may come and go.
SPECIFICATION FairSpec
CONSTANTS
    w1 = w1
    w2 = w2
    watcher = watcher
    Threads = {w1, w2}
    Callbacks = {watcher}
    Events <- AllEvents
    HistorySize = 2
    MaxSubs = 1
    Steps = {1, 2, 3}
    Unknown = Unknown
    Orders <- FourOrders
    NoThread = NoThread
    NoStep = NoStep
INVARIANTS
    WatcherKnows
    CompletedMeansDone
    DependenciesFirst
PROPERTIES
    OutcomeIsFinal
    PlanEnds
