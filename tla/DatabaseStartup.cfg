\* Two processes, three migrations, two legacy files; two rare events may happen.
SPECIFICATION FairSpec
CONSTANTS
    None = None
    server = server
    cli = cli
    Procs = {server, cli}
    Versions = {1, 2, 3}
    Files = {1, 2}
    Kinds = {"crash", "unreadable", "timeout"}
    Events = 2
INVARIANTS
    UpIsMigrated
    LegacySurvives
PROPERTIES
    ChangesSurvive
    StartsUp
CHECK_DEADLOCK FALSE
