\* Every acyclic graph of three goals; one goal or dependency may change during the call, one read may fail.
SPECIFICATION FairCall
CONSTANTS
    a = a
    b = b
    c = c
    Goals = {a, b, c}
    Kinds = {"pending", "completed", "absent"}
    Edits = 1
    Faults = 1
INVARIANTS
    OrderRespectsDependencies
    OrderIsOpenPart
    NoRepeats
PROPERTY
    Returns
\* The call returns.
CHECK_DEADLOCK FALSE
