\* Three goals; one thread adds dependencies, another uses the planner beside it.
SPECIFICATION Spec
CONSTANTS
    None = None
    a = a
    b = b
    c = c
    t1 = t1
    t2 = t2
    Goals = {a, b, c}
    Callers = {t1, t2}
    Adders = {t1}
SYMMETRY GoalSymmetry
INVARIANTS
    Acyclic
    SomeGoalIsReady
PROPERTY
    CompletionUnblocks
    UnblocksOnlyMet
CHECK_DEADLOCK TRUE
