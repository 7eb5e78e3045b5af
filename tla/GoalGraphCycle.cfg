\* Two threads add dependencies at the same time.
SPECIFICATION Spec
CONSTANTS
    None = None
    a = a
    b = b
    c = c
    t1 = t1
    t2 = t2
    Goals = {a, b}
    Callers = {t1, t2}
    Adders = {t1, t2}
INVARIANTS
    Acyclic
CHECK_DEADLOCK TRUE
