\* A batch of two gathers, one at a time; two functions that share a thread, and a
\* coroutine.  The stragglers of the first gather keep the thread.
SPECIFICATION FairSpec
CONSTANTS
    g1 = g1
    g2 = g2
    reasoner = reasoner
    critic = critic
    llm = llm
    Gathers = {g1, g2}
    Plain <- TwoFunctions
    Coroutines = {llm}
    Quorum = 2
    Concurrency = 1
    Threads = 1
    Aborts = 1
INVARIANTS
    AnswersCount
    NoStrayTask
PROPERTY
    Returns
    ImplementsPoll
\* A batch ends.
CHECK_DEADLOCK FALSE
