\* Two event loop threads, three requests and two failures: two threads can
\* both find the connection closed, and one can replace it under the other.
SPECIFICATION CASpec
CONSTANTS
    Threads = {t1, t2}
    NoThread = noThread
    Numbers <- mc_Numbers
    InitialAccounts <- mc_InitialAccounts
    MAX_RETRIES = 2
    MaxCreations = 3
    MaxFailures = 2
INVARIANTS
    CTypeOK
    CreationAnswerIsTrue
    NoAbandonedBlock
PROPERTIES
    RefinesRegistry
    EveryCreationAnswered
CHECK_DEADLOCK FALSE
