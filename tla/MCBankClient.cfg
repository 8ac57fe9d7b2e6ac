\* The two login workers of the server, one of its transaction workers, rings
\* of one slot; three actions of the client, or two and one of another program.
SPECIFICATION BCSpec
CONSTANTS
    AccountsOf <- mc_AccountsOf
    InitialBalance <- mc_InitialBalance
    Amount = 1
    AdminAmounts <- mc_AdminAmounts
    LoginWorkers = {l1, l2}
    TxnWorkers = {x1}
    Capacity = 1
    Flaky = {"/login"}
    MaxClicks = 3
    MaxOthers = 1
    MaxActions = 3
INVARIANTS
    ClientTypeOK
    CacheWasTrue
    ClientAndServerAgree
PROPERTIES
    EverySentIsHeard
    LoginButtonComesBack
CHECK_DEADLOCK FALSE
