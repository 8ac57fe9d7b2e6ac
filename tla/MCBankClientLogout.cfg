\* Login, refresh, logout: the reply to the refresh comes last.
SPECIFICATION BCSpec
CONSTANTS
    AccountsOf <- mc_AccountsOf
    InitialBalance <- mc_InitialBalance
    Amount = 1
    AdminAmounts <- mc_AdminAmounts
    LoginWorkers = {l1, l2}
    TxnWorkers = {x1}
    Capacity = 1
    Flaky = {"/login"}
    MaxClicks = 3
    MaxOthers = 0
    MaxActions = 3
INVARIANT
    LogoutSticks
CHECK_DEADLOCK FALSE
