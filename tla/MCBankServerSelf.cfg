SPECIFICATION BankSpec
CONSTANTS
    w1 = w1
    w2 = w2
    w3 = w3
    Workers = {w1, w2}
    NoWorker = NoWorker
    NoRequest = NoRequest
    NoObject = NoObject
    NotLoaded = NotLoaded
    Accounts <- TwoAccounts
    Users <- TwoAccounts
    Owner <- OwnUser
    Requests <- SelfTransfer
    InitialBalance <- AmpleBalance
    OpeningBalance = 0
    Unreliable = {}
    MaxRequests = 1
    MaxLogins = 0
INVARIANTS
    NoMutexDeadlock
