SPECIFICATION BankSpec
CONSTANTS
    w1 = w1
    w2 = w2
    w3 = w3
    Workers = {w1, w2}
    NoWorker = NoWorker
    NoRequest = NoRequest
    NoObject = NoObject
    NotLoaded = NotLoaded
    Accounts <- TwoAccounts
    Users <- TwoAccounts
    Owner <- OwnUser
    Requests <- TwoAccountRequests
    InitialBalance <- ScarceBalance
    OpeningBalance = 0
    Unreliable = {}
    MaxRequests = 2
    MaxLogins = 0
INVARIANTS
    MirrorAtRest
