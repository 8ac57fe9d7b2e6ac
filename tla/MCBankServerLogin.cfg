SPECIFICATION FairBankSpec
CONSTANTS
    w1 = w1
    w2 = w2
    w3 = w3
    Workers = {w1, w2}
    NoWorker = NoWorker
    NoRequest = NoRequest
    NoObject = NoObject
    NotLoaded = NotLoaded
    Accounts <- MCAccounts
    Users <- MCAccounts
    Owner <- OwnUser
    Requests <- MixedRequests
    InitialBalance <- ScarceBalance
    OpeningBalance = 0
    Unreliable = {w1}
    MaxRequests = 2
    MaxLogins = 1
INVARIANTS
    BankTypeOK
    NoMutexDeadlock
PROPERTIES
    EveryRequestAnswered
    EveryLoginAnswered
