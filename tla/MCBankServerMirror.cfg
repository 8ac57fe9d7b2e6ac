\* Workers may wait for ever here: the mutexes are what LocksAccountedFor is about.
SPECIFICATION BankSpec
CHECK_DEADLOCK FALSE
CONSTANTS
    w1 = w1
    w2 = w2
    w3 = w3
    Workers = {w1, w2, w3}
    NoWorker = NoWorker
    NoRequest = NoRequest
    NoObject = NoObject
    NotLoaded = NotLoaded
    Accounts <- TwoAccounts
    Users <- TwoAccounts
    Owner <- OwnUser
    Requests <- MirrorRequests
    InitialBalance <- MixedBalance
    OpeningBalance = 0
    Unreliable = {}
    MaxRequests = 3
    MaxLogins = 0
INVARIANTS
    MirrorInStep
    MirrorNeverUnderstates
    LocksAccountedFor
