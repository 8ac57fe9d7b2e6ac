SPECIFICATION Spec
CONSTANTS
    w1 = w1
    w2 = w2
    Workers = {w1, w2}
    NoWorker = NoWorker
    NoRequest = NoRequest
    Accounts <- MCAccounts
    Requests <- AllRequests
    InitialBalance <- MCInitialBalance
    OpeningBalance = 0
    Unreliable = {w1}
    MaxRequests = 3
INVARIANTS
    TypeOK
    NoOverdraft
    NoLostUpdate
    WaitChainAscends
    AnswerIsTrue
    LedgerExplainsBalance
PROPERTIES
    RefinesAtomicBank
