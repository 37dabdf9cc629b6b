CONSTANTS
    Workers = {w1, w2}
    NoWorker = NoWorker
    Plans <- TwoGates
    MaxRequests = 5
    MaxFailures = 1
SPECIFICATION FairWorkers
INVARIANTS
    TypeOK
    GateRespected
    ClearancesAreOnRecord
    RowIsCoherent
    OneCreation
PROPERTIES
    RequestsEnd
    ApprovalIsTakenUp
