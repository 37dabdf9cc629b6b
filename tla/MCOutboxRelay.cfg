CONSTANTS
    Txns = {t1, t2}
    Relays = {r1, r2}
    Kinds <- AnyKind
    Limit = 2
    MaxRows = 3
    MaxFaults = 2
SPECIFICATION FairRelay
INVARIANTS
    TypeOK
    PublishedWasDelivered
    OnlyCommittedDelivered
    CausalOrder
PROPERTY
    EveryEventDelivered
