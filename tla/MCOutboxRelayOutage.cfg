CONSTANTS
    Txns = {t1, t2}
    Relays = {r1}
    Kinds <- Rebuildable
    Limit = 2
    MaxRows = 2
    MaxFaults = 1
SPECIFICATION FairRelay
PROPERTY
    DeliversAfterOutage
