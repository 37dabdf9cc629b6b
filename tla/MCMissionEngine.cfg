CONSTANTS
    Plans <- SmallPlans
    MaxVersion = 3
SPECIFICATION FairDrive
INVARIANTS
    TypeOK
    PausedIsDecidable
    TrailExplainsStore
PROPERTIES
    TerminalIsFinal
    ImplementsGatedExecution
    DriveEnds
