CONSTANTS
    Workers = {w1}
    NoWorker = NoWorker
    Plans <- SerialPlans
    MaxRequests = 6
    MaxFailures = 2
SPECIFICATION Spec
INVARIANT
    ViewIsCurrent
PROPERTY
    ImplementsGatedExecution
