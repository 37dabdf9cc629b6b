CONSTANTS
    Workers = {w1, w2}
    NoWorker = NoWorker
    Plans <- GateLast
    MaxRequests = 5
    MaxFailures = 0
SPECIFICATION Spec
INVARIANT
    NoStepTwice
