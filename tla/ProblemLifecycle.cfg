CONSTANTS
    a1 = a1
    Approvers = {a1}
    Daemon = daemon
    NoFile = NoFile
    NoProblem = NoProblem
    gated = gated
    free = free
    Problems = {gated, free}
    Consequential = {gated}
    Critical = {gated}
    MaxAttempts = 2
    MaxRaised = 1
    MaxChanges = 3
    MaxDecisions = 2
    MaxCrashes = 1
SPECIFICATION Spec
INVARIANTS TypeOK StateFollowsLedger EscalatedAfterCap AttemptsCapped
PROPERTIES OnlyOnGrant ClosesWhenGone EscalatesWhenPresent
