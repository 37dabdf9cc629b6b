CONSTANTS
    a1 = a1
    Approvers = {a1}
    Daemon = daemon
    NoFile = NoFile
    NoProblem = NoProblem
    gated = gated
    Problems = {gated}
    Consequential = {gated}
    Critical = {}
    MaxAttempts = 1
    MaxRaised = 1
    MaxChanges = 3
    MaxDecisions = 1
    MaxCrashes = 0
SPECIFICATION Spec
PROPERTIES RecurrenceReGates
