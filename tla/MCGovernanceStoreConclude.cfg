SPECIFICATION Spec
CONSTANTS
    Question = {"q1", "q2", "q3"}
    SectorQuestion = {k1, k2}
    Declares <- MCDeclares
    Value = {"retail", "other"}
    NoValue = NoValue
    NoRow = NoRow
    Conflict = Conflict
    NoSignal = NoSignal
    Client = {c1}
    Session = {s1}
    Required = {"q1", "q2"}
    Decisive = {"q1", "q2"}
    Needs <- MCNeeds
    NoAssessment = NoAssessment
    Kind <- MCKind
    Loads <- MCOneConclusion
    Industry = {"retail"}
    Release = {r1}
    NoRelease = NoRelease
    MaxActs = 6
    Assessment = {a1}
    NoSession = NoSession
    Primary = "q1"
    MaxCrashes = 1
INVARIANT ConcludesAsOne
SYMMETRY MCSymmetry
CHECK_DEADLOCK FALSE
