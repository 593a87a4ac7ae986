CONSTANTS
    p1 = p1
    p2 = p2
    s1 = s1
    s2 = s2
    Procs <- const_Procs
    Sessions <- const_Sessions
    NoRow = NoRow
    Nobody = Nobody
    NoSession = NoSession
    Down = Down
    Levels = {"strict"}
    MaxFacts = 2
    MaxRevision = 2
    MaxGeneration = 1
SYMMETRY Symmetric
SPECIFICATION Spec
INVARIANTS CleanMeansSaved ErasedStaysErased
PROPERTIES SaveLeavesNothingOut ImplementsRegister
