CONSTANTS
    p1 = p1
    p2 = p2
    s1 = s1
    s2 = s2
    a = a
    c1 = c1
    c2 = c2
    Procs <- const_Procs
    Sessions <- const_Sessions
    Paths <- const_Paths
    Contents <- const_Contents
    NoRow = NoRow
    Nobody = Nobody
    NoSession = NoSession
    Down = Down
    MaxEdits = 1
    MaxTasks = 2
    MaxConfirmations = 2
SYMMETRY Symmetric
SPECIFICATION Spec
INVARIANTS BothOrNeither
PROPERTIES AcceptedIsVouched LossIsNotForgotten
