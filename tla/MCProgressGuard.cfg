CONSTANTS
    Reads = {read}
    Checks = {check}
    Tools = {tool}
    Contents = {A, B, C}
    Unseen = Unseen
    Window = 5
    Plans <- MCPlans
SYMMETRY ContentsSymmetry
SPECIFICATION GuardSpec
CHECK_DEADLOCK FALSE
INVARIANTS StopsWhenStuck
