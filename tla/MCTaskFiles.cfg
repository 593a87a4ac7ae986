CONSTANTS
    top = top
    inner = inner
    folder = folder
    deep = deep
    Root = Root
    Absent = Absent
    IsDir = IsDir
    NoSet = NoSet
    Files <- const_Files
    Dirs <- const_Dirs
    Parent <- const_Parent
    Texts = {x, y}
    MaxTargets = 2
    MaxEdits = 1
    MaxCalls = 2
    MaxTasks = 2
    MaxUndos = 2
SPECIFICATION Spec
SYMMETRY Interchangeable
CHECK_DEADLOCK FALSE
INVARIANTS NothingForgotten UndoStaysPossible
PROPERTIES CompensatedOrTold UndoneIsBefore
