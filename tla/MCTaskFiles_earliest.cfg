CONSTANTS
    top = top
    inner = inner
    folder = folder
    deep = deep
    Root = Root
    Absent = Absent
    IsDir = IsDir
    NoSet = NoSet
    Files <- const_Files
    Dirs <- const_Dirs
    Parent <- const_Parent
    Texts = {x, y}
    MaxTargets = 2
    MaxEdits = 1
    MaxCalls = 2
    MaxTasks = 1
    MaxUndos = 1
SPECIFICATION Spec
CHECK_DEADLOCK FALSE
INVARIANT EarliestBefore
