SPECIFICATION Spec
CONSTANTS
    p1 = p1
    p2 = p2
    p3 = p3
    task = task
    NoThread = nil
    NoValue = novalue
    NoName = noname
    FsTask = task
    Procs <- Two
    Openers <- Two
    QThreads <- TwoAndTask
    Cap = 1
    Names = {"a"}
    MaxFiles = 2
    MaxData = 1
CHECK_DEADLOCK FALSE
INVARIANT FilesConsistent
