SPECIFICATION LiveSpec
CONSTANTS
    p1 = p1
    p2 = p2
    p3 = p3
    task = task
    NoThread = nil
    NoValue = novalue
    NoName = noname
    FsTask = task
    Procs <- Three
    Openers <- One
    QThreads <- ThreeAndTask
    Cap = 2
    Names = {"a"}
    MaxFiles = 1
    MaxData = 1
CHECK_DEADLOCK FALSE
INVARIANTS
    TypeOK
    RequestHeldOnce
    ProducersAdvance
PROPERTIES
    RequestQueueIsFIFO
    RequestAnswered
