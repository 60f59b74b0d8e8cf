SPECIFICATION Spec
CONSTANTS
    NumKids = 2
    procMaxFDs = 3
    Workloads <- JobsOnly
    ReadBytes = 2
    MaxLine = 2
    maxUserPages = 2
    HeapPages = 2
    freeStackCap = 4
    pipeBufBytes = 1
    MaxBytes = 2
    kbdRingSize = 2
    MaxKeys = 3
    HeldMod = 3
    Quantum = 2
    MaxNest = 2
CHECK_DEADLOCK FALSE
INVARIANT OneReader
