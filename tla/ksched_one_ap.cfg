SPECIFICATION LiveSpec
CONSTANTS
    shell = shell
    disp = disp
    svc = svc
    k1 = k1
    k2 = k2
    NoThread = nil
    CPUs = {0, 1}
    Slots <- SlotsOf5
    Shell = shell
    BootServices <- DispSvc
    Dispatcher = disp
    TimerCap = 2
    DepthMod = 8
CHECK_DEADLOCK FALSE
INVARIANTS
    TypeOK
    OneCPUPerThread
    OneListPerThread
    PreemptSafePoint
    NoLostWakeup
    BSPKeepsItsThreads
PROPERTY ServiceParkEnds
