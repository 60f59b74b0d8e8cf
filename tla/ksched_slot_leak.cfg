SPECIFICATION Spec
CONSTANTS
    shell = shell
    disp = disp
    svc = svc
    k1 = k1
    k2 = k2
    NoThread = nil
    CPUs = {0, 1}
    Slots <- SlotsOf4
    Shell = shell
    BootServices <- DispOnly
    Dispatcher = disp
    TimerCap = 2
    DepthMod = 8
CHECK_DEADLOCK FALSE
SYMMETRY Kids
INVARIANT ExitedSlotIsFreed
