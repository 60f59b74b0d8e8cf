SPECIFICATION LiveSpec
CHECK_DEADLOCK FALSE
CONSTANTS
    p = p
    q = q
    Scenes <- MCScenes
    Radix = 4
    CsumAt = 3
    Procs = {p, q}
    Local = {g, h, k}
    Senders = {r}
    Gateway = g
    Neighbour = h
    Macs = {m}
    Ports = {9}
    EchoPort = 7
    Headers <- MCHeaders
    Bodies <- MCBodies
    Pseudo = 5
    NumRx = 3
    NumTx = 2
    ArpSize = 2
    MaxBinds = 3
    QCap = 2
    MaxSends = 1
    Talkers = {p}
    Dests = {r, h}
INVARIANTS
    Delivery
    TablesConsistent
    RxRingExact
PROPERTIES
    RingDrained
    ReceiverServed
