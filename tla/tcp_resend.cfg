SPECIFICATION Spec
CONSTANTS
    NoConn = noconn
    p = p
    q = q
    a = a
    b = b
    e = e
    f = f
    SeqSpace = 16
    ISS = 14
    IRS = 15
    RetxMax = 2
    MaxRetx = 1
    BufCap = 1
    Slots = {1}
    Listeners = {1, 2}
    Depth = 2
    Users = {p}
    UserConns = {a}
    EchoConns = {e, f}
    ActiveConns = {b}
    PeerBytes <- MCPeerBytes
    Wins <- MCWins
    Scenes <- MCScenes
    MaxOpens = 1
    MaxSeq = 3
CHECK_DEADLOCK FALSE
INVARIANT PeerGetsStream
