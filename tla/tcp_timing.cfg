SPECIFICATION LiveSpec
CONSTANTS
    Mss = 2
    SndWnd = 8
    RetxMax = 2
    RTOMin = 1
    RTOMax = 3
    MaxRetx = 1
    DupMod = 4
    WordMod = 16
    Sizes = {2}
    MaxAge = 2
    MaxAcks = 5
CHECK_DEADLOCK FALSE
INVARIANT TimingInRange
PROPERTY LostSegmentEnds
