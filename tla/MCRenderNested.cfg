CONSTANTS
    None = None
    Linked = Linked
    Rejected = Rejected
    VoiceNoId = 7
    MCFirstWaits = {0}
    MCWaits = {0, 2}
    MCTimes = {1, 2}
    Scripts <- NestedAndPlainScripts
    Programs = {}
    BufLen = 2
    CallLens = {3}
    RateNum = 3
    RateDen = 1
    WordSize = 1000
SPECIFICATION RenderFairSpec
INVARIANT NestedKeepTime
PROPERTY SignalEnds
CHECK_DEADLOCK FALSE
