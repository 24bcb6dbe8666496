CONSTANTS
    None = None
    Linked = Linked
    Rejected = Rejected
    VoiceNoId = 7
    MCFirstWaits = {0}
    MCWaits = {0, 1, 2}
    MCTimes = {1, 3}
    Scripts <- ScriptsOf3
    Programs = {}
    BufLen = 2
    CallLens = {3, 5}
    RateNum = 3
    RateDen = 1
    WordSize = 1000
SPECIFICATION RenderSpec
INVARIANT WritesInsideBuffer
CHECK_DEADLOCK FALSE
