CONSTANTS
    None = None
    Linked = Linked
    Rejected = Rejected
    VoiceNoId = 7
    MCFirstWaits = {0, 1}
    MCWaits = {0, 1, 2}
    MCTimes = {1, 2}
    Scripts <- ScriptsOf3
    Programs = {}
    BufLen = 2
    CallLens = {3, 5}
    RateNum = 3
    RateDen = 2
    WordSize = 1000
SPECIFICATION RenderSpec
INVARIANTS
    PassedVoicesSilent
    ShortReturnIsTheEnd
    WritesInPlace
    CountsToTheEnd
    HeardAsWritten
PROPERTIES
    EventsOnTime
    FollowsTimeline
CHECK_DEADLOCK FALSE
