CONSTANTS
    None = None
    Linked = Linked
    Rejected = Rejected
    VoiceNoId = 3
    MCFirstWaits = {0}
    MCWaits = {0, 1}
    MCTimes = {1, 2}
    Scripts <- ScriptsOf4
SPECIFICATION ConvSpec
INVARIANTS
    ReuseSafeUnlessRetimed
    UpdatesOfCarriersReachThem
    VoicesEnterInOrder
    GraphsUpToDate
    AsManyVoicesAsSoundAtOnce
    DurationIsLastEnd
CHECK_DEADLOCK FALSE
