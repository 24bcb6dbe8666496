CONSTANTS
    None = None
    Linked = Linked
    Rejected = Rejected
    VoiceNoId = 7
    MCFirstWaits = {0}
    MCWaits = {0, 1}
    MCTimes = {1, 2}
    Scripts <- ScriptsOf4
SPECIFICATION ConvSpec
INVARIANT ReusesOnlyExpired
CHECK_DEADLOCK FALSE
