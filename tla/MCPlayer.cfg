CONSTANTS
    None = None
    Linked = Linked
    Rejected = Rejected
    Options = {"a", "c", "m", "o", "r"}
    Platforms = {"linux", "openbsd", "other"}
    MaxOptions = 3
    MaxScripts = 2
    Lengths = {0, 2}
    DefaultSrate = 2
    Srates = {1}
    DevRates = {1, 3}
    BufTime = 1
    FrameBytes = 4
    WordSize = 1000
SPECIFICATION PlayerFairSpec
INVARIANTS
    DeviceUsedAsAsked
    SinksGetAllPrograms
    HeaderTellsSizeThatFits
    ErrorsAreToldOf
PROPERTY ComesToAnEnd
CHECK_DEADLOCK FALSE
