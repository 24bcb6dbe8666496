CONSTANTS
    None = None
    Linked = Linked
    Rejected = Rejected
    Labels = {"a"}
    DefTime = 4
    WordSize = 64
    Mixes <- BracketMixes
SPECIFICATION ConvSpec
INVARIANT EventsKept
CHECK_DEADLOCK FALSE
