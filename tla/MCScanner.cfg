CONSTANTS
    ALEN = 2
    Mark = "BEL"
    Unset = "unset"
    None = None
    UNGET_MAX = 3
    SymChars = {"a", "Q", "0", "1", "2", "3", "C", "c", "s"}
    OtherChars = {"?", "!", "(", ")", "+", "-", "^", "."}
    Texts <- MCTexts
    MaxUndone = 1
    MaxEnds = 1
    MaxEmpty = 1
    TryChars = {"?"}
    MaxText = 3
    Kinds = {"plain", "time", "note", "chanmix"}
    NumTexts <- MCNumTexts
SPECIFICATION ScannerSpec
INVARIANTS
    ReadsTextInOrder
    PlaceTold
CHECK_DEADLOCK FALSE
