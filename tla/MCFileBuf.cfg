CONSTANTS
    ALEN = 3
    Mark = Mark
    Unset = Unset
    End = End
    Failed = Failed
    Letter = Letter
    MaxLen = 8
    MaxEnds = 3
    Chars <- MCChars
    Files <- MCFiles
SPECIFICATION FileSpec
PROPERTY ReadsTheText
CHECK_DEADLOCK FALSE
