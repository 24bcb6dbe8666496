CONSTANTS
    None = None
    Linked = Linked
    Rejected = Rejected
    Labels = {"a"}
    DefTime = 4
    WordSize = 64
    Mixes <- ShortMixes
SPECIFICATION ConvSpec
INVARIANTS
    GroupsDivideEvents
    ListsAreTrees
    EventsOnceInOrder
    TimesKeptInTurn
    GroupsAreTimed
    ParametersAsWritten
    MakesScript
CHECK_DEADLOCK FALSE
