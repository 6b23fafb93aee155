SPECIFICATION JobsSpec
CONSTANTS
    Values = {v1, v2}
    Nothing = Nothing
    FlowTries = 2
    MaxFaults = 3
    MaxStalls = 1
    Processes = {p1, p2}
    MaxLosses = 1
    Null = Null
    NotAsked = NotAsked
    Answers <- MCAnswers
    GleifLeis = {l1, l2}
    Noise = {x}
    ListedIsins = {i1, i2}
    NoLei = NoLei
    PageSize = 2
    AutoIsins = 4
    Lists <- MCLists
    MaxTries = 1
    MaxChanges = 1
INVARIANTS
    JobTypesOK
    
    
    NothingFoundIsLost
    LookupIsSound
PROPERTIES
    AnswersAreKept
CHECK_DEADLOCK FALSE
