SPECIFICATION DocumentSpec
CONSTANTS
    Attempts = 3
    Posts = 3
    PollLimit = 1
    MaxTasks = 4
    MaxDeaths = 2
    MaxRestarts = 2
    MaxTrouble = 2
    Tries = 2
    MaxCrashes = 1
    MaxBlows = 1
    wa = wa
    wb = wb
    wo = wo
    xa = xa
    xo = xo
    ha = ha
    ho = ho
    Absent = Absent
    Webs = {wa, wb, wo}
    Storages = {xa, xo}
    Shas = {ha, ho}
    JobData <- MCJobData
    OlderPeriods <- MCOlder
    Docs <- MCDocs
    Quotes <- MCQuotes
    Digits = {1, 5}
    Dot = Dot
    Unknown = Unknown
    MaxSnippets = 2
    NResults = 2
    AskTries = 2
    MaxSweeps = 1
INVARIANTS
    DocumentTypesOK
    ParsedOnce
    
    EveryStepFindsTheRow
    
PROPERTIES
    ExecutionsEnd
CHECK_DEADLOCK FALSE
