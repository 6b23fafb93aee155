SPECIFICATION PublishedSpec
CONSTANTS
    r1 = r1
    r2 = r2
    q1 = q1
    q2 = q2
    f1 = f1
    f2 = f2
    w1 = w1
    w2 = w2
    x1 = x1
    h1 = h1
    k1 = k1
    k2 = k2
    WebUrls = {w1, w2}
    StorageUrls = {x1}
    Hashes = {h1}
    None = None
    Text = Text
    NoRow = NoRow
    NoShell = NoShell
    Runs = {r1, r2}
    Posters = {q1, q2}
    Clerk = q2
    FileOf <- MCFileOf
    Filings <- MCFilings
    InputsOf <- MCInputsOf
    Seeds <- MCSeeds
    MaxRows = 4
    MaxShells = 3
    MaxDeletes = 1
    Keys = {a1, a2}
    EnvKeys = {a2}
    Limit = 2
    Window = 2
    Ttl = 2
    MaxMade = 1
    Readers = {s1}
    Editors = {e1, e2}
    MaxEdits = 2
    Unreported = Unreported
    Categories = {"c1"}
    ReportsOf <- MCReportsOf
    Ends = {1, 2}
    OthersValues = {0, 1}
    OnItem <- MCOnItem
    MaxChanges = 1
    MaxUploads = 3
    Years = {1, 2, 3, 4}
    Cats = {k1, k2}
    NoNumber = NoNumber
    Blank = Blank
    Reported <- MCReported
INVARIANTS
    OnePassIsEnough
    PublishedTypesOK
    CachedIsCurrent
    
PROPERTIES
    
    
    KeysAreLimited
    
CHECK_DEADLOCK FALSE
SYMMETRY Symmetry
