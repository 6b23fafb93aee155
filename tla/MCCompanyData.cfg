SPECIFICATION DataSpec
CONSTANTS
    Cats = {k1}
    Values = {v1, v2}
    None = None
    Savers = {s1, s2}
    MaxIds = 6
    MaxSaves = 2
    Reports = {p1, p2}
    NoReport = NoReport
    Texts = {t1}
    Writers = {w1, w2}
    MaxGoals = 4
    MaxWrites = 3
    Companies = {c1, c2}
    Leis = {v1, v2}
    Isins = {i1, i2}
    Orgs = {o1}
    NoValue = NoValue
    Requests = {s1, s2}
    MaxAutoIsins = 2
    MaxRows = 6
    MaxBegun = 3
    Firms = {c1, c2}
    ReportRuns = {s1, s2}
    Things = {"lei", "bic"}
    Counted = {"lei"}
    MaxRetries = 1
    MaxPasses = 1
INVARIANTS
    DataTypesOK
    
    OneExtraction
    UsedCompaniesStay
PROPERTIES
    
    VerifiedIsKept
    IdentifiersAgree
CHECK_DEADLOCK FALSE
SYMMETRY Symmetry
