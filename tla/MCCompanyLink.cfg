SPECIFICATION MCSpec
CONSTANTS
    r1 = r1
    r2 = r2
    c1 = c1
    c2 = c2
    c3 = c3
    c4 = c4
    n1 = n1
    n2 = n2
    n3 = n3
    q1 = q1
    Runs = {r1, r2}
    Companies = {c1, c2, c3, c4}
    Names = {n1, n2, n3}
    Qids = {q1}
    NoRun = NoRun
    NoCompany = NoCompany
    NoName = NoName
    NoQid = NoQid
    AutoApprove = {r2}
    NameOf <- MCNameOf
    Core <- MCCore
    Seeds <- MCSeeds
    MaxFaults = 1
    SeedNames = {n2, n3}
INVARIANTS OneShellPerName VerifiedByStaff
PROPERTY SavesArrive
CHECK_DEADLOCK FALSE
