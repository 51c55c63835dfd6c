\* One or two starts on six disks, two sessions that share a name, two tasks of which
\* one's name ends in the other's, and two commands on one file.
SPECIFICATION HostFairSpec
CONSTANTS
    p1 = p1
    p2 = p2
    a1 = a1
    a2 = a2
    i1 = i1
    i2 = i2
    s1 = s1
    s2 = s2
    r1 = r1
    r2 = r2
    Starts = {p1, p2}
    Names = {a1, a2}
    Items = {i1, i2}
    Disks <- MCDisks
    Sessions = {s1, s2}
    Repos = {r1, r2}
    Cases <- MCCases
    TaskNames <- MCNames
    Repo <- MCRepo
    Home <- MCHome
    System <- MCSystem
    Days <- MCDays
    Alphabet <- MCAlphabet
    Setups <- MCSetups
    Terms = {t1, t2}
    Kinds = {"Dockerfile", "docker.yaml", "global config"}
    MaxRuns = 2
    MaxEdits = 1
    MaxPin = 2
INVARIANTS
    TypeOK
    DataKept
    StampTruthful
    IncludedWorkKept
    Isolated
    OwnFiles
    AllOrNothing
PROPERTIES
    EventuallyMigrated
CHECK_DEADLOCK FALSE
