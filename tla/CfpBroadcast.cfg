SPECIFICATION FairSpec
CONSTANTS
    None = None
    Api = Api
    a1 = a1
    a2 = a2
    Addr = {a1, a2}
    Confs <- MCConfs
    Workers = 1
    MaxStalls = 1
    Attempts = 2
    MaxResumes = 1
    MaxFaults = 2
INVARIANTS
    CleanJobReachedAll
    ResumeSkipsSent
PROPERTIES
    EveryoneIsTried
CHECK_DEADLOCK FALSE
