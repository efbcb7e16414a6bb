SPECIFICATION FairSpec
CONSTANTS
    t1 = t1
    t2 = t2
    t3 = t3
    t4 = t4
    p1 = p1
    p2 = p2
    p3 = p3
    Takers <- MCTasks
    Processes <- MCProcesses
    Proc <- MCProc
    Crashable = {p2}
    Leaving = {p3}
    Slow = {}
    Failing = {t3}
    Retries = 1
INVARIANTS
    CalmExclusion
PROPERTIES
    AbandonedLockIsFreed
