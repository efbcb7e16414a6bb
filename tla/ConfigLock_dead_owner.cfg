SPECIFICATION LockSpec
CONSTANTS
    t1 = t1
    t2 = t2
    t3 = t3
    t4 = t4
    p1 = p1
    p2 = p2
    p3 = p3
    Takers <- MCTasks
    Processes <- MCProcesses
    Proc <- MCProc
    Crashable = {}
    Leaving = {p2}
    Slow = {}
    Failing = {}
    Retries = 1
INVARIANT
    MutualExclusion
