SPECIFICATION LocksFairSpec
CONSTANTS
    Tasks = {t1, t2, t3}
    operation = operation
    project = project
    Keys = {operation, project}
    Locks = {l1, l2, l3}
    Nil = Nil
    Rank <- MCRank
INVARIANTS
    MutualExclusion
PROPERTIES
    RequestsAreServed
