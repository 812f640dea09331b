SPECIFICATION FairSpec
CONSTANTS
    Tasks = {1, 2}
    MaxStarts = 2
    MaxEra = 3
    MaxKills = 1
INVARIANTS
    AuthorityIsCurrent
    PhantomForAReason
PROPERTIES
    StaleHostIsStopped
CHECK_DEADLOCK FALSE
