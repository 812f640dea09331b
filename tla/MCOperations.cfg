SPECIFICATION FairSpec
CONSTANTS
    Ops = {o1, o2}
    Keys = {k1, k2}
    CancelKeys = {c1, c2}
    Tasks = {t1, t2}
    None = None
    MaxCrashes = 2
    MaxFaults = 1
INVARIANTS
    EventsTellTheRow
    UnfinishedIsRecoverable
    KeyNamesOneOperation
    AbandonedOnlyByRaceOrFault
PROPERTIES
    ImplementsContract
    SettlesUnlessAbandoned
CHECK_DEADLOCK FALSE
