SPECIFICATION MCSpec
CONSTANTS
    JobIds = {j1, j2, j3}
    j1 = j1
    j2 = j2
    j3 = j3
    None = None
    MaxCrashes = 1
INVARIANTS TypeOK OrphanHasCause VerdictFitsRows ImportIsReindexed
PROPERTIES ImplementsLifecycle SettlesUnlessHit
\* All rows used up and every job ended: nothing is left to do.
CHECK_DEADLOCK FALSE
