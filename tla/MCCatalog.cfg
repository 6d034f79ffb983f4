SPECIFICATION Spec
CONSTANTS
    Tracks = {t1}
    Slug = t1
    Readers = {r1}
    Writers = {w1, w2}
    NoValue = NoValue
    MaxChanges = 2
    Jobs = {j1, j2}
    NoJob = NoJob
    Streams = {s1, s2}
    SpotifyIds = {k1, k2}
    NoId = NoId
    Ingests = {i1, i2}
    MaxFailures = 1
INVARIANTS TypeOK StaleEntryHasCause IndexAgreesOrExcused ReadyWasReady DeadJobNotReused
PROPERTIES EventuallyFresh IngestLandsOrOvertaken
