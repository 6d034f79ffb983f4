SPECIFICATION Spec
CONSTANTS
    Tracks = {t1, t2, t3}
    Playlists = {p1}
    Clients = {c1, c2}
    None = None
    NoUser = NoUser
    MaxList = 2
    MaxPosition = 2
    Users = {u1, u2}
    Tasks = {h1, h2}
    Cap = 2
    MaxPlays = 4
    MaxDeaths = 1
    Identities = {i1}
    Callers = {r1, r2}
    Limit = 1
    MaxCount = 3
INVARIANTS TypeOK PlaylistKeepsOrder CapHolds CutOnlyToCap StuckKeyHasCause WindowAdmitsLimit
PROPERTIES EntriesLostKnowingly EventuallyCapped BlockedEnds
CHECK_DEADLOCK FALSE
