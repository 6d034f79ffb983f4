SPECIFICATION MCSpec
CONSTANTS
    google1 = google1
    google2 = google2
    github1 = github1
    google = google
    github = github
    Users = {u1, u2}
    Emails = {e1, e2}
    Identities = {google1, google2, github1}
    Providers = {google, github}
    ProviderOf <- MCProviderOf
    Tokens = {t1, t2}
    Reqs = {r1, r2}
    None = None
    Gone = Gone
SYMMETRY Symmetry
INVARIANTS TypeOK VerifiedIsProven TokenUsedOnce
PROPERTIES LastMethodLostKnowingly
