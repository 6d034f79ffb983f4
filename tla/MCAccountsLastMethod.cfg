SPECIFICATION MCSpec
CONSTANTS
    google1 = google1
    google2 = google2
    github1 = github1
    google = google
    github = github
    Users = {u1}
    Emails = {e1}
    Identities = {google1, github1}
    Providers = {google, github}
    ProviderOf <- MCProviderOf
    Tokens = {}
    Reqs = {r1, r2}
    None = None
    Gone = Gone
INVARIANTS AlwaysASignInMethod
