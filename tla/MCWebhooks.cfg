SPECIFICATION Spec
CONSTANTS
    Subs = {s1}
    Deliveries = {d1, d2}
    Workers = {w1, w2}
    None = None
    MaxAttempts = 2
    BatchLimit = 2
    MaxCrashes = 1
SYMMETRY Symmetry
INVARIANTS TypeOK OpenHasAttemptsLeft GivesUpOnlyWhenSpent
PROPERTIES PausedIsQuiet ImplementsDelivery
