SPECIFICATION MCSpec
CONSTANTS
    Subs = {s1}
    Deliveries = {d1, d2}
    Workers = {w1, w2}
    d1 = d1
    w1 = w1
    None = None
    MaxAttempts = 3
    BatchLimit = 1
    MaxCrashes = 1
PROPERTIES EventuallySettled
