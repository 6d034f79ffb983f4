SPECIFICATION Spec
CONSTANTS
    Subs = {s1}
    Deliveries = {d1}
    Workers = {w1}
    None = None
    MaxAttempts = 2
    BatchLimit = 1
    MaxCrashes = 0
PROPERTIES FailedIsRetried
