SPECIFICATION MCSpec
CONSTANTS
    JobIds = {j1}
    j1 = j1
    j2 = j2
    j3 = j3
    None = None
    MaxCrashes = 0
PROPERTIES JobSettles
CHECK_DEADLOCK FALSE
