SPECIFICATION Spec
CONSTANTS
    t1 = t1  t2 = t2
    Tabs = {t1, t2}
    None = None
    MaxQueue = 4
    BatchSize = 2
    MaxStored = 3
    ServerTake = 3
    MaxRaised = 3
    MaxMishaps = 2
    MaxUnstored = 1
INVARIANTS CopiesBounded NothingLost
CHECK_DEADLOCK FALSE
