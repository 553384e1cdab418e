SPECIFICATION FairSpec
CONSTANTS
    t1 = t1  t2 = t2
    Tabs = {t1}
    None = None
    MaxQueue = 4
    BatchSize = 2
    MaxStored = 2
    ServerTake = 2
    MaxRaised = 4
    MaxMishaps = 2
    MaxUnstored = 1
INVARIANTS TypeOK BacklogBounded NeverStalls OwnReference NothingLost
PROPERTIES EventuallyRecorded ReportsReturn
CHECK_DEADLOCK FALSE
