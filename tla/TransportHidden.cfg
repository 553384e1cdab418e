SPECIFICATION FairSpec
CONSTANTS
    t1 = t1  t2 = t2
    Tabs = {t1}
    None = None
    MaxQueue = 4
    BatchSize = 2
    MaxStored = 2
    ServerTake = 2
    MaxRaised = 2
    MaxMishaps = 1
    MaxUnstored = 1
PROPERTIES EveryReportReturns
CHECK_DEADLOCK FALSE
