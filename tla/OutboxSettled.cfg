SPECIFICATION FairSpec
CONSTANTS
    r1 = r1  r2 = r2  d1 = d1  d2 = d2  j1 = j1
    Rows = {r1, r2}
    Mailers = {d1}
    Jobs = {j1}
    None = None
    BatchSize = 2
    JobBatch = 2
    MaxAttempts = 2
    StaleWindow = 1
    MaxFaults = 2
PROPERTIES EventuallySettled
