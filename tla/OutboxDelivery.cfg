SPECIFICATION Spec
CONSTANTS
    r1 = r1  r2 = r2  d1 = d1  d2 = d2  j1 = j1
    Rows = {r1, r2}
    Mailers = {d1, d2}
    Jobs = {j1}
    None = None
    BatchSize = 2
    JobBatch = 2
    MaxAttempts = 2
    StaleWindow = 1
    MaxFaults = 1
SYMMETRY RowsAndMailers
INVARIANTS TypeOK OneHolder OutboxTruthful DuplicatesBounded
PROPERTIES KeepsPromise
