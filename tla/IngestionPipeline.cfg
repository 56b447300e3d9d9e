\* Two workers, three readings, batches of two: a batch fills, and one reading
\* is left for a flush.
SPECIFICATION Spec
CONSTANTS
    Workers = {w1, w2}
    NoTask = NoTask
    MaxTasks = 3
    Devices = {pump}
    BatchSize = 2
    MaxFaults = 1
    MaxOutages = 1
INVARIANT IngestionInv
INVARIANT NoLostWakeup
INVARIANT ReturnDrains
INVARIANT OvertakingIsBounded
INVARIANT LossIsBounded
PROPERTY ImplementsWriteBehind
