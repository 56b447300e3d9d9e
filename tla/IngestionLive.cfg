\* Fairness on: two workers, two readings in a batch of three, so that only a
\* flush stores them.
SPECIFICATION FairSpec
CONSTANTS
    Workers = {w1, w2}
    NoTask = NoTask
    MaxTasks = 2
    Devices = {pump}
    BatchSize = 3
    MaxFaults = 1
    MaxOutages = 1
PROPERTY ReadingsReachTheTable
PROPERTY SignalEndsTheProcess
