\* Two keys, two files, an interval of two ticks.
SPECIFICATION Spec
CONSTANTS
    Keys = {k1, k2}
    Files = {f1, f2}
    NoFile = NoFile
    Interval = 2
    MaxFaults = 1
INVARIANT CacheInv
INVARIANT SavesAreKept
PROPERTY WaitingIsWritten
