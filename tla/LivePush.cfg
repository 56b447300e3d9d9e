\* A client that comes and goes, two readings and an alarm, two failed statements.
SPECIFICATION Spec
CONSTANTS
    Clients = {c1}
    NoCursor = NoCursor
    MaxReadings = 2
    MaxAlarms = 1
    MaxFaults = 2
INVARIANT PushInv
INVARIANT NoHistoryReplay
PROPERTY EveryRowIsPassed
