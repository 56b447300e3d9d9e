SPECIFICATION LiveSpec
CONSTANTS
    MaxAttempts = 6
    MaxReadings = 2
    Requests = {r1, r2}
    Idle = Idle
    Asked = Asked
    Failed = Failed
    NoCursor = NoCursor
INVARIANT ClientInv
INVARIANT NoReadingIsMissed
PROPERTY ConnectsInTheEnd
