\* One of the properties below at a time, without mishaps.
SPECIFICATION Spec
CONSTANTS
    Contents = {c1, c2}
    Devices = {pump}
    Anomalies = {2}
    Nothing = Nothing
    MaxPoints = 1
    OldRows = 2
    MaxRows = 3
    MaxActions = 3
    MaxMishaps = 0
    MaxVisits = 3
SYMMETRY Interchangeable
INVARIANT RefetchReplaces
\* INVARIANT SamplesAreInTimeOrder
\* INVARIANT PageKnowsItsSamples
\* INVARIANT BootstrapIsReported
\* PROPERTY ResultIsReportedCorrectly
