\* Three actions that make calls: the first visit of the rules page, a delete
\* and a create that overlap, or a bootstrap between two loads. Windows of up to
\* three rows are cut down to one, an anomaly and the newest.
SPECIFICATION Spec
CONSTANTS
    Contents = {c1, c2}
    Devices = {pump}
    Anomalies = {2}
    Nothing = Nothing
    MaxPoints = 1
    OldRows = 2
    MaxRows = 3
    MaxActions = 3
    MaxMishaps = 1
    MaxVisits = 2
SYMMETRY Interchangeable
INVARIANT PanelsInv
INVARIANT QuietListIsComplete
PROPERTY AnswersShowTheWindow
