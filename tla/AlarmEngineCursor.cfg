SPECIFICATION FairSpec
CONSTANTS
    s1 = s1
    s2 = s2
    Streams = {s1}
    Values = {2}
    Words <- MCWords
    Templates <- MCTemplates
    RuleBodies <- MCNoBodies
    DefaultRules <- MCDefaults
    SeedRules = TRUE
    LegacySchema = FALSE
    NoCursor = NoCursor
    MaxReadingId = 3
    MaxRuleId = 0
    MaxFaults = 1
    MaxStarts = 2
INVARIANTS
    NoDuplicateAlarm
    CursorSkipsNothing
PROPERTIES
    NoHistoryReplay
    ImplementsOrderedPoll
    ReadingsAreEvaluated
CHECK_DEADLOCK FALSE
