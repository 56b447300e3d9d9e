SPECIFICATION Spec
CONSTANTS
    s1 = s1
    s2 = s2
    Streams = {s1}
    Values = {2}
    Words <- MCWords
    Templates <- MCTemplates
    RuleBodies <- MCBodies
    DefaultRules <- MCNoDefaults
    SeedRules = FALSE
    LegacySchema = FALSE
    NoCursor = NoCursor
    MaxReadingId = 1
    MaxRuleId = 1
    MaxFaults = 2
    MaxStarts = 1
INVARIANTS
    TransientErrorKeepsAlarming
CHECK_DEADLOCK FALSE
