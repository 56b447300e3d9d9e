\* One of the properties below at a time: a failed query is taken for an empty table, and a
\* template in the table is not read.
SPECIFICATION Spec
CONSTANTS
    s1 = s1
    s2 = s2
    Streams = {s1}
    Values = {2}
    Words <- MCWords
    Templates <- MCTemplates
    RuleBodies <- MCBodies
    DefaultRules <- MCDefaults
    SeedRules = TRUE
    LegacySchema = FALSE
    NoCursor = NoCursor
    MaxReadingId = 1
    MaxRuleId = 1
    MaxFaults = 1
    MaxStarts = 1
PROPERTIES
    SeedsOnlyIfEmpty
    \* ConfiguredMessageIsUsed
CHECK_DEADLOCK FALSE
