\* Three requests of a client, and two sets of limits.
CONSTANTS
    r1 = r1
    r2 = r2
    r3 = r3
    Unset = Unset
    NoBrief = NoBrief
    Requests = {r1, r2, r3}
    Asks <- MCAskSet
    Jobs <- MCJobs
    Classes <- MCClasses
    Configs <- MCConfigs
    DayLength = 4
SPECIFICATION Spec
CHECK_DEADLOCK FALSE
PROPERTIES
    LimitsHoldUnlessExplained
    RefusalsAreExplained
