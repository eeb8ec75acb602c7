SPECIFICATION Spec
CONSTANTS
    a = a
    b = b
    NoName = NoName
    Name <- Names
    Rejected <- Refused
    Scripts <- Commands
    Lists <- OneOrBoth
    MaxRuns = 1
    MaxDeaths = 0
INVARIANTS EachTargetItsOwn
CHECK_DEADLOCK FALSE
