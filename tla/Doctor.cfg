SPECIFICATION FairSpec
CONSTANTS
    a = a
    b = b
    NoName = NoName
    Name <- Names
    Rejected <- Refused
    Scripts <- Commands
    Lists <- OneOrBoth
    MaxRuns = 2
    MaxDeaths = 1
 
PROPERTIES SessionEnds
CHECK_DEADLOCK FALSE
