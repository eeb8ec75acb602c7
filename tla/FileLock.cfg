SPECIFICATION FairLock
CONSTANTS
    c1 = c1
    c2 = c2
    Client <- Clients
    MaxDeaths = 2
INVARIANTS LockExcludes SnatchNeedsDeath
 
