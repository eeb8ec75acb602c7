SPECIFICATION Spec
CONSTANTS
    c1 = c1
    c2 = c2
    Client <- Clients
    MaxDeaths = 0
    MaxEnqueues = 3
INVARIANTS FreshQueueSeesAll
CHECK_DEADLOCK FALSE
