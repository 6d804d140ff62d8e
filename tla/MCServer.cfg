SPECIFICATION FairSpec
CONSTANTS
    Id = {1, 2}
    Ifindex = {1, 2, 3, 4, 5, 6}
    Client = {1, 2, 3}
    Asked <- Both
    Failure <- Failures
    MaxStops = 1
INVARIANTS TableConsistent NoFreedTimer 
PROPERTIES LeaveRemoves ServesCommands CommandsEnd
CHECK_DEADLOCK FALSE
