SPECIFICATION FairSpec
CONSTANTS
    Port = {"p", "s", "i"}
    State = {"BLOCKED", "FORWARDING"}
    FlushOrder <- PSI
    mra_support = TRUE
    MaxCalls = 3
    MaxLost = 2
INVARIANTS BeliefWarned SocketBounded
PROPERTIES  TalkReturns
CHECK_DEADLOCK FALSE
