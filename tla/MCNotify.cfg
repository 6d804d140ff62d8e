SPECIFICATION NotifyFairSpec
CONSTANTS
    Reported = {"UP", "DOWN", "DORMANT", "UNKNOWN"}
    MaxQueue = 2
    MaxSent = 6
INVARIANT LinkFollows
PROPERTY LinkTold
CHECK_DEADLOCK FALSE
