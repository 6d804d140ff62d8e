SPECIFICATION FairSpec
CONSTANTS
    Mac = {1, 2}
    Prio = {1}
    ring_test_conf_max = 2
    ring_topo_conf_max = 1
    ring_topo_conf_interval = 1000
    ring_link_conf_max = 1
    MaxFaults = 2
    N = 2
    Prompt = TRUE
    Config <- Pairs
INVARIANT NoLoopOnceProbed
PROPERTY Settles
CHECK_DEADLOCK FALSE
