SPECIFICATION Spec
CONSTANTS
    Mac = {1, 2, 3}
    Prio = {1}
    ring_test_conf_max = 2
    ring_topo_conf_max = 1
    ring_topo_conf_interval = 1000
    ring_link_conf_max = 1
    MaxFaults = 1
    N = 3
    Prompt = TRUE
    Config <- Triples
INVARIANT NoLoopOnceProbed
CHECK_DEADLOCK FALSE
