SPECIFICATION Spec
CONSTANTS
    Mac = {1, 2}
    Prio = {1}
    Interval = {2}
    ring_test_conf_max = 2
    ring_topo_conf_max = 1
    ring_topo_conf_interval = 1000
    ring_link_conf_max = 0
    NewMac = {}
    Config <- AutoConfig
INVARIANT ClosedRingIsBlocked
