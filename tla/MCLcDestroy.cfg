SPECIFICATION Spec
CONSTANTS
    Mac = {1, 2}
    InId = {1, 2}
    Oui <- Ouis
    in_test_conf_max = 3
    in_topo_conf_max = 3
    in_link_conf_max = 2
    in_link_status_conf_max = 2
    Config <- MimLcConfig
VIEW NoOutputs
INVARIANT DestroyStopsTimers
CHECK_DEADLOCK FALSE
