SPECIFICATION FairSpec
CONSTANTS
    Mac = {1, 2, 3, 4, 5}
    InId = {1, 2}
    Oui <- Ouis
    in_test_conf_max = 2
    in_topo_conf_max = 1
    in_link_conf_max = 1
    in_link_status_conf_max = 1
    Roles <- OneManager
    Stranger = {5}
    Start <- NoLink
    Calm = TRUE
    MaxFaults = 3
    MaxMishaps = 1
INVARIANT NoInterLoop
PROPERTY Reconverges
CHECK_DEADLOCK FALSE
