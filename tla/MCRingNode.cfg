SPECIFICATION FairSpec
CONSTANTS
    Mac = {1, 2}
    Prio = {128}
    Interval = {0, 2}
    ring_test_conf_max = 3
    ring_topo_conf_max = 2
    ring_topo_conf_interval = 1000
    ring_link_conf_max = 2
    NewMac = {1}
    Config <- NodeConfig
INVARIANTS
    TypeOK
    ManagerPorts
    ClientPorts
    LinkTimersMatch
    ManagerProbes
PROPERTIES
    OpensAfterSilence
    OpensAfterAnnouncing
    ChangeAnnounced
    RoleIsFixed
    AnnouncementEnds
    SilenceEnds
    ClientOpens
