------------------------------ MODULE RingNode ------------------------------
(***************************************************************************)
(* One instance with its two ring ports, in an environment that may send   *)
(* it any ring frame at any time: frames may be lost, repeated, reordered  *)
(* or come from anybody.  An action is one callback of the event loop.     *)
(***************************************************************************)
EXTENDS RingHandlers

CONSTANTS
    Config,         \* the addmrp commands considered
    Interval,       \* the intervals that received MRP_TopologyChange frames carry
    NewMac          \* the addresses that the bridge may be given while it runs

ASSUME NodeAssumption ==
    Config \subseteq ConfigRecord /\ Interval \subseteq UInt16 /\ NewMac \subseteq Mac

VARIABLES
    mrp,            \* the instance
    silence,        \* history: test intervals passed since its ring was last seen closed
    waited          \* history: link-up intervals passed since it entered PT

vars == <<mrp, silence, waited>>

\* The frames that may arrive.
Rx == LinkFrame \cup TestFrame \cup NackFrame
        \cup [type : {"RING_TOPO"}, sa : Mac, interval : Interval]
        \cup [type : {"OPTION"}, sub : {"TEST_PROPAGATE"}, sa : Mac, prio : Prio,
              other_sa : Mac \cup {NoMac}, other_prio : Prio]

-----------------------------------------------------------------------------
(***************************************************************************)
(* The event loop.                                                         *)
(***************************************************************************)
\* The callback of event ends in instance m; the history variables observe it.
Callback(m, event) ==
    /\ mrp' = m
    /\ silence' = CASE ~(Watching(mrp) /\ Watching(m)) \/ event = "own_test" -> 0
                    [] Watching(mrp) /\ Watching(m) /\ event = "ring_test" -> silence + 1
                    [] OTHER -> silence
    /\ waited' = CASE ~(Waiting(mrp) /\ Waiting(m)) -> 0
                   [] Waiting(mrp) /\ Waiting(m) /\ event = "ring_link_up" -> waited + 1
                   [] OTHER -> waited

Init ==
    /\ \E c \in Config, up \in SUBSET RingPort : mrp = mrp_add(c, up)
    /\ silence = 0
    /\ waited = 0

packet_rcv ==
    \E p \in RingPort, f \in Rx :
        Callback(mrp_recv(Idle(mrp), p, f),
                 IF f.type = "RING_TEST" /\ f.sa = mrp.macaddr THEN "own_test" ELSE "frame")

\* A netlink message about port p.  UNKNOWN counts as up; a state that operstate
\* already has is ignored.  OTHER stands for the four other states that count as down.
netlink_listen ==
    \E p \in RingPort, s \in OperState \cup {"OTHER"} :
        /\ mrp.operstate[p] # s
        /\ Callback(mrp_port_link_change(Idle(mrp), p, s \in {"UNKNOWN", "UP"}), "link")

mrp_mac_change ==
    \E mac \in NewMac : Callback([Idle(mrp) EXCEPT !.macaddr = mac], "mac")

ring_test_work ==
    /\ "ring_test" \in mrp.timers
    /\ Callback(mrp_ring_test_expired(Idle(mrp)), "ring_test")

ring_topo_work ==
    /\ "ring_topo" \in mrp.timers
    /\ Callback(mrp_ring_topo_expired(Idle(mrp)), "ring_topo")

ring_link_up_work ==
    /\ "ring_link_up" \in mrp.timers
    /\ Callback(mrp_ring_link_up_expired(Idle(mrp)), "ring_link_up")

ring_link_down_work ==
    /\ "ring_link_down" \in mrp.timers
    /\ Callback(mrp_ring_link_down_expired(Idle(mrp)), "ring_link_down")

clear_fdb_work ==
    /\ "clear_fdb" \in mrp.timers
    /\ Callback(mrp_clear_fdb_expired(Idle(mrp)), "clear_fdb")

Next ==
    \/ packet_rcv
    \/ netlink_listen
    \/ mrp_mac_change
    \/ ring_test_work
    \/ ring_topo_work
    \/ ring_link_up_work
    \/ ring_link_down_work
    \/ clear_fdb_work

Spec == Init /\ [][Next]_vars

(***************************************************************************)
(* The event loop runs the callback of every timer that stays armed.       *)
(***************************************************************************)
Fairness ==
    /\ WF_vars(ring_test_work)
    /\ WF_vars(ring_topo_work)
    /\ WF_vars(ring_link_up_work)
    /\ WF_vars(ring_link_down_work)
    /\ WF_vars(clear_fdb_work)

FairSpec == Spec /\ Fairness

-----------------------------------------------------------------------------
(***************************************************************************)
(* Properties.                                                             *)
(***************************************************************************)
\* Every field of the instance keeps its C type, and everything sent is a frame.
TypeOK == mrp \in Instance /\ silence \in Nat /\ waited \in Nat

\* Whatever frames and link events arrive, the secondary port of a manager that
\* considers its ring closed is blocked, and it is open only in CHK_RO.
ManagerPorts == FixedRole(mrp) /\ mrp.ring_role = "MRM" => PortsMatchManager(mrp)

\* The same for a client: both ports forward in PT_IDLE only.
ClientPorts == FixedRole(mrp) /\ mrp.ring_role = "MRC" => PortsMatchClient(mrp)

\* The timer handlers of link changes do not look at the state they expire in, so a
\* timer that outlives its state acts on another one: a client's link-up timer runs
\* exactly in PT and its link-down timer exactly in DE.
LinkTimersMatch == FixedRole(mrp) /\ mrp.ring_role = "MRC" => TimersMatchClient(mrp)

\* A manager with a link never stops probing: no sequence of events leaves it in
\* PRM_UP, CHK_RO or CHK_RC with its test timer stopped.
ManagerProbes ==
    mrp.ring_role = "MRM" /\ mrp.mrm_state # "AC_STAT1" => "ring_test" \in mrp.timers

\* Patience: a manager gives up on its ring by timeout only after ring_test_conf_max
\* consecutive test intervals without one of its own frames.
OpensAfterSilence ==
    [][Watching(mrp) /\ ring_test_work /\ ~Watching(mrp') => silence + 1 >= ring_test_conf_max]_vars

\* A client opens a port that came up by timeout only after it has announced the link
\* ring_link_conf_max times more and waited one interval longer.
OpensAfterAnnouncing ==
    [][FixedRole(mrp) /\ Waiting(mrp) /\ ring_link_up_work /\ ~Waiting(mrp') =>
          waited = ring_link_conf_max]_vars

\* A manager that opens or closes its ring tells the ring in the same callback: it
\* has flushed, or an announcement cycle that ends in a flush is running.
ChangeAnnounced ==
    [][(/\ {mrp.mrm_state, mrp'.mrm_state} = {"CHK_RO", "CHK_RC"}
        /\ mrp.ring_role = "MRM" /\ mrp'.ring_role = "MRM")
       => mrp'.flushed \/ "ring_topo" \in mrp'.timers]_vars

\* No frame and no timer moves an instance with a fixed role to another role.
RoleIsFixed == [][FixedRole(mrp) => mrp'.ring_role = mrp.ring_role]_vars

\* An announcement cycle of a manager that keeps its role ends.
AnnouncementEnds == FixedRole(mrp) /\ mrp.ring_topo_running ~> ~mrp.ring_topo_running

\* Silence does not last: a manager that misses its own frames hears one again, or
\* stops considering the ring closed.
SilenceEnds == silence > 0 ~> silence = 0

\* A client does not keep a port that came up blocked for ever.
ClientOpens == FixedRole(mrp) /\ Waiting(mrp) ~> ~Waiting(mrp)

\* README.adoc: "if the frame is received at the other end, then the ring is closed.
\* ... In this case it sets the port state to BLOCKED".  A manager, automanagers
\* included, that considers its ring closed has a blocked ring port.
ClosedRingIsBlocked == Watching(mrp) => \E p \in RingPort : mrp.state[p] = "BLOCKED"

=============================================================================
