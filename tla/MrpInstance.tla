---------------------------- MODULE MrpInstance ----------------------------
(***************************************************************************)
(* One MRP instance of the daemon: the fields of struct mrp that its ring  *)
(* state machines read and write (state_machine.h), the frames it puts on  *)
(* the wire, and the setters, timers and requests every handler is built   *)
(* from.  A C function that updates struct mrp in place is an operator     *)
(* from the instance before the call to the instance after it.             *)
(*                                                                         *)
(* A handler runs to completion inside the daemon's one event loop.  What  *)
(* it emits while it runs is collected in two output fields: tx, the       *)
(* frames handed to packet_send with the port they leave by, and flushed,  *)
(* whether the forwarding database was cleared.                            *)
(***************************************************************************)
EXTENDS Integers

CONSTANTS
    Mac,                        \* bridge MAC addresses, ordered as by ether_addr_to_u64
    Prio,                       \* manager priorities in use
    ring_test_conf_max,         \* unanswered test intervals before the ring is open
    ring_topo_conf_max,         \* topology change announcements of one cycle
    ring_topo_conf_interval,    \* their distance, in microseconds
    ring_link_conf_max          \* repeated link change announcements of a client

Size16 == 256 * 256
UInt16 == 0 .. Size16 - 1
ToUInt16(x) == x % Size16

ASSUME ConfAssumption ==
    /\ Mac \subseteq Nat \ {0}
    /\ Prio \subseteq UInt16
    /\ ring_test_conf_max \in Nat \ {0}
    /\ ring_topo_conf_max \in Nat \ {0}
    /\ ring_topo_conf_interval \in Nat \ {0}
    /\ ring_link_conf_max \in Nat

\* mrp_update_recovery gives the monitor of an auto manager the same limit.
ring_mon_curr_max == ring_test_conf_max

NoMac == 0                      \* ring_mac as memset leaves it

(***************************************************************************)
(* Ring ports are named by the role they were added with (pport, sport);   *)
(* p_port and s_port are pointers that the handlers swap.                  *)
(***************************************************************************)
RingPort == {1, 2}

PortState == {"DISABLED", "BLOCKED", "FORWARDING"}
OperState == {"UNKNOWN", "DOWN", "UP"}
RingRole == {"MRC", "MRM"}
InRole == {"DISABLED", "MIM", "MIC"}
MrmState == {"AC_STAT1", "PRM_UP", "CHK_RO", "CHK_RC"}
MrcState == {"AC_STAT1", "DE_IDLE", "PT", "DE", "PT_IDLE"}
RingTimer == {"ring_test", "ring_topo", "ring_link_up", "ring_link_down", "clear_fdb"}

(***************************************************************************)
(* Frames, reduced to the fields that a receiver reads.                    *)
(***************************************************************************)
LinkFrame == [type : {"RING_LINK_UP", "RING_LINK_DOWN"}]
TestFrame == [type : {"RING_TEST"}, sa : Mac, prio : Prio]
TopoFrame == [type : {"RING_TOPO"}, sa : Mac, interval : UInt16]
NackFrame == [type : {"OPTION"}, sub : {"TEST_MGR_NACK"}, sa : Mac, prio : Prio,
              other_sa : Mac]
PropFrame == [type : {"OPTION"}, sub : {"TEST_PROPAGATE"}, sa : Mac, prio : Prio,
              other_sa : Mac \cup {NoMac}, other_prio : UInt16]
Frame == LinkFrame \cup TestFrame \cup TopoFrame \cup NackFrame \cup PropFrame

Instance ==
    [macaddr : Mac, prio : Prio, mra_support : BOOLEAN, in_role : InRole,
     react_on_link_change : BOOLEAN, blocked : BOOLEAN,
     ring_role : RingRole, mrm_state : MrmState, mrc_state : MrcState,
     p_port : RingPort, s_port : RingPort,
     state : [RingPort -> PortState], operstate : [RingPort -> OperState],
     add_test : BOOLEAN, no_tc : BOOLEAN,
     ring_test_curr : Nat, ring_test_curr_max : Nat, ring_mon_curr : Nat,
     ring_topo_curr_max : Nat, ring_topo_running : BOOLEAN,
     ring_link_curr_max : Nat,
     ring_prio : UInt16, ring_mac : Mac \cup {NoMac},
     timers : SUBSET RingTimer,
     tx : SUBSET (RingPort \X Frame), flushed : BOOLEAN]

-----------------------------------------------------------------------------
(***************************************************************************)
(* libev timers.  ev_timer_again arms a timer; an armed timer repeats      *)
(* until it is stopped, so expiry does not remove it from the set.         *)
(***************************************************************************)
ev_timer_again(m, t) == [m EXCEPT !.timers = @ \cup {t}]

ev_timer_stop(m, t) == [m EXCEPT !.timers = @ \ {t}]

\* Stops all the timers of the ring.
mrp_timer_stop(m) == [m EXCEPT !.timers = {}, !.ring_topo_running = FALSE]

mrp_ring_topo_start(m) ==
    [ev_timer_again(m, "ring_topo") EXCEPT !.ring_topo_running = TRUE]

\* Mutant: the running flag survives.
mrp_ring_topo_stop_StillRunning(m) == ev_timer_stop(m, "ring_topo")

mrp_ring_topo_stop(m) ==
    [ev_timer_stop(m, "ring_topo") EXCEPT !.ring_topo_running = FALSE]

ifdriver_flush(m) == [m EXCEPT !.flushed = TRUE]

\* A zero interval disarms the timer and flushes at once.
mrp_clear_fdb_start(m, interval) ==
    IF interval = 0 THEN ifdriver_flush(ev_timer_stop(m, "clear_fdb"))
                    ELSE ev_timer_again(m, "clear_fdb")

mrp_clear_fdb_expired(m) == ev_timer_stop(ifdriver_flush(m), "clear_fdb")

-----------------------------------------------------------------------------
(***************************************************************************)
(* Setters.                                                                *)
(***************************************************************************)
mrp_port_set_state(m, p, s) == [m EXCEPT !.state = [@ EXCEPT ![p] = s]]

mrp_set_ring_role(m, role) == [m EXCEPT !.ring_role = role]

mrp_set_mrm_init(m) ==
    [m EXCEPT !.add_test = FALSE, !.no_tc = FALSE, !.ring_test_curr = 0]

mrp_set_mrc_init(m) ==
    [m EXCEPT !.ring_link_curr_max = ring_link_conf_max, !.ring_mon_curr = 0]

\* Mutant: no_tc survives the state it was set for.
mrp_set_mrm_state_KeepsNoTc(m, s) == [m EXCEPT !.mrm_state = s]

mrp_set_mrm_state(m, s) == [m EXCEPT !.mrm_state = s, !.no_tc = FALSE]

mrp_set_mrc_state(m, s) == [m EXCEPT !.mrc_state = s]

mrp_reset_ring_state(m) ==
    [mrp_timer_stop(m) EXCEPT !.mrm_state = "AC_STAT1", !.mrc_state = "AC_STAT1"]

\* The first link that comes up makes its port p the primary one.
Promote(m, p) ==
    IF p = m.p_port THEN m ELSE [m EXCEPT !.s_port = m.p_port, !.p_port = p]

\* The primary port p lost its link: the secondary one takes over.
Demote(m, p) == [m EXCEPT !.p_port = m.s_port, !.s_port = p]

-----------------------------------------------------------------------------
(***************************************************************************)
(* Requests.  mrp_send drops a frame for a port whose link is not up; the  *)
(* state of the port is not looked at, so a blocked port transmits.        *)
(***************************************************************************)
mrp_send(m, ports, f) ==
    [m EXCEPT !.tx = @ \cup {<<p, f>> : p \in {q \in ports : m.operstate[q] = "UP"}}]

BothPorts(m) == {m.p_port, m.s_port}

mrp_ring_test_req(m) ==
    ev_timer_again(
        mrp_send(m, BothPorts(m), [type |-> "RING_TEST", sa |-> m.macaddr, prio |-> m.prio]),
        "ring_test")

\* The frame carries the time in milliseconds, in 16 bits.
mrp_ring_topo_send(m, time) ==
    mrp_send(m, BothPorts(m), [type |-> "RING_TOPO", sa |-> m.macaddr,
                               interval |-> ToUInt16(time \div 1000)])

\* A zero time flushes at once and leaves a running announcement cycle alone.
mrp_ring_topo_req(m, time) ==
    LET sent == mrp_ring_topo_send(m, time * ring_topo_conf_max)
    IN  IF time = 0 THEN ifdriver_flush(sent) ELSE mrp_ring_topo_start(sent)

mrp_ring_link_req(m, up) ==
    mrp_send(m, {m.p_port}, [type |-> IF up THEN "RING_LINK_UP" ELSE "RING_LINK_DOWN"])

mrp_test_mgr_nack_req(m, sa) ==
    mrp_send(m, BothPorts(m), [type |-> "OPTION", sub |-> "TEST_MGR_NACK",
                               sa |-> m.macaddr, prio |-> m.prio, other_sa |-> sa])

mrp_test_prop_req(m) ==
    mrp_send(m, BothPorts(m), [type |-> "OPTION", sub |-> "TEST_PROPAGATE",
                               sa |-> m.macaddr, prio |-> m.prio,
                               other_sa |-> m.ring_mac, other_prio |-> m.ring_prio])

=============================================================================
