---------------------------- MODULE Interconnect ----------------------------
(***************************************************************************)
(* The interconnection half of an MRP instance: the fields of struct mrp   *)
(* that its MIM and MIC state machines read and write, its timers, the     *)
(* MRP_In frames, and the requests that send them.  The conventions are    *)
(* those of MrpInstance: a C function on struct mrp is an operator from    *)
(* record to record, tx and flushed collect the outputs.                   *)
(*                                                                         *)
(* Of the ring half only what the interconnection half looks at is kept:   *)
(* the ring role, the states of the ring ports and whether the manager of  *)
(* the ring announces a topology change.                                   *)
(***************************************************************************)
EXTENDS Integers

CONSTANTS
    Mac,                        \* bridge MAC addresses
    InId,                       \* interconnection identifiers in use
    Oui,                        \* the first two bytes of an address, as a number
    in_test_conf_max,           \* unanswered test intervals before the interconnection is open
    in_topo_conf_max,           \* topology change announcements of one cycle
    in_link_conf_max,           \* repeated link change announcements of a MIC
    in_link_status_conf_max     \* repeated link status polls of a MIM

ASSUME InConfAssumption ==
    /\ InId \subseteq Nat /\ Oui \in [Mac -> Nat]
    /\ in_test_conf_max \in Nat \ {0}
    /\ in_topo_conf_max \in Nat \ {0}
    /\ in_link_conf_max \in Nat
    /\ in_link_status_conf_max \in Nat \ {0}

\* Port 3 is i_port; which of the ring ports is p_port makes no difference here.
RingPort == {1, 2}
i_port == 3
Port == RingPort \cup {i_port}

PortState == {"DISABLED", "BLOCKED", "FORWARDING"}
MimState == {"AC_STAT1", "CHK_IO", "CHK_IC"}
MicState == {"AC_STAT1", "PT", "IP_IDLE"}
RcTimer == {"in_topo", "in_link_up", "in_link_down", "in_test"}
LcTimer == {"in_link_status", "cfm_ccm"}

(***************************************************************************)
(* Frames.  An interval counts announcement intervals: all a receiver      *)
(* asks is whether it is zero.  RING_TOPO is the only ring frame that the  *)
(* interconnection half sends.                                             *)
(***************************************************************************)
InTestFrame == [type : {"IN_TEST"}, sa : Mac, id : InId]
InTopoFrame == [type : {"IN_TOPO"}, sa : Mac, id : InId, interval : 0 .. in_topo_conf_max]
InLinkFrame == [type : {"IN_LINK_UP", "IN_LINK_DOWN"}, sa : Mac, id : InId]
InStatusFrame == [type : {"IN_LINK_STATUS"}, sa : Mac, id : InId]
InFrame == InTestFrame \cup InTopoFrame \cup InLinkFrame \cup InStatusFrame
RingTopoFrame == [type : {"RING_TOPO"}, sa : Mac, interval : 0 .. in_topo_conf_max]

InInstance ==
    [macaddr : Mac, in_id : InId, in_role : {"DISABLED", "MIM", "MIC"}, in_mode : {"RC", "LC"},
     ring_role : {"MRC", "MRM"}, ring_topo_running : BOOLEAN,
     state : [Port -> PortState], up : SUBSET Port,
     mim_state : MimState, mic_state : MicState,
     in_test_curr : Nat, in_test_curr_max : Nat, in_topo_curr_max : Nat,
     in_link_curr_max : Nat, in_link_status_curr_max : Nat,
     timers : SUBSET (RcTimer \cup LcTimer \cup {"clear_fdb"}),
     tx : SUBSET (Port \X (InFrame \cup RingTopoFrame)), flushed : BOOLEAN]

-----------------------------------------------------------------------------
(***************************************************************************)
(* Timers and setters.                                                     *)
(***************************************************************************)
ev_timer_again(x, t) == [x EXCEPT !.timers = @ \cup {t}]
ev_timer_stop(x, t) == [x EXCEPT !.timers = @ \ {t}]

\* "Stops all the timers": those of the interconnection by role and by mode.
mrp_timer_stop(x) ==
    LET inter == IF x.in_role = "DISABLED" THEN {}
                 ELSE {"in_topo", "in_link_up", "in_link_down"}
                        \cup IF x.in_mode = "RC" THEN {"in_test"} ELSE LcTimer
    IN  [x EXCEPT !.timers = @ \ (inter \cup {"clear_fdb"}), !.ring_topo_running = FALSE]

ifdriver_flush(x) == [x EXCEPT !.flushed = TRUE]

mrp_clear_fdb_start(x, interval) ==
    IF interval = 0 THEN ifdriver_flush(ev_timer_stop(x, "clear_fdb"))
                    ELSE ev_timer_again(x, "clear_fdb")

mrp_clear_fdb_expired(x) == ev_timer_stop(ifdriver_flush(x), "clear_fdb")

\* Only the interconnection port is moved by this half.
SetInPort(x, s) == [x EXCEPT !.state = [@ EXCEPT ![i_port] = s]]

mrp_set_in_role(x, role) == [x EXCEPT !.in_role = role]
mrp_set_mim_state(x, s) == [x EXCEPT !.mim_state = s]
mrp_set_mic_state(x, s) == [x EXCEPT !.mic_state = s]

-----------------------------------------------------------------------------
(***************************************************************************)
(* Requests.                                                               *)
(***************************************************************************)
mrp_send(x, ports, f) == [x EXCEPT !.tx = @ \cup {<<p, f>> : p \in ports \cap x.up}]

mrp_in_test_send(x) ==
    mrp_send(x, Port, [type |-> "IN_TEST", sa |-> x.macaddr, id |-> x.in_id])

mrp_in_test_req(x) == ev_timer_again(mrp_in_test_send(x), "in_test")

mrp_in_topo_send(x, interval) ==
    mrp_send(x, Port,
             [type |-> "IN_TOPO", sa |-> x.macaddr, id |-> x.in_id, interval |-> interval])

\* Mutant: the announcement is sent once and never repeated.
mrp_in_topo_req_Once(x) == mrp_in_topo_send(x, in_topo_conf_max)

\* Every caller passes in_topo_conf_interval, which is not zero.
mrp_in_topo_req(x) == ev_timer_again(mrp_in_topo_send(x, in_topo_conf_max), "in_topo")

mrp_in_link_req(x, up) ==
    mrp_send(x, Port, [type |-> IF up THEN "IN_LINK_UP" ELSE "IN_LINK_DOWN",
                       sa |-> x.macaddr, id |-> x.in_id])

mrp_in_link_status_req(x, interval) ==
    LET sent == mrp_send(x, RingPort, [type |-> "IN_LINK_STATUS", sa |-> x.macaddr,
                                       id |-> x.in_id])
    IN  IF interval = 0 THEN sent ELSE ev_timer_again(sent, "in_link_status")

mrp_ring_topo_req(x, interval) ==
    LET sent == mrp_send(x, RingPort, [type |-> "RING_TOPO", sa |-> x.macaddr,
                                       interval |-> interval])
    IN  IF interval = 0 THEN ifdriver_flush(sent)
                        ELSE [sent EXCEPT !.ring_topo_running = TRUE]

=============================================================================
