---------------------------- MODULE RingHandlers ----------------------------
(***************************************************************************)
(* The entry points of an instance with two ring ports: what addmrp makes  *)
(* of it, what a link change of a port does, and what a received ring      *)
(* frame does.                                                             *)
(***************************************************************************)
EXTENDS AutoManager, FrameFilter

\* The arguments of addmrp that matter to the ring.
ConfigRecord == [ring_role : {"MRM", "MRC", "MRA"}, macaddr : Mac, prio : Prio,
                 react_on_link_change : BOOLEAN, in_role : InRole]

-----------------------------------------------------------------------------
(***************************************************************************)
(* Link changes of a ring port, and the roles given by addmrp.             *)
(***************************************************************************)
mrp_port_link_change(m, p, up) ==
    LET seen == [m EXCEPT !.operstate = [@ EXCEPT ![p] = IF up THEN "UP" ELSE "DOWN"]]
    IN  IF m.ring_role = "MRM" THEN mrp_mrm_port_link(seen, p, up)
                               ELSE mrp_mrc_port_link(seen, p, up)

\* mrp_create and the first part of mrp_add.
mrp_create(c) ==
    [macaddr |-> c.macaddr, prio |-> c.prio, mra_support |-> FALSE, in_role |-> c.in_role,
     react_on_link_change |-> c.react_on_link_change, blocked |-> TRUE,
     ring_role |-> "MRC", mrm_state |-> "AC_STAT1", mrc_state |-> "AC_STAT1",
     p_port |-> 1, s_port |-> 2,
     state |-> [p \in RingPort |-> "DISABLED"], operstate |-> [p \in RingPort |-> "UNKNOWN"],
     add_test |-> FALSE, no_tc |-> FALSE,
     ring_test_curr |-> 0, ring_test_curr_max |-> ring_test_conf_max, ring_mon_curr |-> 0,
     ring_topo_curr_max |-> ring_topo_conf_max - 1, ring_topo_running |-> FALSE,
     ring_link_curr_max |-> 0,
     ring_prio |-> c.prio, ring_mac |-> NoMac,
     timers |-> {}, tx |-> {}, flushed |-> FALSE]

\* Both ports are blocked, the role is set, and the ports with a link are taken up.
StartRole(m, role, up) ==
    LET shut  == [m EXCEPT !.state = [p \in RingPort |-> "BLOCKED"], !.ring_role = role]
        first == IF m.p_port \in up THEN mrp_port_link_change(shut, m.p_port, TRUE) ELSE shut
    IN  IF first.s_port \in up THEN mrp_port_link_change(first, first.s_port, TRUE) ELSE first

mrp_set_mrm_role(m, up) ==
    StartRole(mrp_set_mrm_state(mrp_set_mrm_init(mrp_reset_ring_state(m)), "AC_STAT1"),
              "MRM", up)

mrp_set_mrc_role(m, up) ==
    StartRole(mrp_set_mrc_state(mrp_set_mrc_init(mrp_reset_ring_state(m)), "AC_STAT1"),
              "MRC", up)

mrp_set_mra_role(m, up) ==
    LET reset == mrp_reset_ring_state([m EXCEPT !.mra_support = TRUE])
    IN  StartRole(mrp_set_mrm_state(mrp_set_mrc_init(mrp_set_mrm_init(reset)), "AC_STAT1"),
                  "MRM", up)

mrp_add(c, up) ==
    CASE c.ring_role = "MRM" -> mrp_set_mrm_role(mrp_create(c), up)
      [] c.ring_role = "MRC" -> mrp_set_mrc_role(mrp_create(c), up)
      [] c.ring_role = "MRA" -> mrp_set_mra_role(mrp_create(c), up)

-----------------------------------------------------------------------------
(***************************************************************************)
(* Reception of a ring frame: forward first, then process.                 *)
(***************************************************************************)
mrp_process(m, f) ==
    CASE f.type = "RING_TEST" -> mrp_recv_ring_test(m, f)
      [] f.type = "RING_TOPO" -> mrp_recv_ring_topo(m, f)
      [] f.type \in {"RING_LINK_UP", "RING_LINK_DOWN"} -> mrp_recv_ring_link(m, f.type)
      [] f.type = "OPTION" -> mrp_recv_option(m, f)

mrp_process_frame(m, p, f) ==
    LET sent == mrp_check_and_forward(m, p, f)
    IN  IF mrp_should_process(m, f.type) THEN mrp_process(sent, f) ELSE sent

mrp_recv(m, p, f) ==
    IF mrp_should_drop(m, p, f.type) THEN m ELSE mrp_process_frame(m, p, f)

-----------------------------------------------------------------------------
\* An instance between two callbacks: what the last one emitted is gone.
Idle(m) == [m EXCEPT !.tx = {}, !.flushed = FALSE]

-----------------------------------------------------------------------------
(***************************************************************************)
(* What the states of an instance stand for.                               *)
(***************************************************************************)
\* An instance whose role no frame can change: an MRA may, and so may a manager
\* that is also a MIM, for which mrp_should_process lets MRP_Option frames through.
FixedRole(m) == ~m.mra_support /\ m.in_role # "MIM"

\* The states of the two ring ports that a manager's state and a client's state stand for.
PortsMatchManager(m) ==
    /\ m.state[m.p_port] = IF m.mrm_state = "AC_STAT1" THEN "BLOCKED" ELSE "FORWARDING"
    /\ m.state[m.s_port] = IF m.mrm_state = "CHK_RO" THEN "FORWARDING" ELSE "BLOCKED"

PortsMatchClient(m) ==
    /\ m.state[m.p_port] = IF m.mrc_state = "AC_STAT1" THEN "BLOCKED" ELSE "FORWARDING"
    /\ m.state[m.s_port] = IF m.mrc_state = "PT_IDLE" THEN "FORWARDING" ELSE "BLOCKED"

TimersMatchClient(m) ==
    /\ "ring_link_up" \in m.timers <=> m.mrc_state = "PT"
    /\ "ring_link_down" \in m.timers <=> m.mrc_state = "DE"

Watching(m) == m.ring_role = "MRM" /\ m.mrm_state = "CHK_RC"
Waiting(m) == m.ring_role = "MRC" /\ m.mrc_state = "PT"

=============================================================================
