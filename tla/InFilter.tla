------------------------------ MODULE InFilter ------------------------------
(***************************************************************************)
(* What an instance does with an MRP_In frame f that arrives at port p:    *)
(* drop it, forward it, hand it to the state machines.  And how a role in  *)
(* an interconnection is taken up and given back.                          *)
(***************************************************************************)
EXTENDS InHandlers

mrp_is_in_port(p) == p = i_port
mrp_is_ring_port(p) == p \in RingPort

\* Mutant: a blocked interconnection port swallows the test frames as well.
mrp_should_drop_Test(x, p, type) ==
    \/ x.state[p] = "DISABLED"
    \/ /\ mrp_is_ring_port(p) /\ x.state[p] = "BLOCKED"
       /\ type \in {"IN_TEST", "IN_LINK_STATUS"}
    \/ /\ mrp_is_in_port(p) /\ x.state[p] = "BLOCKED"
       /\ type \in {"IN_TEST", "IN_LINK_STATUS"}

mrp_should_drop(x, p, type) ==
    \/ x.state[p] = "DISABLED"
    \/ /\ mrp_is_ring_port(p) /\ x.state[p] = "BLOCKED"
       /\ type \in {"IN_TEST", "IN_LINK_STATUS"}
    \/ /\ mrp_is_in_port(p) /\ x.state[p] = "BLOCKED"
       /\ type = "IN_LINK_STATUS"

\* MRP_IntLinkStatusPoll frames are not listed, in any role.
mrp_should_process(x, type) ==
    CASE type \in {"IN_TEST", "IN_LINK_UP", "IN_LINK_DOWN"} -> x.in_role = "MIM"
      [] type = "IN_TOPO" -> x.in_role \in {"MIM", "MIC"} \/ x.ring_role = "MRM"
      [] type = "IN_LINK_STATUS" -> FALSE

\* mrp_check_and_forward reads every MRP_In frame as an MRP_InTest frame.  Only that one
\* starts with the identifier; the others start with the address of the sender.
ParsedId(f) == IF f.type = "IN_TEST" THEN f.id ELSE Oui[f.sa]

\* The ports that the ring role leaves to a frame from port p.
RingRolePorts(x, p, f) ==
    LET stays == \/ /\ x.ring_role = "MRM"
                    /\ \E q \in RingPort : x.state[q] # "FORWARDING"
                 \/ /\ x.ring_role = "MRC" /\ x.in_role # "DISABLED"
                    /\ x.in_id = ParsedId(f)
    IN  (Port \ {p}) \ IF stays /\ mrp_is_ring_port(p) THEN RingPort ELSE {}

\* ... and what the interconnection role makes of them.
ForwardPorts(x, p, f) ==
    LET ports == RingRolePorts(x, p, f)
    IN  CASE x.in_role = "DISABLED" -> ports
          [] x.in_role = "MIM" ->
                IF mrp_is_in_port(p) \/ (f.type = "IN_TEST" /\ f.sa = x.macaddr)
                THEN {} ELSE ports \ {i_port}
          [] x.in_role = "MIC" ->
                CASE f.type = "IN_TEST" -> ports
                  [] f.type \in {"IN_LINK_UP", "IN_LINK_DOWN"} /\ mrp_is_ring_port(p) -> ports
                  [] f.type = "IN_LINK_STATUS" /\ mrp_is_ring_port(p) -> ports \cap {i_port}
                  [] f.type = "IN_TOPO" -> ports \ {i_port}
                  [] OTHER -> {}

mrp_check_and_forward(x, p, f) == mrp_send(x, ForwardPorts(x, p, f), f)

mrp_process(x, f) ==
    CASE f.type = "IN_TEST" -> mrp_recv_in_test(x, f)
      [] f.type = "IN_TOPO" -> mrp_recv_in_topo(x, f)
      [] f.type \in {"IN_LINK_UP", "IN_LINK_DOWN"} -> mrp_recv_in_link(x, f)
      [] f.type = "IN_LINK_STATUS" -> mrp_recv_in_link_status(x, f)

mrp_process_frame(x, p, f) ==
    LET y == mrp_check_and_forward(x, p, f)
    IN  IF mrp_should_process(x, f.type) THEN mrp_process(y, f) ELSE y

mrp_recv(x, p, f) == IF mrp_should_drop(x, p, f.type) THEN x ELSE mrp_process_frame(x, p, f)

-----------------------------------------------------------------------------
\* What addmrp says about the interconnection, and the state of the ring half: its role
\* and its blocked ports.
InConfig ==
    [macaddr : Mac, in_id : InId, in_role : {"DISABLED", "MIM", "MIC"}, in_mode : {"RC", "LC"},
     ring_role : {"MRC", "MRM"}, blocked : SUBSET RingPort]

Idle(x) == [x EXCEPT !.tx = {}, !.flushed = FALSE]

\* The instance before mrp_set_mim_role or mrp_set_mic_role: the counters are those of
\* mrp_update_recovery, and mrp_start_cfm has started to send CCM frames in LC mode.
Created(c, up) ==
    [macaddr |-> c.macaddr, in_id |-> c.in_id, in_role |-> "DISABLED", in_mode |-> c.in_mode,
     ring_role |-> c.ring_role, ring_topo_running |-> FALSE,
     state |-> [p \in Port |-> IF p = i_port THEN "DISABLED"
                               ELSE IF p \in c.blocked THEN "BLOCKED" ELSE "FORWARDING"],
     up |-> up \ {i_port}, mim_state |-> "AC_STAT1", mic_state |-> "AC_STAT1",
     in_test_curr |-> 0, in_test_curr_max |-> in_test_conf_max,
     in_topo_curr_max |-> in_topo_conf_max - 1,
     in_link_curr_max |-> 0, in_link_status_curr_max |-> 0,
     timers |-> IF c.in_mode = "LC" THEN {"cfm_ccm"} ELSE {}, tx |-> {}, flushed |-> FALSE]

\* mrp_set_mim_role and mrp_set_mic_role: a port whose link is up is a link that came up.
TakeRole(x, role, up) ==
    LET y == SetInPort(mrp_set_in_role(x, role), "BLOCKED")
    IN  IF up THEN InPortLink(y, TRUE) ELSE y

mrp_add(c, up) ==
    IF c.in_role = "DISABLED" THEN Created(c, up)
    ELSE TakeRole(Created(c, up), c.in_role, i_port \in up)

\* Mutant: the timers of a destroyed instance keep running.
mrp_destroy_KeepsTimers(x) == x

mrp_destroy(x) == mrp_timer_stop(x)

mrp_cfm_ccm_expired(x) == ev_timer_again(x, "cfm_ccm")

=============================================================================
