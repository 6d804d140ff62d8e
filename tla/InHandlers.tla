----------------------------- MODULE InHandlers -----------------------------
(***************************************************************************)
(* The state machines of the interconnection manager (MIM) and client      *)
(* (MIC) in ring check (RC) and link check (LC) mode, one operator per     *)
(* handler, and the path of an MRP_In frame through an instance.           *)
(***************************************************************************)
EXTENDS Interconnect

-----------------------------------------------------------------------------
(***************************************************************************)
(* Interconnection manager.                                                *)
(***************************************************************************)
RestartCount(x) == [x EXCEPT !.in_test_curr_max = in_test_conf_max - 1, !.in_test_curr = 0]

\* Mutant: the port of an open interconnection is not blocked.
mrp_mim_recv_in_test_NoBlock(x) ==
    CASE x.mim_state = "AC_STAT1" ->
            mrp_set_mim_state(mrp_in_test_req(RestartCount(SetInPort(x, "BLOCKED"))), "CHK_IC")
      [] x.mim_state = "CHK_IO" ->
            mrp_set_mim_state(mrp_in_test_req(mrp_in_topo_req(RestartCount(x))), "CHK_IC")
      [] x.mim_state = "CHK_IC" -> RestartCount(x)

\* The interconnection is closed: block, and start counting again.
mrp_mim_recv_in_test(x) ==
    CASE x.mim_state = "AC_STAT1" ->
            mrp_set_mim_state(mrp_in_test_req(RestartCount(SetInPort(x, "BLOCKED"))), "CHK_IC")
      [] x.mim_state = "CHK_IO" ->
            mrp_set_mim_state(
                mrp_in_test_req(mrp_in_topo_req(RestartCount(SetInPort(x, "BLOCKED")))), "CHK_IC")
      [] x.mim_state = "CHK_IC" -> RestartCount(x)

\* The address of the sender is not looked at: the identifier decides.
mrp_recv_in_test(x, f) == IF x.in_id = f.id THEN mrp_mim_recv_in_test(x) ELSE x

mrp_recv_in_link(x, f) ==
    CASE f.id # x.in_id \/ x.mim_state = "AC_STAT1" -> x
      [] f.id = x.in_id /\ x.mim_state = "CHK_IO" ->
            IF f.type = "IN_LINK_UP" THEN mrp_in_test_req(x) ELSE x
      [] f.id = x.in_id /\ x.mim_state = "CHK_IC" ->
            IF f.type = "IN_LINK_UP"
            THEN mrp_in_topo_req([x EXCEPT !.in_test_curr_max = in_test_conf_max])
            ELSE mrp_set_mim_state(mrp_in_topo_req(SetInPort(x, "FORWARDING")), "CHK_IO")

mrp_mim_port_link(x, up) ==
    LET blocked == SetInPort(x, "BLOCKED")
    IN  CASE up /\ x.mim_state = "AC_STAT1" /\ x.in_mode = "RC" ->
                mrp_set_mim_state(mrp_in_test_req(RestartCount(blocked)), "CHK_IC")
          [] up /\ x.mim_state = "AC_STAT1" /\ x.in_mode = "LC" ->
                mrp_set_mim_state(
                    mrp_in_link_status_req(
                        [blocked EXCEPT !.in_link_status_curr_max = in_link_status_conf_max], 1),
                    "CHK_IC")
          [] ~up /\ x.mim_state # "AC_STAT1" /\ x.in_mode = "RC" ->
                mrp_set_mim_state(mrp_in_test_req(mrp_in_topo_req(blocked)), "AC_STAT1")
          [] ~up /\ x.mim_state = "CHK_IO" /\ x.in_mode = "LC" ->
                mrp_set_mim_state(ev_timer_stop(blocked, "in_link_status"), "AC_STAT1")
          [] ~up /\ x.mim_state = "CHK_IC" /\ x.in_mode = "LC" ->
                mrp_set_mim_state(blocked, "AC_STAT1")
          [] OTHER -> x

\* Mutant: one interval too early.
mrp_in_test_expired_Early(x) ==
    CASE x.mim_state = "AC_STAT1" -> x
      [] x.mim_state = "CHK_IO" -> mrp_in_test_req(x)
      [] x.mim_state = "CHK_IC" /\ x.in_test_curr + 1 >= x.in_test_curr_max ->
            mrp_set_mim_state(
                mrp_in_test_req(mrp_in_topo_req(RestartCount(SetInPort(x, "FORWARDING")))),
                "CHK_IO")
      [] x.mim_state = "CHK_IC" /\ x.in_test_curr + 1 < x.in_test_curr_max ->
            mrp_in_test_req([x EXCEPT !.in_test_curr = @ + 1])

\* Mutant: one interval too late.
mrp_in_test_expired_Late(x) ==
    CASE x.mim_state = "AC_STAT1" -> x
      [] x.mim_state = "CHK_IO" -> mrp_in_test_req(x)
      [] x.mim_state = "CHK_IC" /\ x.in_test_curr > x.in_test_curr_max ->
            mrp_set_mim_state(
                mrp_in_test_req(mrp_in_topo_req(RestartCount(SetInPort(x, "FORWARDING")))),
                "CHK_IO")
      [] x.mim_state = "CHK_IC" /\ x.in_test_curr <= x.in_test_curr_max ->
            mrp_in_test_req([x EXCEPT !.in_test_curr = @ + 1])

\* Mutant: an open interconnection is probed no more.
mrp_in_test_expired_Once(x) ==
    CASE x.mim_state = "AC_STAT1" -> x
      [] x.mim_state = "CHK_IO" -> ev_timer_stop(mrp_in_test_send(x), "in_test")
      [] x.mim_state = "CHK_IC" /\ x.in_test_curr >= x.in_test_curr_max ->
            mrp_set_mim_state(
                mrp_in_test_req(mrp_in_topo_req(RestartCount(SetInPort(x, "FORWARDING")))),
                "CHK_IO")
      [] x.mim_state = "CHK_IC" /\ x.in_test_curr < x.in_test_curr_max ->
            mrp_in_test_req([x EXCEPT !.in_test_curr = @ + 1])

mrp_in_test_expired(x) ==
    CASE x.mim_state = "AC_STAT1" -> x
      [] x.mim_state = "CHK_IO" -> mrp_in_test_req(x)
      [] x.mim_state = "CHK_IC" /\ x.in_test_curr >= x.in_test_curr_max ->
            mrp_set_mim_state(
                mrp_in_test_req(mrp_in_topo_req(RestartCount(SetInPort(x, "FORWARDING")))),
                "CHK_IO")
      [] x.mim_state = "CHK_IC" /\ x.in_test_curr < x.in_test_curr_max ->
            mrp_in_test_req([x EXCEPT !.in_test_curr = @ + 1])

mrp_in_topo_expired(x) ==
    IF x.in_topo_curr_max > 0
    THEN [mrp_in_topo_send(x, x.in_topo_curr_max) EXCEPT !.in_topo_curr_max = @ - 1]
    ELSE ev_timer_stop(
             mrp_in_topo_send(
                 ifdriver_flush([x EXCEPT !.in_topo_curr_max = in_topo_conf_max - 1]), 0),
             "in_topo")

mrp_in_link_status_expired(x) ==
    IF x.in_link_status_curr_max > 0
    THEN LET left == x.in_link_status_curr_max - 1
         IN  mrp_in_link_status_req([x EXCEPT !.in_link_status_curr_max = left], left)
    ELSE ev_timer_stop([x EXCEPT !.in_link_status_curr_max = in_link_status_conf_max],
                       "in_link_status")

-----------------------------------------------------------------------------
(***************************************************************************)
(* Interconnection client.                                                 *)
(***************************************************************************)
\* Mutant: the announcement is made once, without a timer.
LinkCameUp_NoTimer(x) ==
    mrp_set_mic_state(
        mrp_in_link_req(
            ev_timer_stop([x EXCEPT !.in_link_curr_max = in_link_conf_max], "in_link_down"),
            TRUE),
        "PT")

\* The link came up: announce it, and do not forward before the manager answered.
LinkCameUp(x) ==
    mrp_set_mic_state(
        mrp_in_link_req(
            ev_timer_again(
                ev_timer_stop([x EXCEPT !.in_link_curr_max = in_link_conf_max], "in_link_down"),
                "in_link_up"),
            TRUE),
        "PT")

\* In RC mode only PT stops the link-up timer: it is the state the timer runs in.
LinkWentDown(x) ==
    LET counted == [x EXCEPT !.in_link_curr_max = in_link_conf_max]
        quiet == IF x.in_mode = "LC" \/ x.mic_state = "PT"
                 THEN ev_timer_stop(counted, "in_link_up") ELSE counted
    IN  mrp_set_mic_state(
            mrp_in_link_req(ev_timer_again(SetInPort(quiet, "BLOCKED"), "in_link_down"), FALSE),
            "AC_STAT1")

mrp_mic_port_link(x, up) ==
    CASE up /\ x.mic_state = "AC_STAT1" -> LinkCameUp(x)
      [] ~up /\ x.mic_state # "AC_STAT1" -> LinkWentDown(x)
      [] OTHER -> x

\* Mutant: the timer is not stopped once the port forwards.
mrp_in_link_up_expired_KeepsTimer(x) ==
    IF x.in_link_curr_max > 0
    THEN mrp_in_link_req(ev_timer_again([x EXCEPT !.in_link_curr_max = @ - 1], "in_link_up"), TRUE)
    ELSE mrp_set_mic_state(
             SetInPort([x EXCEPT !.in_link_curr_max = in_link_conf_max], "FORWARDING"), "IP_IDLE")

\* The state it expires in is not looked at.
mrp_in_link_up_expired(x) ==
    IF x.in_link_curr_max > 0
    THEN mrp_in_link_req(ev_timer_again([x EXCEPT !.in_link_curr_max = @ - 1], "in_link_up"), TRUE)
    ELSE ev_timer_stop(
             mrp_set_mic_state(
                 SetInPort([x EXCEPT !.in_link_curr_max = in_link_conf_max], "FORWARDING"),
                 "IP_IDLE"),
             "in_link_up")

mrp_in_link_down_expired(x) ==
    IF x.in_link_curr_max > 0
    THEN mrp_in_link_req(
             ev_timer_again([x EXCEPT !.in_link_curr_max = @ - 1], "in_link_down"), FALSE)
    ELSE ev_timer_stop([x EXCEPT !.in_link_curr_max = in_link_conf_max], "in_link_down")

\* Answers a poll of the manager.  Unreachable: see mrp_should_process.
mrp_recv_in_link_status(x, f) ==
    IF x.in_role = "MIC" /\ x.in_mode = "LC" /\ f.id = x.in_id
    THEN mrp_in_link_req(x, x.mic_state # "AC_STAT1")
    ELSE x

-----------------------------------------------------------------------------
(***************************************************************************)
(* Both roles.                                                             *)
(***************************************************************************)
\* In PT the identifier is not compared: the change of any interconnection will do.
MicTopo(x, f) ==
    CASE x.mic_state = "AC_STAT1" ->
            IF f.id = x.in_id THEN ev_timer_stop(x, "in_link_down") ELSE x
      [] x.mic_state = "PT" ->
            mrp_set_mic_state(
                SetInPort(ev_timer_stop([x EXCEPT !.in_link_curr_max = in_link_conf_max],
                                        "in_link_up"),
                          "FORWARDING"),
                "IP_IDLE")
      [] x.mic_state = "IP_IDLE" -> x

\* The manager of the ring, which may be any instance, passes the change on to its ring.
mrp_recv_in_topo(x, f) ==
    LET y == IF x.ring_role = "MRM" /\ ~x.ring_topo_running
             THEN mrp_ring_topo_req(x, f.interval) ELSE x
    IN  CASE x.in_role = "MIM" ->
                IF f.sa = x.macaddr THEN y ELSE mrp_clear_fdb_start(y, f.interval)
          [] x.in_role = "MIC" -> MicTopo(y, f)
          [] x.in_role = "DISABLED" -> y

\* A link change of the interconnection port, from netlink (RC) or CFM (LC).
InPortLink(x, up) ==
    LET y == [x EXCEPT !.up = IF up THEN @ \cup {i_port} ELSE @ \ {i_port}]
    IN  CASE x.in_role = "MIM" -> mrp_mim_port_link(y, up)
          [] x.in_role = "MIC" -> mrp_mic_port_link(y, up)
          [] x.in_role = "DISABLED" -> y

mrp_port_link_change(x, up) == IF x.in_mode = "LC" THEN x ELSE InPortLink(x, up)

mrp_cfm_link_change(x, defect) == InPortLink(x, ~defect)

\* The netlink listener stores the new operational state before it calls mrp_port_link_change.
netlink_operstate(x, up) ==
    mrp_port_link_change([x EXCEPT !.up = IF up THEN @ \cup {i_port} ELSE @ \ {i_port}], up)

=============================================================================
