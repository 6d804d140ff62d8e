---------------------------- MODULE RingManager ----------------------------
(***************************************************************************)
(* The media redundancy manager (MRM): what an instance does when its own  *)
(* MRP_Test frame comes back, when a client announces a link change, when  *)
(* the link of one of its ports changes, and when its test and topology    *)
(* timers expire.  Each handler is a table of guarded transitions; a case  *)
(* that the C switch leaves out changes nothing.                           *)
(***************************************************************************)
EXTENDS MrpInstance

\* Mutant: the limit is set, the count is not.
RestartCount_LimitOnly(m) == [m EXCEPT !.ring_test_curr_max = ring_test_conf_max - 1]

\* The count of unanswered test intervals starts again.
RestartCount(m) ==
    [m EXCEPT !.ring_test_curr_max = ring_test_conf_max - 1, !.ring_test_curr = 0]

\* Mutant: a ring found closed is not blocked.
mrp_mrm_recv_ring_test_Unblocked(m) ==
    CASE m.mrm_state \in {"PRM_UP", "CHK_RO"} ->
           mrp_set_mrm_state(mrp_ring_test_req(RestartCount(m)), "CHK_RC")
      [] m.mrm_state = "CHK_RC" -> [RestartCount(m) EXCEPT !.no_tc = FALSE]
      [] OTHER -> m

\* A frame of its own came round: the ring is closed.
mrp_mrm_recv_ring_test(m) ==
    CASE m.mrm_state = "PRM_UP" ->
           mrp_set_mrm_state(mrp_ring_test_req(RestartCount(m)), "CHK_RC")
      [] m.mrm_state = "CHK_RO" ->
           LET blocked == mrp_port_set_state(m, m.s_port, "BLOCKED")
               probed  == mrp_ring_test_req(RestartCount(blocked))
               time    == IF m.react_on_link_change THEN 0 ELSE ring_topo_conf_interval
           IN  mrp_set_mrm_state(mrp_ring_topo_req(probed, time), "CHK_RC")
      [] m.mrm_state = "CHK_RC" -> [RestartCount(m) EXCEPT !.no_tc = FALSE]
      [] OTHER -> m

-----------------------------------------------------------------------------
(***************************************************************************)
(* A client announced a link change.  A manager probes the ring once per   *)
(* test interval on behalf of such announcements (add_test).               *)
(***************************************************************************)
ProbeOnce(m) ==
    IF m.add_test THEN m ELSE mrp_ring_test_req([m EXCEPT !.add_test = TRUE])

mrp_recv_ring_link_PRM_UP(m, type) ==
    CASE m.blocked -> ProbeOnce(m)
      [] ~m.blocked /\ type = "RING_LINK_UP" -> mrp_ring_topo_req(ProbeOnce(m), 0)
      [] OTHER -> m

mrp_recv_ring_link_CHK_RO(m, type) ==
    IF m.blocked \/ type = "RING_LINK_DOWN"
    THEN ProbeOnce(m)
    ELSE LET closed == RestartCount(mrp_port_set_state(m, m.s_port, "BLOCKED"))
             probed == [mrp_ring_test_req(closed) EXCEPT !.add_test = TRUE]
         IN  mrp_set_mrm_state(mrp_ring_topo_req(probed, 0), "CHK_RC")

mrp_recv_ring_link_CHK_RC(m, type) ==
    CASE ~m.react_on_link_change -> IF m.blocked THEN ProbeOnce(m) ELSE m
      [] m.react_on_link_change /\ type = "RING_LINK_DOWN" ->
           mrp_set_mrm_state(
               mrp_ring_topo_req(mrp_port_set_state(m, m.s_port, "FORWARDING"), 0),
               "CHK_RO")
      [] m.react_on_link_change /\ type = "RING_LINK_UP" ->
           mrp_ring_topo_req([m EXCEPT !.ring_test_curr_max = ring_test_conf_max - 1], 0)

mrp_recv_ring_link(m, type) ==
    CASE m.mrm_state = "PRM_UP" -> mrp_recv_ring_link_PRM_UP(m, type)
      [] m.mrm_state = "CHK_RO" -> mrp_recv_ring_link_CHK_RO(m, type)
      [] m.mrm_state = "CHK_RC" -> mrp_recv_ring_link_CHK_RC(m, type)
      [] OTHER -> m

-----------------------------------------------------------------------------
(***************************************************************************)
(* The link of ring port p went up or down.                                *)
(***************************************************************************)
mrp_mrm_port_link(m, p, up) ==
    CASE m.mrm_state = "AC_STAT1" /\ up ->
           mrp_set_mrm_state(
               mrp_ring_test_req(mrp_port_set_state(Promote(m, p), p, "FORWARDING")),
               "PRM_UP")
      [] m.mrm_state = "PRM_UP" /\ ~up /\ p = m.p_port ->
           mrp_set_mrm_state(
               mrp_port_set_state(ev_timer_stop(m, "ring_test"), p, "BLOCKED"),
               "AC_STAT1")
      [] m.mrm_state = "PRM_UP" /\ up /\ p # m.p_port ->
           mrp_set_mrm_state(
               mrp_ring_test_req([RestartCount(m) EXCEPT !.no_tc = TRUE]), "CHK_RC")
      [] m.mrm_state = "CHK_RO" /\ ~up /\ p = m.p_port ->
           LET moved == mrp_port_set_state(Demote(m, p), p, "BLOCKED")
           IN  mrp_set_mrm_state(
                   mrp_ring_topo_req(mrp_ring_test_req(moved), ring_topo_conf_interval),
                   "PRM_UP")
      [] m.mrm_state = "CHK_RO" /\ ~up /\ p # m.p_port ->
           mrp_set_mrm_state(mrp_port_set_state(m, m.s_port, "BLOCKED"), "PRM_UP")
      [] m.mrm_state = "CHK_RC" /\ ~up /\ p = m.p_port ->
           LET moved == mrp_port_set_state(
                            mrp_port_set_state(Demote(m, p), p, "BLOCKED"),
                            m.s_port, "FORWARDING")
           IN  mrp_set_mrm_state(
                   mrp_ring_topo_req(mrp_ring_test_req(moved), ring_topo_conf_interval),
                   "PRM_UP")
      [] m.mrm_state = "CHK_RC" /\ ~up /\ p # m.p_port -> mrp_set_mrm_state(m, "PRM_UP")
      [] OTHER -> m

-----------------------------------------------------------------------------
(***************************************************************************)
(* Timers.                                                                 *)
(***************************************************************************)
\* The last permitted test interval passed in silence: the ring is open.
OpenRing(m) ==
    LET opened == [RestartCount(mrp_port_set_state(m, m.s_port, "FORWARDING")) EXCEPT
                      !.add_test = FALSE]
        told   == IF m.no_tc THEN opened
                             ELSE mrp_ring_topo_req(opened, ring_topo_conf_interval)
    IN  mrp_set_mrm_state(mrp_ring_test_req(told), "CHK_RO")

\* Mutant: the silent intervals are not counted.
mrp_mrm_ring_test_expired_NoCount(m) ==
    CASE m.mrm_state \in {"PRM_UP", "CHK_RO"} ->
           mrp_ring_test_req([m EXCEPT !.add_test = FALSE])
      [] m.mrm_state = "CHK_RC" /\ m.ring_test_curr >= m.ring_test_curr_max -> OpenRing(m)
      [] m.mrm_state = "CHK_RC" /\ m.ring_test_curr < m.ring_test_curr_max ->
           mrp_ring_test_req([m EXCEPT !.add_test = FALSE])
      [] OTHER -> m

mrp_mrm_ring_test_expired(m) ==
    CASE m.mrm_state \in {"PRM_UP", "CHK_RO"} ->
           mrp_ring_test_req([m EXCEPT !.add_test = FALSE])
      [] m.mrm_state = "CHK_RC" /\ m.ring_test_curr >= m.ring_test_curr_max -> OpenRing(m)
      [] m.mrm_state = "CHK_RC" /\ m.ring_test_curr < m.ring_test_curr_max ->
           mrp_ring_test_req([m EXCEPT !.ring_test_curr = @ + 1, !.add_test = FALSE])
      [] OTHER -> m

\* Mutant: the end of the cycle stops the wrong timer.
mrp_ring_topo_expired_StopsTest(m) ==
    IF m.ring_topo_curr_max > 0
    THEN [mrp_ring_topo_send(m, m.ring_topo_curr_max * ring_topo_conf_interval)
             EXCEPT !.ring_topo_curr_max = @ - 1]
    ELSE ev_timer_stop(
             mrp_ring_topo_send(
                 ifdriver_flush([m EXCEPT !.ring_topo_curr_max = ring_topo_conf_max - 1]), 0),
             "ring_test")

\* Mutant: the announcement is counted before it is sent.
mrp_ring_topo_expired_CountsFirst(m) ==
    IF m.ring_topo_curr_max > 0
    THEN mrp_ring_topo_send([m EXCEPT !.ring_topo_curr_max = @ - 1],
                            (m.ring_topo_curr_max - 1) * ring_topo_conf_interval)
    ELSE mrp_ring_topo_stop(
             mrp_ring_topo_send(
                 ifdriver_flush([m EXCEPT !.ring_topo_curr_max = ring_topo_conf_max - 1]), 0))

mrp_ring_topo_expired(m) ==
    IF m.ring_topo_curr_max > 0
    THEN [mrp_ring_topo_send(m, m.ring_topo_curr_max * ring_topo_conf_interval)
             EXCEPT !.ring_topo_curr_max = @ - 1]
    ELSE mrp_ring_topo_stop(
             mrp_ring_topo_send(
                 ifdriver_flush([m EXCEPT !.ring_topo_curr_max = ring_topo_conf_max - 1]), 0))

=============================================================================
