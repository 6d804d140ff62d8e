----------------------------- MODULE RingClient -----------------------------
(***************************************************************************)
(* The media redundancy client (MRC): what an instance does when the       *)
(* manager announces a topology change, when the link of one of its ports  *)
(* changes, and when its link change timers expire.                        *)
(***************************************************************************)
EXTENDS MrpInstance

\* Mutant: the countdown goes on where it was.
RestartLink_GoesOn(m) == m

\* The countdown of link change announcements starts again.
RestartLink(m) == [m EXCEPT !.ring_link_curr_max = ring_link_conf_max]

\* Mutant: the link timers outlive the states they belong to.
mrp_mrc_recv_ring_topo_TimerRuns(m, interval) ==
    LET open == IF m.mrc_state = "PT"
                THEN mrp_port_set_state(RestartLink(m), m.s_port, "FORWARDING")
                ELSE RestartLink(m)
    IN  CASE m.mrc_state \in {"DE_IDLE", "PT_IDLE"} -> mrp_clear_fdb_start(m, interval)
          [] m.mrc_state \in {"PT", "DE"} ->
               mrp_set_mrc_state(mrp_clear_fdb_start(open, interval),
                                 IF m.mrc_state = "PT" THEN "PT_IDLE" ELSE "DE_IDLE")
          [] OTHER -> m

mrp_mrc_recv_ring_topo(m, interval) ==
    CASE m.mrc_state \in {"DE_IDLE", "PT_IDLE"} -> mrp_clear_fdb_start(m, interval)
      [] m.mrc_state = "PT" ->
           LET open == mrp_port_set_state(
                           ev_timer_stop(RestartLink(m), "ring_link_up"),
                           m.s_port, "FORWARDING")
           IN  mrp_set_mrc_state(mrp_clear_fdb_start(open, interval), "PT_IDLE")
      [] m.mrc_state = "DE" ->
           mrp_set_mrc_state(
               mrp_clear_fdb_start(ev_timer_stop(RestartLink(m), "ring_link_down"), interval),
               "DE_IDLE")
      [] OTHER -> m

-----------------------------------------------------------------------------
(***************************************************************************)
(* The link of ring port p went up or down.                                *)
(***************************************************************************)
\* Mutant: the link-up timer is not started.
AnnounceUp_NoTimer(m) == mrp_set_mrc_state(mrp_ring_link_req(RestartLink(m), TRUE), "PT")

\* The second link came up: announce it, keep the port blocked meanwhile.
AnnounceUp(m) ==
    mrp_set_mrc_state(
        mrp_ring_link_req(ev_timer_again(RestartLink(m), "ring_link_up"), TRUE), "PT")

\* Mutant: the port that lost its link stays open.
AnnounceDown_StaysOpen(m) ==
    mrp_set_mrc_state(
        mrp_ring_link_req(ev_timer_again(RestartLink(m), "ring_link_down"), FALSE), "DE")

\* One of two links was lost: announce it through the other one.
AnnounceDown(m) ==
    mrp_set_mrc_state(
        mrp_ring_link_req(
            ev_timer_again(
                mrp_port_set_state(RestartLink(m), m.s_port, "BLOCKED"), "ring_link_down"),
            FALSE), "DE")

mrp_mrc_port_link(m, p, up) ==
    CASE m.mrc_state = "AC_STAT1" /\ up ->
           mrp_set_mrc_state(
               mrp_port_set_state(Promote(m, p), p, "FORWARDING"), "DE_IDLE")
      [] m.mrc_state = "DE_IDLE" /\ up /\ p # m.p_port -> AnnounceUp(m)
      [] m.mrc_state = "DE_IDLE" /\ ~up /\ p = m.p_port ->
           mrp_set_mrc_state(mrp_port_set_state(m, p, "BLOCKED"), "AC_STAT1")
      [] m.mrc_state = "PT" /\ ~up /\ p # m.p_port ->
           AnnounceDown(ev_timer_stop(m, "ring_link_up"))
      [] m.mrc_state = "PT" /\ ~up /\ p = m.p_port ->
           AnnounceDown(
               mrp_port_set_state(Demote(ev_timer_stop(m, "ring_link_up"), p),
                                  m.s_port, "FORWARDING"))
      [] m.mrc_state = "DE" /\ up /\ p # m.p_port ->
           AnnounceUp(ev_timer_stop(m, "ring_link_down"))
      [] m.mrc_state = "DE" /\ ~up /\ p = m.p_port ->
           mrp_set_mrc_state(
               ev_timer_stop(mrp_port_set_state(RestartLink(m), p, "BLOCKED"),
                             "ring_link_down"), "AC_STAT1")
      [] m.mrc_state = "PT_IDLE" /\ ~up /\ p # m.p_port -> AnnounceDown(m)
      [] m.mrc_state = "PT_IDLE" /\ ~up /\ p = m.p_port -> AnnounceDown(Demote(m, p))
      [] OTHER -> m

-----------------------------------------------------------------------------
(***************************************************************************)
(* Timers.  Neither handler looks at ring_role or mrc_state.               *)
(***************************************************************************)
\* Mutant: one announcement too many.
mrp_ring_link_up_expired_OneMore(m) ==
    IF m.ring_link_curr_max >= 0
    THEN mrp_ring_link_req(
             ev_timer_again([m EXCEPT !.ring_link_curr_max = @ - 1], "ring_link_up"), TRUE)
    ELSE ev_timer_stop(
             mrp_set_mrc_state(
                 mrp_port_set_state(RestartLink(m), m.s_port, "FORWARDING"), "PT_IDLE"),
             "ring_link_up")

mrp_ring_link_up_expired(m) ==
    IF m.ring_link_curr_max > 0
    THEN mrp_ring_link_req(
             ev_timer_again([m EXCEPT !.ring_link_curr_max = @ - 1], "ring_link_up"), TRUE)
    ELSE ev_timer_stop(
             mrp_set_mrc_state(
                 mrp_port_set_state(RestartLink(m), m.s_port, "FORWARDING"), "PT_IDLE"),
             "ring_link_up")

mrp_ring_link_down_expired(m) ==
    IF m.ring_link_curr_max > 0
    THEN mrp_ring_link_req(
             ev_timer_again([m EXCEPT !.ring_link_curr_max = @ - 1], "ring_link_down"), FALSE)
    ELSE ev_timer_stop(mrp_set_mrc_state(RestartLink(m), "DE_IDLE"), "ring_link_down")

=============================================================================
