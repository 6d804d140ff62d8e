---------------------------- MODULE AutoManager ----------------------------
(***************************************************************************)
(* The automanager (MRA): an instance that starts as a manager and moves   *)
(* between the roles MRM and MRC.  It hears the MRP_Test frames of other   *)
(* managers, refuses worse ones (MRP_TestMgrNAck), steps down when it is   *)
(* refused, and takes over when it hears nobody for too long.              *)
(***************************************************************************)
EXTENDS RingManager, RingClient

\* Mutant: of two managers with equal priorities each is the better one.
mrp_better_than_own_NoTie(m, f) == f.prio <= m.prio

mrp_better_than_own(m, f) ==
    \/ f.prio < m.prio
    \/ f.prio = m.prio /\ f.sa < m.macaddr

mrp_better_than_host(m, f) ==
    \/ f.prio < m.ring_prio
    \/ f.prio = m.ring_prio /\ f.sa < m.ring_mac

\* What a big-endian field reads as when it is not converted (little-endian host).
SwapBytes(x) == (x % 256) * 256 + x \div 256

\* Mutant: the two answers to the comparison are swapped.
mrp_mra_recv_ring_test_Swapped(m, f) ==
    CASE m.ring_role = "MRM" ->
           IF mrp_better_than_own(m, f) THEN mrp_test_mgr_nack_req(m, f.sa) ELSE m
      [] m.ring_role = "MRC" /\ f.sa = m.ring_mac -> m
      [] m.ring_role = "MRC" /\ f.sa # m.ring_mac ->
           [m EXCEPT !.ring_mon_curr = IF mrp_better_than_own(m, f) THEN 0 ELSE @,
                     !.ring_prio = SwapBytes(f.prio)]

\* The frame's priority is stored as it lies in the frame, not converted.
mrp_mra_recv_ring_test(m, f) ==
    CASE m.ring_role = "MRM" ->
           IF mrp_better_than_own(m, f) THEN m ELSE mrp_test_mgr_nack_req(m, f.sa)
      [] m.ring_role = "MRC" /\ f.sa = m.ring_mac -> m
      [] m.ring_role = "MRC" /\ f.sa # m.ring_mac ->
           [m EXCEPT !.ring_mon_curr = IF mrp_better_than_own(m, f) THEN 0 ELSE @,
                     !.ring_prio = SwapBytes(f.prio)]

\* A frame of its own is handed to the manager's handler whatever ring_role is.
mrp_recv_ring_test(m, f) ==
    CASE f.sa = m.macaddr -> mrp_mrm_recv_ring_test(m)
      [] f.sa # m.macaddr /\ m.mra_support -> mrp_mra_recv_ring_test(m, f)
      [] OTHER -> m

mrp_mra_recv_ring_topo(m, f) ==
    IF f.sa = m.macaddr THEN m ELSE mrp_clear_fdb_start(m, f.interval * 1000)

mrp_recv_ring_topo(m, f) ==
    IF m.mra_support /\ m.ring_role = "MRM"
    THEN mrp_mra_recv_ring_topo(m, f)
    ELSE mrp_mrc_recv_ring_topo(m, f.interval * 1000)

-----------------------------------------------------------------------------
\* Refused by a better manager: step down.  mrm_state and ring_test stay as they are.
mrp_recv_nack(m, f) ==
    LET host   == IF mrp_better_than_host(m, f)
                  THEN [m EXCEPT !.ring_prio = f.prio, !.ring_mac = f.sa] ELSE m
        open   == IF m.mrm_state = "CHK_RC"
                  THEN mrp_port_set_state(host, m.s_port, "FORWARDING") ELSE host
        told   == mrp_test_prop_req(mrp_set_mrc_init(mrp_ring_topo_stop(open)))
        client == IF m.mrm_state = "PRM_UP" THEN "DE_IDLE" ELSE "PT_IDLE"
    IN  CASE m.ring_role = "MRC" \/ f.sa = m.macaddr \/ f.other_sa # m.macaddr -> m
          [] m.ring_role = "MRM" /\ f.sa # m.macaddr /\ f.other_sa = m.macaddr ->
               IF m.mrm_state = "AC_STAT1" THEN told
               ELSE mrp_set_ring_role(mrp_set_mrc_state(told, client), "MRC")

mrp_recv_propagate(m, f) ==
    IF m.ring_role = "MRM" \/ f.sa # m.macaddr \/ f.other_prio # f.prio
    THEN m
    ELSE [m EXCEPT !.ring_prio = f.other_prio, !.ring_mac = f.other_sa, !.ring_mon_curr = 0]

mrp_recv_option(m, f) ==
    IF f.sub = "TEST_MGR_NACK" THEN mrp_recv_nack(m, f) ELSE mrp_recv_propagate(m, f)

-----------------------------------------------------------------------------
\* The manager state that a client takes over with.
TakeOverState(mrc_state) ==
    CASE mrc_state \in {"DE_IDLE", "DE"} -> "PRM_UP"
      [] mrc_state = "PT" -> "CHK_RC"
      [] mrc_state = "PT_IDLE" -> "CHK_RO"

\* A monitoring client heard no manager: take over.  Only ring_test is restarted.
mrp_mrc_ring_test_expired(m) ==
    LET again == ev_timer_again(m, "ring_test")
        taken == mrp_set_mrm_init(again)
    IN  CASE m.ring_mon_curr <= ring_mon_curr_max ->
               [again EXCEPT !.ring_mon_curr = @ + 1]
          [] m.ring_mon_curr > ring_mon_curr_max /\ m.mrc_state = "AC_STAT1" -> taken
          [] m.ring_mon_curr > ring_mon_curr_max /\ m.mrc_state # "AC_STAT1" ->
               mrp_set_ring_role(
                   mrp_set_mrm_state(taken, TakeOverState(m.mrc_state)), "MRM")

\* Mutant: the timer fires once only.
mrp_ring_test_expired_OneShot(m) ==
    ev_timer_stop(IF m.ring_role = "MRM" THEN mrp_mrm_ring_test_expired(m)
                                         ELSE mrp_mrc_ring_test_expired(m), "ring_test")

mrp_ring_test_expired(m) ==
    CASE m.mra_support /\ m.ring_role = "MRC" -> mrp_mrc_ring_test_expired(m)
      [] m.ring_role = "MRM" -> mrp_mrm_ring_test_expired(m)
      [] OTHER -> m

=============================================================================
