------------------------------- MODULE InNode -------------------------------
(***************************************************************************)
(* One instance with an interconnection role, in an environment that may   *)
(* send it any MRP_In frame at any time and whose ring half may do         *)
(* anything to the ring ports.  An action is one callback of the event     *)
(* loop.                                                                   *)
(***************************************************************************)
EXTENDS InFilter

CONSTANT Config         \* the addmrp commands considered

ASSUME InNodeAssumption == Config \subseteq InConfig

VARIABLES
    mrp,            \* the instance
    alive,          \* it has not been destroyed
    silence         \* history: test intervals passed since the interconnection was seen closed

vars == <<mrp, alive, silence>>

Watching(x) == x.in_role = "MIM" /\ x.mim_state = "CHK_IC"

\* The callback of event ends in instance x.
Callback(x, event) ==
    /\ alive /\ mrp' = x
    /\ silence' = CASE ~(Watching(mrp) /\ Watching(x)) \/ event = "own_test" -> 0
                    [] Watching(mrp) /\ Watching(x) /\ event = "in_test" -> silence + 1
                    [] OTHER -> silence
    /\ UNCHANGED alive

Init ==
    /\ \E c \in Config, up \in SUBSET Port : mrp = mrp_add(c, up)
    /\ alive = TRUE /\ silence = 0

packet_rcv ==
    \E p \in Port, f \in InFrame :
        Callback(mrp_recv(Idle(mrp), p, f),
                 IF /\ f.type = "IN_TEST" /\ f.id = mrp.in_id
                    /\ ~mrp_should_drop(mrp, p, f.type)
                 THEN "own_test" ELSE "frame")

\* A netlink message about the interconnection port; as for ring ports (RingNode), a
\* repeated one reaches the state machine when it names another state that means the same.
netlink_listen ==
    \E up \in BOOLEAN : Callback(netlink_operstate(Idle(mrp), up), "link")

\* A netlink message with the CFM status of the peer.
cfm_status ==
    /\ mrp.in_mode = "LC"
    /\ \E defect \in BOOLEAN : Callback(mrp_cfm_link_change(Idle(mrp), defect), "link")

\* Whatever the ring half does: to its ports, its role, its announcements.
RingStep ==
    \E role \in {"MRC", "MRM"}, r \in BOOLEAN, b \in SUBSET RingPort, u \in SUBSET RingPort :
        Callback([Idle(mrp) EXCEPT
                    !.ring_role = role, !.ring_topo_running = r,
                    !.state = [p \in Port |-> IF p = i_port THEN @[p]
                                 ELSE IF p \in b THEN "BLOCKED" ELSE "FORWARDING"],
                    !.up = (@ \cap {i_port}) \cup u],
                 "ring")

Expiry(timer, x) == timer \in mrp.timers /\ Callback(x, timer)

in_test_work == Expiry("in_test", mrp_in_test_expired(Idle(mrp)))
in_topo_work == Expiry("in_topo", mrp_in_topo_expired(Idle(mrp)))
in_link_up_work == Expiry("in_link_up", mrp_in_link_up_expired(Idle(mrp)))
in_link_down_work == Expiry("in_link_down", mrp_in_link_down_expired(Idle(mrp)))
in_link_status_work == Expiry("in_link_status", mrp_in_link_status_expired(Idle(mrp)))
cfm_ccm_work == Expiry("cfm_ccm", mrp_cfm_ccm_expired(Idle(mrp)))
clear_fdb_work == Expiry("clear_fdb", mrp_clear_fdb_expired(Idle(mrp)))

\* delmrp, or the port leaves its bridge.
Destroy ==
    /\ alive /\ alive' = FALSE
    /\ mrp' = mrp_destroy(Idle(mrp))
    /\ UNCHANGED silence

Next ==
    \/ packet_rcv \/ netlink_listen \/ cfm_status \/ RingStep
    \/ in_test_work \/ in_topo_work \/ in_link_up_work \/ in_link_down_work
    \/ in_link_status_work \/ cfm_ccm_work \/ clear_fdb_work
    \/ Destroy

Spec == Init /\ [][Next]_vars

-----------------------------------------------------------------------------
\* Every field keeps its C type, and everything sent is a frame.
TypeOK == mrp \in InInstance /\ alive \in BOOLEAN /\ silence \in Nat

\* Whatever arrives, in either mode, the interconnection port of a manager forwards
\* exactly while the manager considers the interconnection open (CHK_IO).
MimPort == mrp.in_role = "MIM" => (mrp.state[i_port] = "FORWARDING" <=> mrp.mim_state = "CHK_IO")

\* The timer handlers of a client do not look at the state they expire in: the link-up
\* timer runs exactly in PT, the link-down timer in AC_STAT1 only, and the port forwards
\* exactly in IP_IDLE.
MicPort ==
    mrp.in_role = "MIC" /\ alive =>
        /\ mrp.state[i_port] = "FORWARDING" <=> mrp.mic_state = "IP_IDLE"
        /\ "in_link_up" \in mrp.timers <=> mrp.mic_state = "PT"
        /\ "in_link_down" \in mrp.timers => mrp.mic_state = "AC_STAT1"

\* A manager in RC mode whose link is up never stops probing.
MimProbes ==
    alive /\ mrp.in_role = "MIM" /\ mrp.in_mode = "RC" /\ mrp.mim_state # "AC_STAT1" =>
        "in_test" \in mrp.timers

\* timer.c, mrp_timer_stop: "Stops all the timers".  A destroyed instance, whose memory
\* is freed, has no armed timer left.
DestroyStopsTimers == ~alive => mrp.timers = {}

\* What holds instead: nothing stays armed in freed memory but, in LC mode, the test timer,
\* which the frames of an interconnection in RC mode with the same identifier start, and
\* the CCM timer of an instance that was given the mode without a role.
NothingElseOutlives ==
    ~alive => mrp.timers \subseteq CASE mrp.in_mode = "RC" -> {}
                                    [] mrp.in_mode = "LC" /\ mrp.in_role # "DISABLED" -> {"in_test"}
                                    [] mrp.in_mode = "LC" /\ mrp.in_role = "DISABLED" -> {"cfm_ccm"}

\* A manager in RC mode gives up by timeout only after in_test_conf_max consecutive
\* intervals without a test frame of its interconnection.
InOpensAfterSilence ==
    [][mrp.in_mode = "RC" /\ Watching(mrp) /\ in_test_work /\ ~Watching(mrp') =>
          silence + 1 >= in_test_conf_max]_vars

\* A manager that opens or closes its interconnection announces it in the same callback,
\* by a cycle that ends in a flush.
InChangeAnnounced ==
    [][/\ mrp.in_role = "MIM"
       /\ {mrp.mim_state, mrp'.mim_state} = {"CHK_IO", "CHK_IC"}
       => "in_topo" \in mrp'.timers]_vars

=============================================================================
