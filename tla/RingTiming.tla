----------------------------- MODULE RingTiming -----------------------------
(***************************************************************************)
(* Does a ring recover in the time its profile promises?  The manager has  *)
(* just seen a test frame of its own when the ring breaks somewhere far    *)
(* away.  Time passes in steps of Quantum, timers expire when they are     *)
(* due, and link changes of clients may still get through.  The ring has   *)
(* recovered when the manager has opened its secondary port and the        *)
(* forwarding databases are cleared.                                       *)
(***************************************************************************)
EXTENDS Recovery

CONSTANTS
    Resolution,         \* bound: the resolution of time in each profile, in microseconds
    MaxFrames           \* bound: link changes that are announced meanwhile

Multiple(t, q) == \E i \in 1 .. t : t = i * q

ASSUME ResolutionAssumption ==
    /\ Resolution \in [RingRecv -> Nat \ {0}]
    /\ \A r \in RingRecv : /\ Multiple(ring_recovery(r).test_interval, Resolution[r])
                          /\ Multiple(ring_test_conf_short(r), Resolution[r])
                          /\ Multiple(ring_recovery(r).topo_interval, Resolution[r])

VARIABLES
    ring_recv,      \* the profile
    mrp,            \* the manager
    clock,          \* the time since the ring broke
    due,            \* the time left until the test and the topology timer expire
    frames,         \* link changes announced so far
    opened,         \* when the manager opened the ring
    recovered       \* the ring has been opened, and the databases cleared

(***************************************************************************)
(* The manager, with the limits of the profile.                            *)
(***************************************************************************)
Conf == ring_recovery(ring_recv)
ring_test_conf_max == Conf.test_max
ring_topo_conf_max == Conf.topo_max
ring_topo_conf_interval == Conf.topo_interval
ring_link_conf_max == Conf.link_max
Mac == {1}
Prio == {128}

INSTANCE RingHandlers

Quantum == Resolution[ring_recv]

\* The interval that mrp_ring_test_req is given in the callback of event, outside PRM_UP,
\* which a manager without link events does not enter.
TestInterval(event) ==
    IF event = "frame" THEN ring_test_conf_short(ring_recv) ELSE Conf.test_interval

vars == <<ring_recv, mrp, clock, due, frames, opened, recovered>>

Sends(m, type) == \E e \in m.tx : e[2].type = type
Open(m) == m.mrm_state = "CHK_RO"

\* A callback of event ends in m.  Every mrp_ring_test_req sends a test frame and starts
\* the test timer; the topology timer repeats.
Callback(m, event) ==
    /\ mrp' = m
    /\ due' = [test |-> IF Sends(m, "RING_TEST") THEN TestInterval(event) ELSE due.test,
               topo |-> IF event = "ring_topo" \/ "ring_topo" \notin mrp.timers
                        THEN Conf.topo_interval ELSE due.topo]
    /\ opened' = IF Open(m) /\ ~Open(mrp) THEN clock ELSE opened
    /\ recovered' = (recovered \/ (Open(m) /\ m.flushed))
    /\ UNCHANGED <<ring_recv, clock>>

Init ==
    /\ ring_recv \in RingRecv
    /\ \E r \in BOOLEAN :
          mrp = Idle(mrp_recv(mrp_add([ring_role |-> "MRM", macaddr |-> 1, prio |-> 128,
                                       react_on_link_change |-> r, in_role |-> "DISABLED"],
                                      RingPort),
                              1, [type |-> "RING_TEST", sa |-> 1, prio |-> 128]))
    /\ clock = 0 /\ frames = 0 /\ opened = 0 /\ recovered = FALSE
    /\ due = [test |-> Conf.test_interval, topo |-> Conf.topo_interval]

\* No timer is due: time passes.
Tick ==
    /\ ~recovered
    /\ "ring_test" \in mrp.timers => due.test > 0
    /\ "ring_topo" \in mrp.timers => due.topo > 0
    /\ clock' = clock + Quantum
    /\ due' = [test |-> IF "ring_test" \in mrp.timers THEN due.test - Quantum ELSE due.test,
               topo |-> IF "ring_topo" \in mrp.timers THEN due.topo - Quantum ELSE due.topo]
    /\ mrp' = Idle(mrp)
    /\ UNCHANGED <<ring_recv, frames, opened, recovered>>

ring_test_work ==
    /\ "ring_test" \in mrp.timers /\ due.test = 0
    /\ Callback(mrp_ring_test_expired(Idle(mrp)), "ring_test")
    /\ UNCHANGED frames

ring_topo_work ==
    /\ "ring_topo" \in mrp.timers /\ due.topo = 0
    /\ Callback(mrp_ring_topo_expired(Idle(mrp)), "ring_topo")
    /\ UNCHANGED frames

packet_rcv ==
    /\ frames < MaxFrames /\ ~recovered
    /\ \E p \in RingPort, f \in LinkFrame : Callback(mrp_recv(Idle(mrp), p, f), "frame")
    /\ frames' = frames + 1

Next == Tick \/ ring_test_work \/ ring_topo_work \/ packet_rcv

Spec == Init /\ [][Next]_vars

-----------------------------------------------------------------------------
\* Whether or not the manager reacts on link changes, and although each link change of a
\* client may put the next test off, a broken ring is opened and its databases cleared
\* within the recovery time of the profile: mrp_update_recovery's counts and intervals
\* leave room for it.
RingRecovers == clock > ring_recv * 1000 => recovered

\* Every announcement of the opening makes a client clear its database no later than the
\* manager clears its own, and less than a millisecond before that: the interval a frame
\* carries counts whole milliseconds.
ClientsFlushInTime ==
    \A e \in mrp.tx :
        Open(mrp) /\ e[2].type = "RING_TOPO" /\ "ring_topo" \in mrp.timers =>
            LET told == clock + 1000 * e[2].interval
                last == opened + Conf.topo_max * Conf.topo_interval
            IN told <= last /\ told + 1000 > last

=============================================================================
