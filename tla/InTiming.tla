------------------------------ MODULE InTiming ------------------------------
(***************************************************************************)
(* Does an interconnection recover in the time its profile promises?  As   *)
(* in RingTiming, the manager (MIM, RC mode) has just seen a test frame of *)
(* its interconnection when that breaks, and time passes in steps of       *)
(* Quantum.  Here a MIC may still announce that its link came up.          *)
(***************************************************************************)
EXTENDS InFilter, Recovery

CONSTANTS
    in_recv,            \* the profile
    Quantum,            \* bound: the resolution of time, in microseconds
    MaxFrames           \* bound: link changes that are announced meanwhile

VARIABLES
    mrp,            \* the manager
    clock,          \* the time since the interconnection broke
    due,            \* the time left until the test and the topology timer expire
    frames,         \* link changes announced so far
    recovered       \* the interconnection has been opened, and the databases cleared

vars == <<mrp, clock, due, frames, recovered>>

Conf == in_recovery(in_recv)
Sends(x, type) == \E e \in x.tx : e[2].type = type

\* A callback ends in x: a frame is sent whenever its timer is started or expires.
Callback(x) ==
    /\ mrp' = x
    /\ due' = [test |-> IF Sends(x, "IN_TEST") THEN Conf.test_interval ELSE due.test,
               topo |-> IF Sends(x, "IN_TOPO") THEN Conf.topo_interval ELSE due.topo]
    /\ recovered' = (recovered \/ (x.mim_state = "CHK_IO" /\ x.flushed))
    /\ UNCHANGED clock

Init ==
    /\ mrp = Idle(mrp_recv(mrp_add([macaddr |-> 1, in_id |-> 1, in_role |-> "MIM", in_mode |-> "RC",
                                    ring_role |-> "MRC", blocked |-> {}], Port),
                           1, [type |-> "IN_TEST", sa |-> 1, id |-> 1]))
    /\ clock = 0 /\ frames = 0 /\ recovered = FALSE
    /\ due = [test |-> Conf.test_interval, topo |-> Conf.topo_interval]

Tick ==
    /\ ~recovered
    /\ "in_test" \in mrp.timers => due.test > 0
    /\ "in_topo" \in mrp.timers => due.topo > 0
    /\ clock' = clock + Quantum
    /\ due' = [test |-> IF "in_test" \in mrp.timers THEN due.test - Quantum ELSE due.test,
               topo |-> IF "in_topo" \in mrp.timers THEN due.topo - Quantum ELSE due.topo]
    /\ mrp' = Idle(mrp)
    /\ UNCHANGED <<frames, recovered>>

in_test_work ==
    /\ "in_test" \in mrp.timers /\ due.test = 0
    /\ Callback(mrp_in_test_expired(Idle(mrp))) /\ UNCHANGED frames

in_topo_work ==
    /\ "in_topo" \in mrp.timers /\ due.topo = 0
    /\ Callback(mrp_in_topo_expired(Idle(mrp))) /\ UNCHANGED frames

\* A MIC of this or of another interconnection announces a link.
packet_rcv ==
    /\ frames < MaxFrames /\ ~recovered
    /\ \E p \in RingPort, f \in InLinkFrame : Callback(mrp_recv(Idle(mrp), p, f))
    /\ frames' = frames + 1

Next == Tick \/ in_test_work \/ in_topo_work \/ packet_rcv

Spec == Init /\ [][Next]_vars

-----------------------------------------------------------------------------
\* A broken interconnection is opened, and the change announced to its end, within the
\* recovery time of its profile if no link change is announced meanwhile.  A link that
\* came up just before the break grants the manager one more test interval, and no
\* further one grants another.
InRecoversSoon ==
    clock > in_recv * 1000 + (IF frames = 0 THEN 0 ELSE Conf.test_interval) => recovered

=============================================================================
