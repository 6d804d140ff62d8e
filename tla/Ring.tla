-------------------------------- MODULE Ring --------------------------------
(***************************************************************************)
(* N instances wired to a ring: port 1 of node n and port 2 of node n + 1  *)
(* are the two ends of link n.  Frames cross links in any order; links     *)
(* fail and recover, and a node learns of it some time later, from         *)
(* netlink.  Only link 1 .. N and the frames on them are external: all a   *)
(* node does is done by the handlers of RingHandlers.                      *)
(***************************************************************************)
EXTENDS RingHandlers, FiniteSets

CONSTANTS
    N,              \* nodes
    Config,         \* rings considered: the addmrp command of each node
    MaxFaults,      \* bound: link failures, link recoveries and lost frames
    Prompt          \* TRUE if a frame always arrives before the next timer expires

Node == 1 .. N

ASSUME RingAssumption ==
    /\ N \in Nat \ {0, 1}
    /\ Config \subseteq [Node -> ConfigRecord]
    /\ MaxFaults \in Nat /\ Prompt \in BOOLEAN

VARIABLES
    mrp,            \* the instance of each node
    link,           \* which links work
    wire,           \* the frames in flight, with the node and the port they arrive at
    faults,         \* link changes and losses so far
    probed          \* history: a manager probed the ring since it last changed

vars == <<mrp, link, wire, faults, probed>>

NextNode(n) == IF n = N THEN 1 ELSE n + 1
PrevNode(n) == IF n = 1 THEN N ELSE n - 1

LinkOf(n, p) == IF p = 1 THEN n ELSE PrevNode(n)
Peer(n, p) == IF p = 1 THEN <<NextNode(n), 2>> ELSE <<PrevNode(n), 1>>

\* What node n emitted, as it arrives at its neighbours.  A link that is down swallows it.
Emitted(n, m) ==
    {<<Peer(n, e[1])[1], Peer(n, e[1])[2], e[2]>> : e \in {x \in m.tx : link[LinkOf(n, x[1])]}}

\* The callback of node n ends in instance m; the frames of rest are still in flight.
Callback(n, m, rest) ==
    /\ mrp' = [mrp EXCEPT ![n] = Idle(m)]
    /\ wire' = rest \cup Emitted(n, m)
    /\ UNCHANGED <<link, faults>>

\* The operational state that the kernel reports for port p of node n.
Reported(n, p) == IF link[LinkOf(n, p)] THEN "UP" ELSE "DOWN"

Informed == \A n \in Node, p \in RingPort : mrp[n].operstate[p] = Reported(n, p)

-----------------------------------------------------------------------------
UpPorts(n) == {p \in RingPort : link[LinkOf(n, p)]}

\* Some links work, and every node has just had its instance added.
Init ==
    /\ link \in [Node -> BOOLEAN]
    /\ \E c \in Config :
          /\ mrp = [n \in Node |-> Idle(mrp_add(c[n], UpPorts(n)))]
          /\ wire = UNION {Emitted(n, mrp_add(c[n], UpPorts(n))) : n \in Node}
    /\ faults = 0 /\ probed = FALSE

packet_rcv(n) ==
    \E x \in wire :
        /\ x[1] = n
        /\ Callback(n, mrp_recv(mrp[n], x[2], x[3]), wire \ {x})
        /\ UNCHANGED probed

netlink_listen(n) ==
    \E p \in RingPort :
        /\ mrp[n].operstate[p] # Reported(n, p)
        /\ Callback(n, mrp_port_link_change(mrp[n], p, link[LinkOf(n, p)]), wire)
        /\ probed' = FALSE

Expiry(n, timer, m) ==
    /\ timer \in mrp[n].timers
    /\ Prompt => wire = {}
    /\ Callback(n, m, wire)
    /\ probed' = (probed \/ (timer = "ring_test" /\ mrp[n].ring_role = "MRM"))

ring_test_work(n) == Expiry(n, "ring_test", mrp_ring_test_expired(mrp[n]))
ring_topo_work(n) == Expiry(n, "ring_topo", mrp_ring_topo_expired(mrp[n]))
ring_link_up_work(n) == Expiry(n, "ring_link_up", mrp_ring_link_up_expired(mrp[n]))
ring_link_down_work(n) == Expiry(n, "ring_link_down", mrp_ring_link_down_expired(mrp[n]))
clear_fdb_work(n) == Expiry(n, "clear_fdb", mrp_clear_fdb_expired(mrp[n]))

\* Link n fails with the frames on it, or recovers.
LinkChange(n) ==
    /\ faults < MaxFaults
    /\ faults' = faults + 1
    /\ link' = [link EXCEPT ![n] = ~@]
    /\ wire' = {x \in wire : LinkOf(x[1], x[2]) # n}
    /\ probed' = FALSE
    /\ UNCHANGED mrp

Lose ==
    /\ faults < MaxFaults
    /\ faults' = faults + 1
    /\ \E x \in wire : wire' = wire \ {x}
    /\ probed' = FALSE
    /\ UNCHANGED <<mrp, link>>

Next ==
    \/ \E n \in Node :
          \/ packet_rcv(n)
          \/ netlink_listen(n)
          \/ ring_test_work(n)
          \/ ring_topo_work(n)
          \/ ring_link_up_work(n)
          \/ ring_link_down_work(n)
          \/ clear_fdb_work(n)
          \/ LinkChange(n)
    \/ Lose

Spec == Init /\ [][Next]_vars

(***************************************************************************)
(* The event loops serve their sockets, and the test and link-up timers    *)
(* that stay armed expire: strongly fair, as Prompt withholds every expiry *)
(* again and again while frames travel.  The other timers need not.  Links *)
(* change and frames are lost finitely often (MaxFaults).                  *)
(***************************************************************************)
Fairness ==
    /\ WF_vars(\E n \in Node : packet_rcv(n))
    /\ WF_vars(\E n \in Node : netlink_listen(n))
    /\ SF_vars(\E n \in Node : ring_test_work(n))
    /\ SF_vars(\E n \in Node : ring_link_up_work(n))

FairSpec == Spec /\ Fairness

-----------------------------------------------------------------------------
\* Link n carries traffic: it works and both its ends forward.
Carries(n) ==
    link[n] /\ mrp[n].state[1] = "FORWARDING" /\ mrp[NextNode(n)].state[2] = "FORWARDING"

Loop == \A n \in Node : Carries(n)

\* Traffic reaches every node: at most one link does not carry any.
Reachable == Cardinality({n \in Node : ~Carries(n)}) <= 1

\* No traffic loop outlives a probe: once a manager has sent test frames after the last
\* change of the ring and they have all arrived, one port of the ring is blocked.
NoLoopOnceProbed == probed /\ Informed /\ wire = {} => ~Loop

\* After the last change the ring settles: no loop, and with no more than one broken
\* link every node reaches every other one.
Settles ==
    <>[](~Loop /\ (Cardinality({n \in Node : ~link[n]}) <= 1 => Reachable))

=============================================================================
