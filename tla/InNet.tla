------------------------------- MODULE InNet --------------------------------
(***************************************************************************)
(* Two closed rings joined by two interconnection links.  Nodes 1 and 2    *)
(* are neighbours in one ring, nodes 3 and 4 in the other; interconnection *)
(* link 1 joins nodes 1 and 3, link 2 joins nodes 2 and 4.  All four are   *)
(* clients of their rings.  The manager of each ring is a further node, on *)
(* the way round from one to the other: it passes no MRP_In frame on, as   *)
(* its ring is closed (RingRolePorts), so the frames that go there are     *)
(* left out, and with them the manager.  The interconnection links fail    *)
(* and recover, frames are lost, and all a node does is done by the        *)
(* handlers of InHandlers and InFilter.                                    *)
(***************************************************************************)
EXTENDS InFilter

CONSTANTS
    Roles,              \* the assignments of interconnection roles considered
    Start,              \* which links work at the start
    Calm,               \* TRUE if a link changes only after the effects of the last change
    MaxFaults,          \* bound: link failures and recoveries
    MaxMishaps,         \* bound: lost frames and announcements of another interconnection
    Stranger            \* the addresses of the managers of other interconnections

Node == 1 .. 4
Link == {1, 2}

ASSUME InNetAssumption ==
    /\ Mac = Node \cup Stranger /\ Stranger \cap Node = {} /\ InId = {1, 2}
    /\ Roles \subseteq [Node -> {"MIM", "MIC"}]
    /\ Start \subseteq [Link -> BOOLEAN] /\ Calm \in BOOLEAN
    /\ MaxFaults \in Nat /\ MaxMishaps \in Nat

VARIABLES
    mrp,            \* the instance of each node
    link,           \* which interconnection links work
    wire,           \* the frames in flight, with the node and the port they arrive at
    faults,         \* link changes so far
    mishaps         \* lost frames and foreign announcements so far

vars == <<mrp, link, wire, faults, mishaps>>

LinkOf(n) == IF n \in {1, 3} THEN 1 ELSE 2

\* The ring port of node n towards its neighbour; the other one leads to the manager.
NearPort(n) == IF n \in {1, 3} THEN 1 ELSE 2

\* The ports of node n whose frames arrive at another one of the nodes, and where they do.
Connected(n) == {NearPort(n)} \cup IF link[LinkOf(n)] THEN {i_port} ELSE {}

Peer(n, p) ==
    IF p = i_port THEN <<IF n <= 2 THEN n + 2 ELSE n - 2, i_port>>
    ELSE <<IF n \in {1, 3} THEN n + 1 ELSE n - 1, 3 - p>>

\* What node n emitted, as it arrives at its neighbours.
Emitted(n, x) ==
    {<<Peer(n, e[1])[1], Peer(n, e[1])[2], e[2]>> :
        e \in {t \in x.tx : t[1] \in Connected(n)}}

\* The callback of node n ends in instance x; the frames of rest are still in flight.
Callback(n, x, rest) ==
    /\ mrp' = [mrp EXCEPT ![n] = Idle(x)]
    /\ wire' = rest \cup Emitted(n, x)
    /\ UNCHANGED <<link, faults, mishaps>>

Informed == \A n \in Node : i_port \in mrp[n].up <=> link[LinkOf(n)]

-----------------------------------------------------------------------------
Command(n, role) ==
    [macaddr |-> n, in_id |-> 1, in_role |-> role, in_mode |-> "RC",
     ring_role |-> "MRC", blocked |-> {}]

Added(n, role) == mrp_add(Command(n, role), RingPort \cup Connected(n))

\* Some links work, and every node has just had its instance added.
Init ==
    /\ link \in Start
    /\ \E r \in Roles : /\ mrp = [n \in Node |-> Idle(Added(n, r[n]))]
                        /\ wire = UNION {Emitted(n, Added(n, r[n])) : n \in Node}
    /\ faults = 0 /\ mishaps = 0

packet_rcv(n) ==
    \E w \in wire : w[1] = n /\ Callback(n, mrp_recv(mrp[n], w[2], w[3]), wire \ {w})

netlink_listen(n) ==
    /\ ~(i_port \in mrp[n].up <=> link[LinkOf(n)])
    /\ Callback(n, netlink_operstate(mrp[n], link[LinkOf(n)]), wire)

\* Every frame and every link report arrives before the next timer expires.
Expiry(n, timer, x) == timer \in mrp[n].timers /\ wire = {} /\ Informed /\ Callback(n, x, wire)

in_test_work(n) == Expiry(n, "in_test", mrp_in_test_expired(mrp[n]))
in_topo_work(n) == Expiry(n, "in_topo", mrp_in_topo_expired(mrp[n]))
in_link_up_work(n) == Expiry(n, "in_link_up", mrp_in_link_up_expired(mrp[n]))
in_link_down_work(n) == Expiry(n, "in_link_down", mrp_in_link_down_expired(mrp[n]))
clear_fdb_work(n) == Expiry(n, "clear_fdb", mrp_clear_fdb_expired(mrp[n]))

\* Interconnection link k fails with the frames on it, or recovers.
LinkChange(k) ==
    /\ faults < MaxFaults
    /\ Calm => wire = {} /\ Informed
    /\ faults' = faults + 1
    /\ link' = [link EXCEPT ![k] = ~@]
    /\ wire' = {w \in wire : w[2] # i_port \/ LinkOf(w[1]) # k}
    /\ UNCHANGED <<mrp, mishaps>>

Lose ==
    /\ mishaps < MaxMishaps
    /\ mishaps' = mishaps + 1
    /\ \E w \in wire : wire' = wire \ {w}
    /\ UNCHANGED <<mrp, link, faults>>

\* The manager of another interconnection that joins one of the rings announces a topology
\* change, which arrives at node n from the ring.  It matters to a client that waits in PT;
\* others forward it and clear their databases.
OtherTopo(n) ==
    /\ mishaps < MaxMishaps /\ mrp[n].mic_state = "PT"
    /\ Calm => wire = {} /\ Informed
    /\ mishaps' = mishaps + 1
    /\ \E s \in Stranger :
          wire' = wire \cup {<<n, 3 - NearPort(n), [type |-> "IN_TOPO", sa |-> s, id |-> 2,
                                                   interval |-> in_topo_conf_max]>>}
    /\ UNCHANGED <<mrp, link, faults>>

Next ==
    \/ \E n \in Node :
          \/ packet_rcv(n) \/ netlink_listen(n)
          \/ in_test_work(n) \/ in_topo_work(n)
          \/ in_link_up_work(n) \/ in_link_down_work(n)
          \/ clear_fdb_work(n) \/ OtherTopo(n)
    \/ \E k \in Link : LinkChange(k)
    \/ Lose

Spec == Init /\ [][Next]_vars

(***************************************************************************)
(* The event loops serve their sockets, and the timers that stay armed     *)
(* expire: strongly, as frames in flight withhold every expiry.            *)
(***************************************************************************)
FairSpec ==
    /\ Spec
    /\ WF_vars(\E n \in Node : packet_rcv(n))
    /\ WF_vars(\E n \in Node : netlink_listen(n))
    /\ SF_vars(\E n \in Node : in_test_work(n))
    /\ SF_vars(\E n \in Node : in_link_up_work(n))
    /\ SF_vars(\E n \in Node : in_topo_work(n))

-----------------------------------------------------------------------------
\* Interconnection link k carries traffic: it works and both its ends forward.
Carries(k) == link[k] /\ \A n \in Node : LinkOf(n) = k => mrp[n].state[i_port] = "FORWARDING"

\* With fewer losses than repetitions there is no traffic loop over the two
\* interconnections once every node knows the links and all frames have arrived: the
\* manager blocks before a client opens.
NoInterLoop == Informed /\ wire = {} => ~(Carries(1) /\ Carries(2))

\* A client whose link works has opened its interconnection port.
ClientsOpen ==
    \A n \in Node :
        mrp[n].in_role = "MIC" /\ link[LinkOf(n)] => mrp[n].state[i_port] = "FORWARDING"

\* After the last change the network settles: no loop, no client waits any longer, and as
\* long as one interconnection link works, traffic crosses between the rings.
Reconverges ==
    <>[](/\ ~(Carries(1) /\ Carries(2)) /\ ClientsOpen
         /\ (\E k \in Link : link[k]) => \E k \in Link : Carries(k))

=============================================================================
