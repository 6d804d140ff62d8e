----------------------------- MODULE RingProofs -----------------------------
(***************************************************************************)
(* Proofs about Ring: the inductive invariant behind NoLoopOnceProbed, for *)
(* a ring of any size with one manager.                                    *)
(***************************************************************************)
EXTENDS Ring, InstanceProofs

(***************************************************************************)
(* What the operations of an instance do to the fields that the ring's     *)
(* invariant reads: links, address, states, the roles of the ports, and    *)
(* the frames sent.                                                        *)
(***************************************************************************)
Shaped(m) ==
    {"macaddr", "operstate", "p_port", "s_port", "mrm_state", "mrc_state", "tx"} \subseteq DOMAIN m

\* Links and address stay as they are, and what was sent remains sent.
Keeps(r, m) ==
    Shaped(r) /\ r.operstate = m.operstate /\ r.macaddr = m.macaddr /\ m.tx \subseteq r.tx

\* No lost link is announced.
Quiet(r, m) == \A e \in r.tx : e \in m.tx \/ e[2].type # "RING_LINK_DOWN"

\* The states and the roles of the ports stay as they are too.
Still(r, m) ==
    /\ Keeps(r, m)
    /\ r.p_port = m.p_port /\ r.s_port = m.s_port
    /\ r.mrm_state = m.mrm_state /\ r.mrc_state = m.mrc_state

Calm(r, m) == Still(r, m) /\ Quiet(r, m)

\* One state machine moves to state s.
MrmMoved(r, m, s) ==
    /\ Keeps(r, m) /\ Quiet(r, m)
    /\ r.p_port = m.p_port /\ r.s_port = m.s_port
    /\ r.mrm_state = s /\ r.mrc_state = m.mrc_state

MrcMoved(r, m, s) ==
    /\ Keeps(r, m) /\ Quiet(r, m)
    /\ r.p_port = m.p_port /\ r.s_port = m.s_port
    /\ r.mrm_state = m.mrm_state /\ r.mrc_state = s

\* An instance has these fields.
LEMMA InstanceShaped ==
    ASSUME NEW m \in Instance
    PROVE  Shaped(m)
BY SMTT(30) DEF Instance, Shaped

\* The timers are not among them.
LEMMA TimerCalm ==
    ASSUME NEW m, Shaped(m), NEW t
    PROVE  Calm(ev_timer_again(m, t), m) /\ Calm(ev_timer_stop(m, t), m)
BY Zenon DEF ev_timer_again, ev_timer_stop, Calm, Still, Keeps, Quiet, Shaped

\* Nor are the states of the ports.
LEMMA PortCalm ==
    ASSUME NEW m, Shaped(m), NEW p, NEW s
    PROVE  Calm(mrp_port_set_state(m, p, s), m)
BY Zenon DEF mrp_port_set_state, Calm, Still, Keeps, Quiet, Shaped

\* Nor are the flags and the counters.
LEMMA CountCalm ==
    ASSUME NEW m, Shaped(m), NEW k
    PROVE  /\ Calm(RestartCount(m), m) /\ Calm(RestartLink(m), m)
           /\ Calm(ifdriver_flush(m), m)
           /\ Calm([m EXCEPT !.add_test = k], m)
           /\ Calm([m EXCEPT !.no_tc = k], m)
           /\ Calm([m EXCEPT !.ring_test_curr_max = k], m)
           /\ Calm([m EXCEPT !.ring_topo_curr_max = k], m)
           /\ Calm([m EXCEPT !.ring_link_curr_max = k], m)
           /\ Calm([m EXCEPT !.ring_topo_running = k], m)
           /\ Calm([m EXCEPT !.ring_test_curr = k, !.add_test = FALSE], m)
BY ZenonT(40) DEF RestartCount, RestartLink, ifdriver_flush, Calm, Still, Keeps, Quiet, Shaped

\* mrp_send: the frame leaves by the ports that are up.
LEMMA SendStill ==
    ASSUME NEW m, Shaped(m), NEW P, NEW f
    PROVE  LET r == mrp_send(m, P, f)
           IN  /\ Still(r, m)
               /\ f.type # "RING_LINK_DOWN" => Quiet(r, m)
               /\ \A q \in P : m.operstate[q] = "UP" => <<q, f>> \in r.tx
<1> DEFINE r == mrp_send(m, P, f)
           new == {<<p, f>> : p \in {q \in P : m.operstate[q] = "UP"}}
<1>1. r.tx = m.tx \cup new
  BY Zenon DEF mrp_send, Shaped
<1>2. Shaped(r) /\ r.operstate = m.operstate /\ r.macaddr = m.macaddr
  BY Zenon DEF mrp_send, Shaped
<1>3. /\ r.p_port = m.p_port /\ r.s_port = m.s_port
      /\ r.mrm_state = m.mrm_state /\ r.mrc_state = m.mrc_state
  BY Zenon DEF mrp_send, Shaped
<1> HIDE DEF r
<1>4. Still(r, m)
  BY Zenon, <1>1, <1>2, <1>3 DEF Still, Keeps
<1>5. \A e \in new : e[2] = f
  OBVIOUS
<1>6. \A q \in P : m.operstate[q] = "UP" => <<q, f>> \in new
  OBVIOUS
<1> HIDE DEF new
<1>7. f.type # "RING_LINK_DOWN" => Quiet(r, m)
  BY Zenon, <1>1, <1>5 DEF Quiet
<1>. QED
  BY Zenon, <1>1, <1>4, <1>6, <1>7 DEF r

\* The two state machines.
LEMMA StateMoved ==
    ASSUME NEW m, Shaped(m), NEW s
    PROVE  /\ MrmMoved(mrp_set_mrm_state(m, s), m, s)
           /\ MrcMoved(mrp_set_mrc_state(m, s), m, s)
BY ZenonT(40) DEF mrp_set_mrm_state, mrp_set_mrc_state, MrmMoved, MrcMoved, Keeps, Quiet, Shaped

\* Operations that keep these fields compose.
LEMMA CalmTransitive ==
    ASSUME NEW m, NEW a, NEW r, Calm(a, m), Calm(r, a)
    PROVE  Calm(r, m)
BY Zenon DEF Calm, Still, Keeps, Quiet

\* What keeps these fields leaves an instance with them.
LEMMA CalmShaped ==
    ASSUME NEW m, NEW r, Calm(r, m)
    PROVE  Shaped(r)
BY Zenon DEF Calm, Still, Keeps

\* Operations that keep these fields, and one that moves a state machine at the end.
LEMMA CalmThenMoved ==
    ASSUME NEW m, NEW a, NEW r, NEW s, Calm(a, m)
    PROVE  /\ MrmMoved(r, a, s) => MrmMoved(r, m, s)
           /\ MrcMoved(r, a, s) => MrcMoved(r, m, s)
BY Zenon DEF Calm, Still, Keeps, Quiet, MrmMoved, MrcMoved

\* A test frame of the instance has left by each of its ports that is up.
OwnTest(f, m) == f.type = "RING_TEST" /\ f.sa = m.macaddr

TestSent(r, m) ==
    \A q \in BothPorts(m) :
        m.operstate[q] = "UP" => \E e \in r.tx : e[1] = q /\ OwnTest(e[2], m)

\* mrp_ring_test_req: the manager probes the ring through both ports.
LEMMA TestReqCalm ==
    ASSUME NEW m, Shaped(m)
    PROVE  LET r == mrp_ring_test_req(m) IN Calm(r, m) /\ TestSent(r, m)
<1> DEFINE f == [type |-> "RING_TEST", sa |-> m.macaddr, prio |-> m.prio]
           sent == mrp_send(m, BothPorts(m), f)
           r == ev_timer_again(sent, "ring_test")
<1>1. mrp_ring_test_req(m) = r
  BY Zenon DEF mrp_ring_test_req
<1>2. f.type # "RING_LINK_DOWN" /\ OwnTest(f, m)
  BY DEF OwnTest
<1> HIDE DEF f
<1>3. Still(sent, m) /\ Quiet(sent, m) /\ TestSent(sent, m)
  <2>1. /\ Still(sent, m) /\ Quiet(sent, m)
        /\ \A q \in BothPorts(m) : m.operstate[q] = "UP" => <<q, f>> \in sent.tx
    BY Zenon, <1>2, SendStill
  <2> HIDE DEF sent
  <2>2. \A q : <<q, f>>[1] = q /\ <<q, f>>[2] = f
    OBVIOUS
  <2>. QED
    BY Zenon, <1>2, <2>1, <2>2 DEF TestSent
<1> HIDE DEF sent
<1>4. Calm(sent, m)
  BY <1>3 DEF Calm
<1>5. Calm(r, sent)
  BY <1>4, CalmShaped, TimerCalm
<1> HIDE DEF r
<1>6. Calm(r, m)
  BY <1>4, <1>5, CalmTransitive
<1>7. TestSent(r, m)
  BY Zenon, <1>3, <1>5 DEF TestSent, Calm, Still, Keeps
<1>. QED
  BY Zenon, <1>1, <1>6, <1>7

\* The announcements of the manager, and a client's of a link that came up.
LEMMA AnnounceCalm ==
    ASSUME NEW m, Shaped(m), NEW time
    PROVE  /\ Calm(mrp_ring_topo_send(m, time), m)
           /\ Calm(mrp_ring_link_req(m, TRUE), m)
           /\ Still(mrp_ring_link_req(m, FALSE), m)
<1> DEFINE topo == [type |-> "RING_TOPO", sa |-> m.macaddr,
                    interval |-> ToUInt16(time \div 1000)]
           up == [type |-> "RING_LINK_UP"]
           down == [type |-> "RING_LINK_DOWN"]
<1>1. topo.type # "RING_LINK_DOWN" /\ up.type # "RING_LINK_DOWN"
  OBVIOUS
<1>2. mrp_ring_topo_send(m, time) = mrp_send(m, BothPorts(m), topo)
  BY Zenon DEF mrp_ring_topo_send
<1>3. mrp_ring_link_req(m, TRUE) = mrp_send(m, {m.p_port}, up)
  BY Zenon DEF mrp_ring_link_req
<1>4. mrp_ring_link_req(m, FALSE) = mrp_send(m, {m.p_port}, down)
  BY Zenon DEF mrp_ring_link_req
<1> HIDE DEF topo, up, down
<1>. QED
  BY Zenon, <1>1, <1>2, <1>3, <1>4, SendStill DEF Calm

\* Starting and stopping the announcement cycle, and the start of a flush.
LEMMA CycleCalm ==
    ASSUME NEW m, Shaped(m), NEW time
    PROVE  /\ Calm(mrp_ring_topo_start(m), m) /\ Calm(mrp_ring_topo_stop(m), m)
           /\ Calm(mrp_clear_fdb_start(m, time), m) /\ Calm(mrp_clear_fdb_expired(m), m)
<1>1. Calm(mrp_ring_topo_start(m), m)
  BY Zenon DEF mrp_ring_topo_start, ev_timer_again, Calm, Still, Keeps, Quiet, Shaped
<1>2. Calm(mrp_ring_topo_stop(m), m)
  BY Zenon DEF mrp_ring_topo_stop, ev_timer_stop, Calm, Still, Keeps, Quiet, Shaped
<1>3. Calm(ev_timer_again(m, "clear_fdb"), m)
  BY TimerCalm
<1>4. Calm(mrp_clear_fdb_start(m, time), m)
  <2> DEFINE stopped == ev_timer_stop(m, "clear_fdb")
  <2>1. Calm(stopped, m)
    BY TimerCalm
  <2> HIDE DEF stopped
  <2>2. Calm(ifdriver_flush(stopped), m)
    BY Zenon, <2>1, CalmShaped, CountCalm, CalmTransitive
  <2>. QED
    BY Zenon, <1>3, <2>2 DEF mrp_clear_fdb_start, stopped
<1>5. Calm(ifdriver_flush(m), m)
  BY Zenon, CountCalm
<1>6. Calm(mrp_clear_fdb_expired(m), m)
  BY Zenon, <1>5, CalmShaped, TimerCalm, CalmTransitive DEF mrp_clear_fdb_expired
<1>. QED
  BY <1>1, <1>2, <1>4, <1>6

\* mrp_ring_topo_req.
LEMMA TopoReqCalm ==
    ASSUME NEW m, Shaped(m), NEW time
    PROVE  Calm(mrp_ring_topo_req(m, time), m)
<1> DEFINE sent == mrp_ring_topo_send(m, time * ring_topo_conf_max)
<1>1. Calm(sent, m)
  BY Zenon, AnnounceCalm
<1>2. mrp_ring_topo_req(m, time) = IF time = 0 THEN ifdriver_flush(sent) ELSE mrp_ring_topo_start(sent)
  BY Zenon DEF mrp_ring_topo_req
<1> HIDE DEF sent
<1>3. Calm(ifdriver_flush(sent), sent) /\ Calm(mrp_ring_topo_start(sent), sent)
  BY Zenon, <1>1, CalmShaped, CountCalm, CycleCalm
<1>. QED
  BY Zenon, <1>1, <1>2, <1>3, CalmTransitive

-----------------------------------------------------------------------------
(***************************************************************************)
(* The manager.                                                            *)
(***************************************************************************)
\* An operation that keeps the fields keeps what is said of a manager's handler.
Heard(r, m) == Keeps(r, m) /\ Quiet(r, m)

\* Both kinds of operation announce no lost link.
LEMMA MovedHeard ==
    ASSUME NEW m, NEW r, NEW s
    PROVE  /\ MrmMoved(r, m, s) => Heard(r, m) /\ r.mrm_state = s
           /\ Calm(r, m) => Heard(r, m) /\ r.mrm_state = m.mrm_state
BY Zenon DEF MrmMoved, Calm, Still, Heard

\* Every instance keeps its fields when nothing happens.
LEMMA CalmReflexive ==
    ASSUME NEW m, Shaped(m)
    PROVE  Calm(m, m)
BY Zenon DEF Calm, Still, Keeps, Quiet

\* A manager that hears its own test frame does not consider its ring open.
LEMMA TestHeard ==
    ASSUME NEW m, Shaped(m)
    PROVE  LET r == mrp_mrm_recv_ring_test(m) IN Heard(r, m) /\ r.mrm_state # "CHK_RO"
<1> DEFINE r == mrp_mrm_recv_ring_test(m)
<1> SUFFICES Heard(r, m) /\ r.mrm_state # "CHK_RO"
  OBVIOUS
<1>1. CASE m.mrm_state = "PRM_UP"
  <2> DEFINE a == RestartCount(m)
             b == mrp_ring_test_req(a)
  <2>1. r = mrp_set_mrm_state(b, "CHK_RC")
    BY Zenon, <1>1 DEF mrp_mrm_recv_ring_test
  <2> HIDE DEF r
  <2>2. Calm(a, m)
    BY Zenon, CountCalm
  <2> HIDE DEF a
  <2>3. Calm(b, m)
    BY Zenon, <2>2, CalmShaped, TestReqCalm, CalmTransitive
  <2> HIDE DEF b
  <2>4. MrmMoved(r, m, "CHK_RC")
    BY Zenon, <2>1, <2>3, CalmShaped, StateMoved, CalmThenMoved
  <2>. QED
    BY <2>4, MovedHeard
<1>2. CASE m.mrm_state = "CHK_RO"
  <2> DEFINE a == mrp_port_set_state(m, m.s_port, "BLOCKED")
             b == RestartCount(a)
             c == mrp_ring_test_req(b)
             time == IF m.react_on_link_change THEN 0 ELSE ring_topo_conf_interval
             d == mrp_ring_topo_req(c, time)
  <2>1. r = mrp_set_mrm_state(d, "CHK_RC")
    BY Zenon, <1>2 DEF mrp_mrm_recv_ring_test
  <2> HIDE DEF r, time
  <2>2. Calm(a, m)
    BY PortCalm
  <2> HIDE DEF a
  <2>3. Calm(b, m)
    BY Zenon, <2>2, CalmShaped, CountCalm, CalmTransitive
  <2> HIDE DEF b
  <2>4. Calm(c, m)
    BY Zenon, <2>3, CalmShaped, TestReqCalm, CalmTransitive
  <2> HIDE DEF c
  <2>5. Calm(d, m)
    BY Zenon, <2>4, CalmShaped, TopoReqCalm, CalmTransitive
  <2> HIDE DEF d
  <2>6. MrmMoved(r, m, "CHK_RC")
    BY Zenon, <2>1, <2>5, CalmShaped, StateMoved, CalmThenMoved
  <2>. QED
    BY <2>6, MovedHeard
<1>3. CASE m.mrm_state = "CHK_RC"
  <2> DEFINE a == RestartCount(m)
  <2>1. r = [a EXCEPT !.no_tc = FALSE]
    BY Zenon, <1>3 DEF mrp_mrm_recv_ring_test
  <2> HIDE DEF r
  <2>2. Calm(a, m)
    BY Zenon, CountCalm
  <2> HIDE DEF a
  <2>3. Calm(r, m)
    BY Zenon, <2>1, <2>2, CalmShaped, CountCalm, CalmTransitive
  <2>. QED
    BY <1>3, <2>3, MovedHeard
<1>4. CASE m.mrm_state \notin {"PRM_UP", "CHK_RO", "CHK_RC"}
  <2>1. r = m
    BY <1>4 DEF mrp_mrm_recv_ring_test
  <2> HIDE DEF r
  <2>. QED
    BY <1>4, <2>1, CalmReflexive, MovedHeard
<1>. QED
  BY <1>1, <1>2, <1>3, <1>4

\* A probe on behalf of an announcement.
LEMMA ProbeCalm ==
    ASSUME NEW m, Shaped(m)
    PROVE  Calm(ProbeOnce(m), m)
<1> DEFINE a == [m EXCEPT !.add_test = TRUE]
<1>1. ProbeOnce(m) = m \/ ProbeOnce(m) = mrp_ring_test_req(a)
  BY Zenon DEF ProbeOnce
<1>2. Calm(a, m)
  BY Zenon, CountCalm
<1> HIDE DEF a
<1>3. Calm(mrp_ring_test_req(a), m)
  BY Zenon, <1>2, CalmShaped, TestReqCalm, CalmTransitive
<1>. QED
  BY Zenon, <1>1, <1>3, CalmReflexive

\* Of a client's announcements only that of a lost link makes a manager open its ring.
LEMMA LinkHeard ==
    ASSUME NEW m, Shaped(m), NEW type \in {"RING_LINK_UP", "RING_LINK_DOWN"}
    PROVE  LET r == mrp_recv_ring_link(m, type)
           IN  /\ Heard(r, m)
               /\ type = "RING_LINK_UP" /\ r.mrm_state = "CHK_RO" => m.mrm_state = "CHK_RO"
<1> DEFINE r == mrp_recv_ring_link(m, type)
           Good1(x) == /\ Heard(x, m)
                       /\ type = "RING_LINK_UP" /\ x.mrm_state = "CHK_RO" => m.mrm_state = "CHK_RO"
<1> SUFFICES Good1(r)
  OBVIOUS
<1>1. ASSUME NEW x, Calm(x, m) PROVE Good1(x)
  BY Zenon, <1>1, MovedHeard
<1>2. ASSUME NEW x, MrmMoved(x, m, "CHK_RC") PROVE Good1(x)
  BY <1>2, MovedHeard
<1>3. ASSUME NEW x, MrmMoved(x, m, "CHK_RO"), type = "RING_LINK_DOWN" PROVE Good1(x)
  BY <1>3, MovedHeard
<1> HIDE DEF Good1
<1>4. Calm(ProbeOnce(m), m) /\ Calm(m, m)
  BY ProbeCalm, CalmReflexive
<1>5. CASE m.mrm_state = "PRM_UP"
  <2>1. r = m \/ r = ProbeOnce(m) \/ r = mrp_ring_topo_req(ProbeOnce(m), 0)
    BY Zenon, <1>5 DEF mrp_recv_ring_link, mrp_recv_ring_link_PRM_UP
  <2> HIDE DEF r
  <2>2. Calm(mrp_ring_topo_req(ProbeOnce(m), 0), m)
    BY Zenon, <1>4, CalmShaped, TopoReqCalm, CalmTransitive
  <2>. QED
    BY Zenon, <1>1, <1>4, <2>1, <2>2
<1>6. CASE m.mrm_state = "CHK_RO"
  <2> DEFINE a == mrp_port_set_state(m, m.s_port, "BLOCKED")
             b == RestartCount(a)
             c == mrp_ring_test_req(b)
             d == [c EXCEPT !.add_test = TRUE]
             e == mrp_ring_topo_req(d, 0)
  <2>1. r = ProbeOnce(m) \/ r = mrp_set_mrm_state(e, "CHK_RC")
    BY Zenon, <1>6 DEF mrp_recv_ring_link, mrp_recv_ring_link_CHK_RO
  <2> HIDE DEF r
  <2>2. Calm(a, m)
    BY PortCalm
  <2> HIDE DEF a
  <2>3. Calm(b, m)
    BY Zenon, <2>2, CalmShaped, CountCalm, CalmTransitive
  <2> HIDE DEF b
  <2>4. Calm(c, m)
    BY Zenon, <2>3, CalmShaped, TestReqCalm, CalmTransitive
  <2> HIDE DEF c
  <2>5. Calm(d, m)
    BY Zenon, <2>4, CalmShaped, CountCalm, CalmTransitive
  <2> HIDE DEF d
  <2>6. Calm(e, m)
    BY Zenon, <2>5, CalmShaped, TopoReqCalm, CalmTransitive
  <2> HIDE DEF e
  <2>7. MrmMoved(mrp_set_mrm_state(e, "CHK_RC"), m, "CHK_RC")
    BY Zenon, <2>6, CalmShaped, StateMoved, CalmThenMoved
  <2>. QED
    BY Zenon, <1>1, <1>2, <1>4, <2>1, <2>7
<1>7. CASE m.mrm_state = "CHK_RC"
  <2> DEFINE a == mrp_port_set_state(m, m.s_port, "FORWARDING")
             b == mrp_ring_topo_req(a, 0)
             c == mrp_set_mrm_state(b, "CHK_RO")
             d == [m EXCEPT !.ring_test_curr_max = ring_test_conf_max - 1]
             e == mrp_ring_topo_req(d, 0)
  <2>1. r = m \/ r = ProbeOnce(m) \/ (r = c /\ type = "RING_LINK_DOWN") \/ r = e
    <3>1. r = mrp_recv_ring_link_CHK_RC(m, type)
      BY Zenon, <1>7 DEF mrp_recv_ring_link
    <3> HIDE DEF r
    <3>. QED
      BY Zenon, <3>1 DEF mrp_recv_ring_link_CHK_RC
  <2> HIDE DEF r
  <2>2. Calm(a, m)
    BY PortCalm
  <2> HIDE DEF a
  <2>3. Calm(b, m)
    BY Zenon, <2>2, CalmShaped, TopoReqCalm, CalmTransitive
  <2> HIDE DEF b
  <2>4. MrmMoved(c, m, "CHK_RO")
    BY Zenon, <2>3, CalmShaped, StateMoved, CalmThenMoved
  <2> HIDE DEF c
  <2>5. Calm(d, m)
    BY Zenon, CountCalm
  <2> HIDE DEF d
  <2>6. Calm(e, m)
    BY Zenon, <2>5, CalmShaped, TopoReqCalm, CalmTransitive
  <2> HIDE DEF e
  <2>. QED
    BY Zenon, <1>1, <1>3, <1>4, <2>1, <2>4, <2>6
<1>8. CASE m.mrm_state \notin {"PRM_UP", "CHK_RO", "CHK_RC"}
  <2>1. r = m
    BY <1>8 DEF mrp_recv_ring_link
  <2> HIDE DEF r
  <2>. QED
    BY Zenon, <1>1, <1>4, <2>1
<1>. QED
  BY <1>5, <1>6, <1>7, <1>8

\* A manager that considers its ring open after a test interval has just probed it.
LEMMA TestTimerHeard ==
    ASSUME NEW m \in Instance
    PROVE  LET r == mrp_mrm_ring_test_expired(m)
           IN  Heard(r, m) /\ (r.mrm_state = "CHK_RO" => TestSent(r, m))
<1> DEFINE r == mrp_mrm_ring_test_expired(m)
<1> SUFFICES Heard(r, m) /\ (r.mrm_state = "CHK_RO" => TestSent(r, m))
  OBVIOUS
<1> DEFINE silent == m.ring_test_curr >= m.ring_test_curr_max
<1>0. Shaped(m) /\ (m.ring_test_curr < m.ring_test_curr_max <=> ~silent)
  BY SMTT(30), InstanceShaped DEF Instance
<1>1. ASSUME NEW a, Calm(a, m)
      PROVE  LET b == mrp_ring_test_req(a) IN Calm(b, m) /\ TestSent(b, m)
  <2> DEFINE b == mrp_ring_test_req(a)
  <2>1. Calm(b, a) /\ TestSent(b, a)
    BY Zenon, <1>1, CalmShaped, TestReqCalm
  <2> HIDE DEF b
  <2>2. Calm(b, m)
    BY <1>1, <2>1, CalmTransitive
  <2>3. TestSent(b, m)
    BY Zenon, <1>1, <2>1 DEF TestSent, OwnTest, BothPorts, Calm, Still, Keeps
  <2>. QED
    BY Zenon, <2>2, <2>3 DEF b
<1>2. CASE m.mrm_state \in {"PRM_UP", "CHK_RO"}
  <2> DEFINE a == [m EXCEPT !.add_test = FALSE]
  <2>1. r = mrp_ring_test_req(a)
    BY Zenon, <1>2 DEF mrp_mrm_ring_test_expired
  <2> HIDE DEF r
  <2>2. Calm(a, m)
    BY Zenon, <1>0, CountCalm
  <2> HIDE DEF a
  <2>. QED
    BY Zenon, <1>1, <2>1, <2>2, MovedHeard
<1>3. CASE m.mrm_state = "CHK_RC" /\ silent
  <2> DEFINE a == mrp_port_set_state(m, m.s_port, "FORWARDING")
             b == RestartCount(a)
             c == [b EXCEPT !.add_test = FALSE]
             d == IF m.no_tc THEN c ELSE mrp_ring_topo_req(c, ring_topo_conf_interval)
             e == mrp_ring_test_req(d)
  <2>1. r = mrp_set_mrm_state(e, "CHK_RO")
    <3>1. r = OpenRing(m)
      BY Zenon, <1>0, <1>3 DEF mrp_mrm_ring_test_expired
    <3>. QED
      BY Zenon, <3>1 DEF OpenRing
  <2> HIDE DEF r
  <2>2. Calm(a, m)
    BY <1>0, PortCalm
  <2> HIDE DEF a
  <2>3. Calm(b, m)
    BY Zenon, <2>2, CalmShaped, CountCalm, CalmTransitive
  <2> HIDE DEF b
  <2>4. Calm(c, m)
    BY Zenon, <2>3, CalmShaped, CountCalm, CalmTransitive
  <2> HIDE DEF c
  <2>5. Calm(d, m)
    BY Zenon, <2>4, CalmShaped, TopoReqCalm, CalmTransitive
  <2> HIDE DEF d
  <2>6. Calm(e, m) /\ TestSent(e, m)
    BY Zenon, <1>1, <2>5
  <2> HIDE DEF e
  <2>7. MrmMoved(r, e, "CHK_RO")
    BY Zenon, <2>1, <2>6, CalmShaped, StateMoved
  <2>8. Heard(r, m)
    BY Zenon, <2>6, <2>7, CalmThenMoved, MovedHeard
  <2>9. TestSent(r, m)
    BY Zenon, <2>6, <2>7 DEF TestSent, MrmMoved, Keeps
  <2>. QED
    BY <2>8, <2>9
<1>4. CASE m.mrm_state = "CHK_RC" /\ ~silent
  <2> DEFINE a == [m EXCEPT !.ring_test_curr = @ + 1, !.add_test = FALSE]
  <2>1. r = mrp_ring_test_req(a)
    BY Zenon, <1>0, <1>4 DEF mrp_mrm_ring_test_expired
  <2> HIDE DEF r
  <2>2. Calm(a, m)
    BY Zenon, <1>0, CountCalm
  <2> HIDE DEF a
  <2>. QED
    BY Zenon, <1>1, <2>1, <2>2, MovedHeard
<1>5. CASE m.mrm_state \notin {"PRM_UP", "CHK_RO", "CHK_RC"}
  <2>1. r = m
    BY <1>5 DEF mrp_mrm_ring_test_expired
  <2> HIDE DEF r
  <2>. QED
    BY <1>0, <1>5, <2>1, CalmReflexive, MovedHeard
<1>. QED
  BY <1>2, <1>3, <1>4, <1>5

\* mrp_ring_topo_expired: one announcement more, or the last one.
LEMMA TopoTimerCalm ==
    ASSUME NEW m, Shaped(m)
    PROVE  Calm(mrp_ring_topo_expired(m), m)
<1> DEFINE a == mrp_ring_topo_send(m, m.ring_topo_curr_max * ring_topo_conf_interval)
           k == a.ring_topo_curr_max - 1
           r1 == [a EXCEPT !.ring_topo_curr_max = k]
           b == [m EXCEPT !.ring_topo_curr_max = ring_topo_conf_max - 1]
           c == ifdriver_flush(b)
           d == mrp_ring_topo_send(c, 0)
           r2 == mrp_ring_topo_stop(d)
<1>1. mrp_ring_topo_expired(m) = r1 \/ mrp_ring_topo_expired(m) = r2
  BY Zenon DEF mrp_ring_topo_expired
<1>2. Calm(a, m)
  BY Zenon, AnnounceCalm
<1> HIDE DEF a, k
<1>3. Calm(r1, m)
  <2>1. Calm(r1, a)
    BY Zenon, <1>2, CalmShaped, CountCalm
  <2>. QED
    BY <1>2, <2>1, CalmTransitive
<1> HIDE DEF r1
<1>4. Calm(b, m)
  BY Zenon, CountCalm
<1> HIDE DEF b
<1>5. Calm(c, m)
  BY Zenon, <1>4, CalmShaped, CountCalm, CalmTransitive
<1> HIDE DEF c
<1>6. Calm(d, m)
  BY Zenon, <1>5, CalmShaped, AnnounceCalm, CalmTransitive
<1> HIDE DEF d
<1>7. Calm(r2, m)
  BY Zenon, <1>6, CalmShaped, CycleCalm, CalmTransitive
<1> HIDE DEF r2
<1>. QED
  BY Zenon, <1>1, <1>3, <1>7

-----------------------------------------------------------------------------
(***************************************************************************)
(* The client.                                                             *)
(***************************************************************************)
\* The links that a client's state stands for: it waits for its second link in DE_IDLE
\* and DE, and for both in AC_STAT1.
LinksMatch(m) ==
    /\ m.mrc_state \in {"AC_STAT1", "DE_IDLE", "DE"} => m.operstate[m.s_port] # "UP"
    /\ m.mrc_state = "AC_STAT1" => m.operstate[m.p_port] # "UP"

\* The client moves to state s and keeps its links and ports.
Placed(r, m, s) ==
    Keeps(r, m) /\ r.p_port = m.p_port /\ r.s_port = m.s_port /\ r.mrc_state = s

\* Where a client may move without a change of its links.
LEMMA PlacedMatches ==
    ASSUME NEW m, NEW r
    PROVE  /\ Still(r, m) => Placed(r, m, m.mrc_state)
           /\ Placed(r, m, m.mrc_state) /\ LinksMatch(m) => LinksMatch(r)
           /\ Placed(r, m, "PT") \/ Placed(r, m, "PT_IDLE") => LinksMatch(r)
           /\ Placed(r, m, "DE_IDLE") /\ m.mrc_state = "DE" /\ LinksMatch(m) => LinksMatch(r)
<1>1. Still(r, m) => Placed(r, m, m.mrc_state)
  BY Zenon DEF Still, Placed
<1>2. Placed(r, m, m.mrc_state) /\ LinksMatch(m) => LinksMatch(r)
  BY Zenon DEF Placed, Keeps, LinksMatch
<1>3. Placed(r, m, "PT") \/ Placed(r, m, "PT_IDLE") => LinksMatch(r)
  BY DEF Placed, LinksMatch
<1>4. Placed(r, m, "DE_IDLE") /\ m.mrc_state = "DE" /\ LinksMatch(m) => LinksMatch(r)
  BY DEF Placed, Keeps, LinksMatch
<1>. QED
  BY <1>1, <1>2, <1>3, <1>4

\* Operations that keep the fields before and after the move.
LEMMA PlacedBetween ==
    ASSUME NEW m, NEW a, NEW r, NEW s
    PROVE  /\ Still(a, m) /\ Still(r, a) => Still(r, m)
           /\ Still(a, m) /\ MrcMoved(r, a, s) => Placed(r, m, s)
           /\ MrcMoved(a, m, s) /\ Calm(r, a) => MrcMoved(r, m, s)
           /\ MrcMoved(r, m, s) => Heard(r, m) /\ Placed(r, m, s)
<1>1. Still(a, m) /\ Still(r, a) => Still(r, m)
  BY Zenon DEF Still, Keeps
<1>2. Still(a, m) /\ MrcMoved(r, a, s) => Placed(r, m, s)
  BY Zenon DEF Still, MrcMoved, Placed, Keeps
<1>3. MrcMoved(a, m, s) /\ Calm(r, a) => MrcMoved(r, m, s)
  BY Zenon DEF Calm, Still, MrcMoved, Keeps, Quiet
<1>4. MrcMoved(r, m, s) => Heard(r, m) /\ Placed(r, m, s)
  BY Zenon DEF MrcMoved, Heard, Placed
<1>. QED
  BY <1>1, <1>2, <1>3, <1>4

\* mrp_mrc_recv_ring_topo.
LEMMA TopoHeard ==
    ASSUME NEW m, Shaped(m), NEW interval
    PROVE  LET r == mrp_mrc_recv_ring_topo(m, interval)
           IN  Heard(r, m) /\ (LinksMatch(m) => LinksMatch(r))
<1> DEFINE r == mrp_mrc_recv_ring_topo(m, interval)
<1> SUFFICES Heard(r, m) /\ (LinksMatch(m) => LinksMatch(r))
  OBVIOUS
<1>1. Calm(RestartLink(m), m)
  BY Zenon, CountCalm
<1>2. ASSUME NEW x, Calm(x, m) PROVE Heard(x, m) /\ (LinksMatch(m) => LinksMatch(x))
  BY Zenon, <1>2, MovedHeard, PlacedMatches DEF Calm
<1>3. ASSUME NEW x, NEW s, MrcMoved(x, m, s), s = "PT_IDLE" \/ (s = "DE_IDLE" /\ m.mrc_state = "DE")
      PROVE  Heard(x, m) /\ (LinksMatch(m) => LinksMatch(x))
  BY Zenon, <1>3, PlacedBetween, PlacedMatches
<1>4. CASE m.mrc_state \in {"DE_IDLE", "PT_IDLE"}
  <2>1. r = mrp_clear_fdb_start(m, interval)
    BY Zenon, <1>4 DEF mrp_mrc_recv_ring_topo
  <2> HIDE DEF r
  <2>. QED
    BY Zenon, <1>2, <2>1, CycleCalm
<1>5. CASE m.mrc_state = "PT"
  <2> DEFINE a == RestartLink(m)
             b == ev_timer_stop(a, "ring_link_up")
             c == mrp_port_set_state(b, m.s_port, "FORWARDING")
             d == mrp_clear_fdb_start(c, interval)
  <2>1. r = mrp_set_mrc_state(d, "PT_IDLE")
    BY Zenon, <1>5 DEF mrp_mrc_recv_ring_topo
  <2> HIDE DEF r, a
  <2>2. Calm(b, m)
    BY Zenon, <1>1, CalmShaped, TimerCalm, CalmTransitive DEF a
  <2> HIDE DEF b
  <2>3. Calm(c, m)
    BY Zenon, <2>2, CalmShaped, PortCalm, CalmTransitive
  <2> HIDE DEF c
  <2>4. Calm(d, m)
    BY Zenon, <2>3, CalmShaped, CycleCalm, CalmTransitive
  <2> HIDE DEF d
  <2>5. MrcMoved(r, m, "PT_IDLE")
    BY Zenon, <2>1, <2>4, CalmShaped, StateMoved, CalmThenMoved
  <2>. QED
    BY Zenon, <1>3, <2>5
<1>6. CASE m.mrc_state = "DE"
  <2> DEFINE a == RestartLink(m)
             b == ev_timer_stop(a, "ring_link_down")
             c == mrp_clear_fdb_start(b, interval)
  <2>1. r = mrp_set_mrc_state(c, "DE_IDLE")
    BY Zenon, <1>6 DEF mrp_mrc_recv_ring_topo
  <2> HIDE DEF r, a
  <2>2. Calm(b, m)
    BY Zenon, <1>1, CalmShaped, TimerCalm, CalmTransitive DEF a
  <2> HIDE DEF b
  <2>3. Calm(c, m)
    BY Zenon, <2>2, CalmShaped, CycleCalm, CalmTransitive
  <2> HIDE DEF c
  <2>4. MrcMoved(r, m, "DE_IDLE")
    BY Zenon, <2>1, <2>3, CalmShaped, StateMoved, CalmThenMoved
  <2>. QED
    BY Zenon, <1>3, <1>6, <2>4
<1>7. CASE m.mrc_state \notin {"DE_IDLE", "PT_IDLE", "PT", "DE"}
  <2>1. r = m
    BY <1>7 DEF mrp_mrc_recv_ring_topo
  <2> HIDE DEF r
  <2>. QED
    BY Zenon, <1>2, <2>1, CalmReflexive
<1>. QED
  BY <1>4, <1>5, <1>6, <1>7

\* mrp_ring_link_up_expired, in PT.
LEMMA LinkUpTimerHeard ==
    ASSUME NEW m, Shaped(m), m.mrc_state = "PT"
    PROVE  LET r == mrp_ring_link_up_expired(m) IN Heard(r, m) /\ LinksMatch(r)
<1> DEFINE r == mrp_ring_link_up_expired(m)
           k == m.ring_link_curr_max - 1
           a == [m EXCEPT !.ring_link_curr_max = k]
           b == ev_timer_again(a, "ring_link_up")
           c == RestartLink(m)
           d == mrp_port_set_state(c, m.s_port, "FORWARDING")
           e == mrp_set_mrc_state(d, "PT_IDLE")
<1> SUFFICES Heard(r, m) /\ LinksMatch(r)
  OBVIOUS
<1>1. r = mrp_ring_link_req(b, TRUE) \/ r = ev_timer_stop(e, "ring_link_up")
  BY Zenon DEF mrp_ring_link_up_expired
<1> HIDE DEF r, k
<1>2. Calm(a, m)
  BY Zenon, CountCalm
<1> HIDE DEF a
<1>3. Calm(b, m)
  BY Zenon, <1>2, CalmShaped, TimerCalm, CalmTransitive
<1> HIDE DEF b
<1>4. Calm(mrp_ring_link_req(b, TRUE), m)
  BY Zenon, <1>3, CalmShaped, AnnounceCalm, CalmTransitive
<1>5. Calm(c, m)
  BY Zenon, CountCalm
<1> HIDE DEF c
<1>6. Calm(d, m)
  BY Zenon, <1>5, CalmShaped, PortCalm, CalmTransitive
<1> HIDE DEF d
<1>7. MrcMoved(e, m, "PT_IDLE")
  BY Zenon, <1>6, CalmShaped, StateMoved, CalmThenMoved
<1> HIDE DEF e
<1>8. MrcMoved(ev_timer_stop(e, "ring_link_up"), m, "PT_IDLE")
  <2>1. Shaped(e)
    BY Zenon, <1>7 DEF MrcMoved, Keeps
  <2>. QED
    BY Zenon, <1>7, <2>1, TimerCalm, PlacedBetween
<1>9. CASE r = mrp_ring_link_req(b, TRUE)
  <2>1. Calm(r, m)
    BY Zenon, <1>4, <1>9
  <2>2. LinksMatch(m)
    BY DEF LinksMatch
  <2>. QED
    BY <2>1, <2>2, MovedHeard, PlacedMatches DEF Calm
<1>10. CASE r = ev_timer_stop(e, "ring_link_up")
  <2>1. MrcMoved(r, m, "PT_IDLE")
    BY <1>8, <1>10
  <2>2. Heard(r, m) /\ Placed(r, m, "PT_IDLE")
    BY <2>1, PlacedBetween
  <2>. QED
    BY <2>2, PlacedMatches
<1>. QED
  BY Zenon, <1>1, <1>9, <1>10

\* mrp_ring_link_down_expired, in DE.
LEMMA LinkDownTimerKeeps ==
    ASSUME NEW m, Shaped(m), m.mrc_state = "DE", LinksMatch(m)
    PROVE  LET r == mrp_ring_link_down_expired(m) IN Keeps(r, m) /\ LinksMatch(r)
<1> DEFINE r == mrp_ring_link_down_expired(m)
           k == m.ring_link_curr_max - 1
           a == [m EXCEPT !.ring_link_curr_max = k]
           b == ev_timer_again(a, "ring_link_down")
           c == RestartLink(m)
           d == mrp_set_mrc_state(c, "DE_IDLE")
<1> SUFFICES Keeps(r, m) /\ LinksMatch(r)
  OBVIOUS
<1>1. r = mrp_ring_link_req(b, FALSE) \/ r = ev_timer_stop(d, "ring_link_down")
  BY Zenon DEF mrp_ring_link_down_expired
<1> HIDE DEF r, k
<1>2. Calm(a, m)
  BY Zenon, CountCalm
<1> HIDE DEF a
<1>3. Calm(b, m)
  BY Zenon, <1>2, CalmShaped, TimerCalm, CalmTransitive
<1> HIDE DEF b
<1>4. Still(mrp_ring_link_req(b, FALSE), m)
  BY Zenon, <1>3, CalmShaped, AnnounceCalm, PlacedBetween DEF Calm
<1>5. Calm(c, m)
  BY Zenon, CountCalm
<1> HIDE DEF c
<1>6. MrcMoved(d, m, "DE_IDLE")
  BY Zenon, <1>5, CalmShaped, StateMoved, CalmThenMoved
<1> HIDE DEF d
<1>7. MrcMoved(ev_timer_stop(d, "ring_link_down"), m, "DE_IDLE")
  <2>1. Shaped(d)
    BY Zenon, <1>6 DEF MrcMoved, Keeps
  <2>. QED
    BY Zenon, <1>6, <2>1, TimerCalm, PlacedBetween
<1>8. CASE r = mrp_ring_link_req(b, FALSE)
  <2>1. Still(r, m)
    BY Zenon, <1>4, <1>8
  <2>. QED
    BY <2>1, PlacedMatches DEF Still
<1>9. CASE r = ev_timer_stop(d, "ring_link_down")
  <2>1. MrcMoved(r, m, "DE_IDLE")
    BY <1>7, <1>9
  <2>2. Heard(r, m) /\ Placed(r, m, "DE_IDLE")
    BY <2>1, PlacedBetween
  <2>. QED
    BY <2>2, PlacedMatches DEF Heard
<1>. QED
  BY Zenon, <1>1, <1>8, <1>9

\* What a client announces, and the state it waits in.
LEMMA AnnounceMoves ==
    ASSUME NEW m, Shaped(m)
    PROVE  Placed(AnnounceUp(m), m, "PT") /\ Placed(AnnounceDown(m), m, "DE")
<1> DEFINE a == RestartLink(m)
           b == ev_timer_again(a, "ring_link_up")
           c == mrp_ring_link_req(b, TRUE)
           d == mrp_port_set_state(a, m.s_port, "BLOCKED")
           e == ev_timer_again(d, "ring_link_down")
           f == mrp_ring_link_req(e, FALSE)
<1>1. /\ AnnounceUp(m) = mrp_set_mrc_state(c, "PT")
      /\ AnnounceDown(m) = mrp_set_mrc_state(f, "DE")
  BY Zenon DEF AnnounceUp, AnnounceDown
<1>2. Calm(a, m)
  BY Zenon, CountCalm
<1> HIDE DEF a
<1>3. Calm(b, m)
  BY Zenon, <1>2, CalmShaped, TimerCalm, CalmTransitive
<1> HIDE DEF b
<1>4. Calm(c, m)
  BY Zenon, <1>3, CalmShaped, AnnounceCalm, CalmTransitive
<1> HIDE DEF c
<1>5. Calm(d, m)
  BY Zenon, <1>2, CalmShaped, PortCalm, CalmTransitive
<1> HIDE DEF d
<1>6. Calm(e, m)
  BY Zenon, <1>5, CalmShaped, TimerCalm, CalmTransitive
<1> HIDE DEF e
<1>7. Still(f, m)
  BY Zenon, <1>6, CalmShaped, AnnounceCalm, PlacedBetween DEF Calm
<1> HIDE DEF f
<1>8. Shaped(c) /\ Shaped(f)
  BY Zenon, <1>4, <1>7 DEF Calm, Still, Keeps
<1>9. /\ MrcMoved(mrp_set_mrc_state(c, "PT"), c, "PT")
      /\ MrcMoved(mrp_set_mrc_state(f, "DE"), f, "DE")
  BY <1>8, StateMoved
<1>10. Placed(mrp_set_mrc_state(c, "PT"), m, "PT")
  BY <1>4, <1>9, PlacedBetween DEF Calm
<1>11. Placed(mrp_set_mrc_state(f, "DE"), m, "DE")
  BY <1>7, <1>9, PlacedBetween
<1>. QED
  BY Zenon, <1>1, <1>10, <1>11

\* The ports change roles; links and states stay.
Turned(r, m, p, s) ==
    /\ Shaped(r) /\ r.operstate = m.operstate /\ r.mrc_state = m.mrc_state
    /\ r.p_port = p /\ r.s_port = s

\* Promote and Demote.
LEMMA PortsTurned ==
    ASSUME NEW m, Shaped(m), NEW p
    PROVE  /\ p # m.p_port => Turned(Promote(m, p), m, p, m.p_port)
           /\ p = m.p_port => Promote(m, p) = m
           /\ Turned(Demote(m, p), m, m.s_port, p)
<1>1. p # m.p_port => Turned(Promote(m, p), m, p, m.p_port)
  BY ZenonT(40) DEF Promote, Turned, Shaped
<1>2. p = m.p_port => Promote(m, p) = m
  BY Zenon DEF Promote
<1>3. Turned(Demote(m, p), m, m.s_port, p)
  BY ZenonT(40) DEF Demote, Turned, Shaped
<1>. QED
  BY <1>1, <1>2, <1>3

\* mrp_mrc_port_link, once the new state of port p is recorded: in every case the state
\* that the client moves to fits its links.
LEMMA PortLinkMatches ==
    ASSUME NEW m, Shaped(m), NEW p \in RingPort, NEW up \in BOOLEAN,
           m.p_port \in RingPort, m.s_port \in RingPort, m.p_port # m.s_port,
           m.mrc_state \in MrcState,
           m.operstate[p] = IF up THEN "UP" ELSE "DOWN",
           m.mrc_state \in {"AC_STAT1", "DE_IDLE", "DE"} /\ p # m.s_port =>
               m.operstate[m.s_port] # "UP",
           m.mrc_state = "AC_STAT1" /\ p # m.p_port => m.operstate[m.p_port] # "UP"
    PROVE  LinksMatch(mrp_mrc_port_link(m, p, up))
<1> DEFINE r == mrp_mrc_port_link(m, p, up)
<1> SUFFICES LinksMatch(r)
  OBVIOUS
<1>1. p = m.p_port \/ p = m.s_port
  BY DEF RingPort
<1>2. ASSUME NEW x, NEW s, Calm(x, m)
      PROVE  Placed(mrp_set_mrc_state(x, s), m, s)
  BY Zenon, <1>2, CalmShaped, StateMoved, CalmThenMoved, PlacedBetween
<1>3. CASE m.mrc_state = "AC_STAT1" /\ up
  <2> DEFINE a == Promote(m, p)
             b == mrp_port_set_state(a, p, "FORWARDING")
  <2>1. r = mrp_set_mrc_state(b, "DE_IDLE")
    BY Zenon, <1>3 DEF mrp_mrc_port_link
  <2> HIDE DEF r
  <2>2. Shaped(a) /\ a.operstate = m.operstate /\ m.operstate[a.s_port] # "UP"
    BY Zenon, <1>1, <1>3, PortsTurned DEF Turned
  <2> HIDE DEF a
  <2>3. Calm(b, a)
    BY <2>2, PortCalm
  <2> HIDE DEF b
  <2>4. Placed(r, a, "DE_IDLE")
    BY Zenon, <2>1, <2>3, CalmShaped, StateMoved, CalmThenMoved, PlacedBetween
  <2>. QED
    BY <2>2, <2>4 DEF Placed, Keeps, LinksMatch
<1>4. CASE m.mrc_state = "DE_IDLE" /\ up /\ p # m.p_port
  <2>1. r = AnnounceUp(m)
    BY <1>4 DEF mrp_mrc_port_link
  <2> HIDE DEF r
  <2>. QED
    BY <2>1, AnnounceMoves, PlacedMatches
<1>5. CASE m.mrc_state = "DE_IDLE" /\ ~up /\ p = m.p_port
  <2> DEFINE a == mrp_port_set_state(m, p, "BLOCKED")
  <2>1. r = mrp_set_mrc_state(a, "AC_STAT1")
    BY Zenon, <1>5 DEF mrp_mrc_port_link
  <2> HIDE DEF r
  <2>2. Calm(a, m)
    BY PortCalm
  <2> HIDE DEF a
  <2>3. Placed(r, m, "AC_STAT1")
    BY Zenon, <1>2, <2>1, <2>2
  <2>. QED
    BY <1>5, <2>3 DEF Placed, Keeps, LinksMatch
<1>6. CASE m.mrc_state = "PT" /\ ~up /\ p # m.p_port
  <2> DEFINE a == ev_timer_stop(m, "ring_link_up")
  <2>1. r = AnnounceDown(a)
    BY Zenon, <1>6 DEF mrp_mrc_port_link
  <2> HIDE DEF r
  <2>2. Calm(a, m)
    BY TimerCalm
  <2> HIDE DEF a
  <2>3. Placed(r, a, "DE")
    BY <2>1, <2>2, CalmShaped, AnnounceMoves
  <2>4. r.operstate = m.operstate /\ r.s_port = m.s_port /\ r.mrc_state = "DE"
    BY Zenon, <2>2, <2>3 DEF Placed, Calm, Still, Keeps
  <2>. QED
    BY <1>1, <1>6, <2>4 DEF LinksMatch
<1>7. CASE m.mrc_state = "PT" /\ ~up /\ p = m.p_port
  <2> DEFINE a == ev_timer_stop(m, "ring_link_up")
             b == Demote(a, p)
             c == mrp_port_set_state(b, m.s_port, "FORWARDING")
  <2>1. r = AnnounceDown(c)
    BY Zenon, <1>7 DEF mrp_mrc_port_link
  <2> HIDE DEF r
  <2>2. Calm(a, m)
    BY TimerCalm
  <2> HIDE DEF a
  <2>3. Turned(b, a, a.s_port, p)
    BY <2>2, CalmShaped, PortsTurned
  <2> HIDE DEF b
  <2>4. Calm(c, b)
    BY <2>3, PortCalm DEF Turned
  <2> HIDE DEF c
  <2>5. Placed(r, c, "DE")
    BY <2>1, <2>4, CalmShaped, AnnounceMoves
  <2>6. r.operstate = m.operstate /\ r.s_port = p /\ r.mrc_state = "DE"
    BY Zenon, <2>2, <2>3, <2>4, <2>5 DEF Placed, Turned, Calm, Still, Keeps
  <2>. QED
    BY <1>7, <2>6 DEF LinksMatch
<1>8. CASE m.mrc_state = "DE" /\ up /\ p # m.p_port
  <2> DEFINE a == ev_timer_stop(m, "ring_link_down")
  <2>1. r = AnnounceUp(a)
    BY Zenon, <1>8 DEF mrp_mrc_port_link
  <2> HIDE DEF r
  <2>2. Calm(a, m)
    BY TimerCalm
  <2> HIDE DEF a
  <2>. QED
    BY <2>1, <2>2, CalmShaped, AnnounceMoves, PlacedMatches
<1>9. CASE m.mrc_state = "DE" /\ ~up /\ p = m.p_port
  <2> DEFINE a == RestartLink(m)
             b == mrp_port_set_state(a, p, "BLOCKED")
             c == ev_timer_stop(b, "ring_link_down")
  <2>1. r = mrp_set_mrc_state(c, "AC_STAT1")
    BY Zenon, <1>9 DEF mrp_mrc_port_link
  <2> HIDE DEF r
  <2>2. Calm(a, m)
    BY Zenon, CountCalm
  <2> HIDE DEF a
  <2>3. Calm(b, m)
    BY Zenon, <2>2, CalmShaped, PortCalm, CalmTransitive
  <2> HIDE DEF b
  <2>4. Calm(c, m)
    BY Zenon, <2>3, CalmShaped, TimerCalm, CalmTransitive
  <2> HIDE DEF c
  <2>5. Placed(r, m, "AC_STAT1")
    BY Zenon, <1>2, <2>1, <2>4
  <2>. QED
    BY <1>9, <2>5 DEF Placed, Keeps, LinksMatch
<1>10. CASE m.mrc_state = "PT_IDLE" /\ ~up /\ p # m.p_port
  <2>1. r = AnnounceDown(m)
    BY Zenon, <1>10 DEF mrp_mrc_port_link
  <2> HIDE DEF r
  <2>2. Placed(r, m, "DE")
    BY <2>1, AnnounceMoves
  <2>. QED
    BY <1>1, <1>10, <2>2 DEF Placed, Keeps, LinksMatch
<1>11. CASE m.mrc_state = "PT_IDLE" /\ ~up /\ p = m.p_port
  <2> DEFINE a == Demote(m, p)
  <2>1. r = AnnounceDown(a)
    BY Zenon, <1>11 DEF mrp_mrc_port_link
  <2> HIDE DEF r
  <2>2. Turned(a, m, m.s_port, p)
    BY PortsTurned
  <2> HIDE DEF a
  <2>3. Placed(r, a, "DE")
    BY <2>1, <2>2, AnnounceMoves DEF Turned
  <2>. QED
    BY <1>11, <2>2, <2>3 DEF Placed, Turned, Keeps, LinksMatch
<1>12. CASE \/ m.mrc_state = "AC_STAT1" /\ ~up
            \/ m.mrc_state \in {"DE_IDLE", "DE"} /\ (up <=> p = m.p_port)
            \/ m.mrc_state \in {"PT", "PT_IDLE"} /\ up
  <2>1. r = m
    BY <1>12 DEF mrp_mrc_port_link
  <2> HIDE DEF r
  <2>. QED
    BY <1>1, <1>12, <2>1 DEF LinksMatch
<1>. QED
  BY <1>3, <1>4, <1>5, <1>6, <1>7, <1>8, <1>9, <1>10, <1>11, <1>12 DEF MrcState

-----------------------------------------------------------------------------
(***************************************************************************)
(* One node: what holds of it between two callbacks, and what a callback   *)
(* does.                                                                   *)
(***************************************************************************)
NodeOK(m) == Good(m) /\ FixedRole(m) /\ m.tx = {} /\ (m.ring_role = "MRC" => LinksMatch(m))

\* The instance r in which a callback of an instance m ends.
NodeStep(r, m) ==
    /\ Good(r) /\ FixedRole(r) /\ r.ring_role = m.ring_role
    /\ r.ring_role = "MRC" => LinksMatch(r)

Linked(r, m) == r.operstate = m.operstate /\ r.macaddr = m.macaddr

Opened(m) == m.ring_role = "MRM" /\ m.mrm_state = "CHK_RO"

Silent(r) == \A e \in r.tx : e[2].type # "RING_LINK_DOWN"

\* The types used below.
LEMMA NodeTypes ==
    ASSUME NEW m, Good(m)
    PROVE  /\ Core(m) /\ Consistent(m) /\ m \in Instance /\ Shaped(m)
           /\ m.ring_role \in {"MRM", "MRC"} /\ m.mrm_state \in MrmState
           /\ m.p_port \in RingPort /\ m.s_port \in RingPort /\ m.p_port # m.s_port
           /\ BothPorts(m) = RingPort
           /\ m.tx \subseteq RingPort \X Frame
<1>1. Core(m) /\ Consistent(m) /\ m \in Instance /\ m.p_port # m.s_port
  BY DEF Good, Core
<1>2. Shaped(m)
  BY <1>1, InstanceShaped
<1>3. /\ m.ring_role \in {"MRM", "MRC"} /\ m.mrm_state \in MrmState
      /\ m.p_port \in RingPort /\ m.s_port \in RingPort
      /\ m.tx \subseteq RingPort \X Frame
  BY SMTT(30), <1>1 DEF Instance, RingRole
<1>4. BothPorts(m) = RingPort
  BY <1>1, <1>3 DEF BothPorts, RingPort
<1>. QED
  BY <1>1, <1>2, <1>3, <1>4

\* A step of the handlers, for an instance with a fixed role.
LEMMA StepIsNodeStep ==
    ASSUME NEW m, NodeOK(m), NEW r, Step(r, m), r.ring_role = "MRC" => LinksMatch(r)
    PROVE  NodeStep(r, m)
BY DEF NodeOK, NodeStep, Step, Good, FixedRole

\* Forgetting the outputs.
LEMMA IdleOK ==
    ASSUME NEW m, NEW r, NodeStep(r, m)
    PROVE  /\ NodeOK(Idle(r)) /\ Idle(r) \in Instance
           /\ Idle(r).ring_role = m.ring_role /\ Idle(r).mrm_state = r.mrm_state
           /\ Linked(Idle(r), r)
<1> DEFINE i == Idle(r)
<1>1. Core(r) /\ r \in Instance /\ Shaped(r)
  BY NodeTypes DEF NodeStep
<1>2. Same(i, r)
  BY <1>1, IdleKeeps
<1>3. i.tx = {} /\ i.operstate = r.operstate /\ i.macaddr = r.macaddr
  BY Zenon, <1>1 DEF Idle, Shaped
<1> HIDE DEF i
<1>4. Step(i, r)
  BY <1>1, <1>2, SameIsStep
<1>5. /\ i \in Instance /\ i.ring_role = r.ring_role /\ i.mrm_state = r.mrm_state
      /\ i.mrc_state = r.mrc_state /\ i.p_port = r.p_port /\ i.s_port = r.s_port
  BY <1>2 DEF Same, KeepsRole, KeepsPorts, KeepsManager, KeepsClient
<1>6. NodeOK(i)
  BY <1>3, <1>4, <1>5 DEF NodeOK, NodeStep, Step, Good, FixedRole, LinksMatch
<1>. QED
  BY <1>3, <1>5, <1>6 DEF i, NodeStep, Linked

\* mrp_port_link_change, in a client.
LEMMA LinkChangeMatches ==
    ASSUME NEW m, Core(m), m.ring_role = "MRC", LinksMatch(m), NEW p \in RingPort, NEW up \in BOOLEAN
    PROVE  LinksMatch(mrp_port_link_change(m, p, up))
<1> DEFINE s == IF up THEN "UP" ELSE "DOWN"
           seen == [m EXCEPT !.operstate = [@ EXCEPT ![p] = s]]
<1>1. mrp_port_link_change(m, p, up) = mrp_mrc_port_link(seen, p, up)
  BY Zenon DEF mrp_port_link_change
<1>2. m \in Instance /\ Shaped(m)
  BY CoreTypes, InstanceShaped
<1>3. /\ Shaped(seen) /\ seen.p_port = m.p_port /\ seen.s_port = m.s_port
      /\ seen.mrc_state = m.mrc_state
      /\ seen.operstate = [m.operstate EXCEPT ![p] = s]
  BY Zenon, <1>2 DEF Shaped
<1> HIDE DEF seen
<1>4. /\ seen.operstate[p] = s
      /\ \A q \in RingPort \ {p} : seen.operstate[q] = m.operstate[q]
  <2>1. m.operstate \in [RingPort -> OperState]
    BY SMTT(30), <1>2 DEF Instance
  <2> HIDE DEF s
  <2>. QED
    BY <1>3, <2>1
<1>5. /\ m.p_port \in RingPort /\ m.s_port \in RingPort /\ m.p_port # m.s_port
      /\ m.mrc_state \in MrcState
  BY CoreTypes
<1>6. /\ seen.mrc_state \in {"AC_STAT1", "DE_IDLE", "DE"} /\ p # seen.s_port =>
            seen.operstate[seen.s_port] # "UP"
      /\ seen.mrc_state = "AC_STAT1" /\ p # seen.p_port => seen.operstate[seen.p_port] # "UP"
  BY <1>3, <1>4, <1>5 DEF LinksMatch
<1>7. LinksMatch(mrp_mrc_port_link(seen, p, up))
  BY Zenon, <1>3, <1>4, <1>5, <1>6, PortLinkMatches
<1>. QED
  BY <1>1, <1>7
\* A frame arrives.  The role of the instance decides which of its handlers runs.
LEMMA NodeReceives ==
    ASSUME NEW m, NodeOK(m), NEW p \in RingPort, NEW f \in Frame
    PROVE  LET r == mrp_recv(m, p, f)
           IN  /\ NodeStep(r, m) /\ Linked(r, m)
               /\ f.type # "RING_LINK_DOWN" => Silent(r)
               /\ f.type # "RING_LINK_DOWN" /\ Opened(r) => Opened(m) /\ ~OwnTest(f, m)
               /\ m.ring_role = "MRC" /\ f.type = "RING_TEST" =>
                     \A q \in RingPort \ {p} : m.operstate[q] = "UP" => <<q, f>> \in r.tx
<1> DEFINE r == mrp_recv(m, p, f)
           a == mrp_check_and_forward(m, p, f)
           down == f.type = "RING_LINK_DOWN"
<1> SUFFICES /\ NodeStep(r, m) /\ Linked(r, m)
             /\ ~down => Silent(r)
             /\ ~down /\ Opened(r) => Opened(m) /\ ~OwnTest(f, m)
             /\ m.ring_role = "MRC" /\ f.type = "RING_TEST" =>
                   \A q \in RingPort \ {p} : m.operstate[q] = "UP" => <<q, f>> \in r.tx
  BY Zenon
<1>1. /\ Core(m) /\ Consistent(m) /\ Shaped(m) /\ BothPorts(m) = RingPort
      /\ m.ring_role \in {"MRM", "MRC"} /\ m.mrm_state \in MrmState
      /\ m.tx = {} /\ ~m.mra_support /\ m.in_role # "MIM"
  BY NodeTypes DEF NodeOK, FixedRole
<1>2. Step(r, m)
  BY <1>1, Received
<1>3. r = IF mrp_should_process(m, f.type) THEN mrp_process(a, f) ELSE a
  <2>1. ~mrp_should_drop(m, p, f.type)
    BY <1>1, FrameTypes DEF mrp_should_drop, Core
  <2>. QED
    BY Zenon, <2>1 DEF mrp_recv, mrp_process_frame
<1>4. /\ Still(a, m) /\ (~down => Quiet(a, m))
      /\ \A q \in ForwardPorts(m, p, f.type) : m.operstate[q] = "UP" => <<q, f>> \in a.tx
  BY Zenon, <1>1, SendStill DEF mrp_check_and_forward
<1>5a. Same(a, m)
  BY <1>1, ForwardKeeps
<1>5. r.ring_role = m.ring_role
  BY <1>2 DEF Step, NodeOK
<1> HIDE DEF r, a
<1>6. Shaped(a) /\ (~down => Calm(a, m)) /\ a.mrm_state = m.mrm_state /\ a.macaddr = m.macaddr
  BY <1>4 DEF Still, Keeps, Calm
<1>7. f.type \in RingFrameType
  BY FrameTypes
<1>8. ASSUME Keeps(r, a), ~down => Quiet(r, a),
             r.ring_role = "MRC" => LinksMatch(r),
             ~down /\ m.ring_role = "MRM" /\ r.mrm_state = "CHK_RO" =>
                 m.mrm_state = "CHK_RO" /\ ~OwnTest(f, m),
             m.ring_role = "MRC" /\ f.type = "RING_TEST" =>
                 ForwardPorts(m, p, f.type) = RingPort \ {p}
      PROVE  /\ NodeStep(r, m) /\ Linked(r, m)
             /\ ~down => Silent(r)
             /\ ~down /\ Opened(r) => Opened(m) /\ ~OwnTest(f, m)
             /\ m.ring_role = "MRC" /\ f.type = "RING_TEST" =>
                   \A q \in RingPort \ {p} : m.operstate[q] = "UP" => <<q, f>> \in r.tx
  <2>1. NodeStep(r, m)
    BY <1>2, <1>8, StepIsNodeStep
  <2>2. Linked(r, m)
    BY Zenon, <1>4, <1>8 DEF Linked, Still, Keeps
  <2>3. ~down => Silent(r)
    BY Zenon, <1>1, <1>4, <1>8 DEF Quiet, Silent
  <2>4. ~down /\ Opened(r) => Opened(m) /\ ~OwnTest(f, m)
    BY Zenon, <1>5, <1>8 DEF Opened
  <2>5. m.ring_role = "MRC" /\ f.type = "RING_TEST" =>
            \A q \in RingPort \ {p} : m.operstate[q] = "UP" => <<q, f>> \in r.tx
    BY Zenon, <1>4, <1>8 DEF Keeps
  <2>. QED
    BY <2>1, <2>2, <2>3, <2>4, <2>5
<1>9. CASE m.ring_role = "MRM"
  <2>1. CASE f.type = "RING_TEST" /\ f.sa = m.macaddr
    <3>1. r = mrp_mrm_recv_ring_test(a)
      BY <1>3, <1>6, <1>9, <2>1 DEF mrp_should_process, mrp_process, mrp_recv_ring_test
    <3>2. Heard(r, a) /\ r.mrm_state # "CHK_RO"
      BY <1>6, <3>1, TestHeard
    <3>. QED
      BY <1>5, <1>8, <1>9, <3>2 DEF Heard
  <2>2. CASE f.type \in {"RING_LINK_UP", "RING_LINK_DOWN"}
    <3>1. r = mrp_recv_ring_link(a, f.type)
      BY Zenon, <1>3, <1>9, <2>2 DEF mrp_should_process, mrp_process
    <3>2. Heard(r, a) /\ (~down /\ r.mrm_state = "CHK_RO" => a.mrm_state = "CHK_RO")
      BY <1>6, <2>2, <3>1, LinkHeard
    <3>3. ~OwnTest(f, m)
      BY <2>2 DEF OwnTest
    <3>. QED
      BY <1>5, <1>6, <1>8, <1>9, <3>2, <3>3 DEF Heard
  <2>3. CASE ~(f.type = "RING_TEST" /\ f.sa = m.macaddr)
               /\ f.type \notin {"RING_LINK_UP", "RING_LINK_DOWN"}
    <3>1. ASSUME f.type = "RING_TEST" PROVE r = a
      BY <1>1, <1>3, <1>6, <1>9, <1>5a, <2>3, <3>1
         DEF mrp_should_process, mrp_process, mrp_recv_ring_test, Same, KeepsRole
    <3>2. ASSUME f.type \in {"RING_TOPO", "OPTION"} PROVE r = a
      BY Zenon, <1>1, <1>3, <1>9, <3>2 DEF mrp_should_process
    <3>3. r = a
      BY <1>7, <2>3, <3>1, <3>2 DEF RingFrameType
    <3>. QED
      BY <1>5, <1>6, <1>8, <1>9, <2>3, <3>3, CalmReflexive DEF Calm, Still, OwnTest
  <2>. QED
    BY <2>1, <2>2, <2>3
<1>11. CASE m.ring_role = "MRC"
  <2>1. f.type = "RING_TEST" => ForwardPorts(m, p, f.type) = RingPort \ {p}
    BY <1>1, <1>11 DEF ForwardPorts
  <2>2. LinksMatch(a)
    BY <1>4, <1>11, PlacedMatches DEF NodeOK
  <2>3. CASE f.type = "RING_TOPO"
    <3>1. r = mrp_mrc_recv_ring_topo(a, f.interval * 1000)
      BY <1>1, <1>3, <1>5a, <1>11, <2>3
         DEF mrp_should_process, mrp_process, mrp_recv_ring_topo, Same, KeepsRole
    <3>2. Heard(r, a) /\ LinksMatch(r)
      BY <1>6, <2>2, <3>1, TopoHeard
    <3>. QED
      BY <1>8, <1>11, <2>1, <3>2 DEF Heard
  <2>4. CASE f.type # "RING_TOPO"
    <3>1. r = a
      BY Zenon, <1>1, <1>3, <1>7, <1>11, <2>4 DEF mrp_should_process, RingFrameType
    <3>. QED
      BY <1>6, <1>8, <1>11, <2>1, <2>2, <3>1, CalmReflexive DEF Calm, Still
  <2>. QED
    BY <2>3, <2>4
<1>. QED
  BY Zenon, <1>1, <1>9, <1>11
\* The test timer expires.
LEMMA NodeTestExpires ==
    ASSUME NEW m, NodeOK(m)
    PROVE  LET r == mrp_ring_test_expired(m)
           IN  /\ NodeStep(r, m) /\ Linked(r, m) /\ Silent(r)
               /\ Opened(r) => TestSent(r, m)
<1> DEFINE r == mrp_ring_test_expired(m)
<1> SUFFICES NodeStep(r, m) /\ Linked(r, m) /\ Silent(r) /\ (Opened(r) => TestSent(r, m))
  BY Zenon
<1>1. /\ Core(m) /\ m \in Instance /\ m.ring_role \in {"MRM", "MRC"}
      /\ m.tx = {} /\ ~m.mra_support
  BY NodeTypes DEF NodeOK, FixedRole
<1>2. Step(r, m)
  BY <1>1, TestExpired
<1>3. CASE m.ring_role = "MRM"
  <2>1. r = mrp_mrm_ring_test_expired(m)
    BY <1>1, <1>3 DEF mrp_ring_test_expired
  <2> HIDE DEF r
  <2>2. Heard(r, m) /\ (r.mrm_state = "CHK_RO" => TestSent(r, m))
    BY <1>1, <2>1, TestTimerHeard
  <2>3. NodeStep(r, m)
    BY <1>2, <1>3, StepIsNodeStep DEF Step, NodeOK
  <2>. QED
    BY <1>1, <2>2, <2>3 DEF Heard, Keeps, Quiet, Linked, Silent, Opened
<1>4. CASE m.ring_role = "MRC"
  <2>1. r = m
    BY <1>1, <1>4 DEF mrp_ring_test_expired
  <2> HIDE DEF r
  <2>2. NodeStep(r, m)
    BY <1>2, <2>1, StepIsNodeStep DEF NodeOK
  <2>. QED
    BY <1>1, <1>4, <2>1, <2>2 DEF Linked, Silent, Opened
<1>. QED
  BY <1>1, <1>3, <1>4

\* A timer expires that does not belong to a state machine.
LEMMA NodeCalmExpires ==
    ASSUME NEW m, NodeOK(m), NEW r, Same(r, m), Calm(r, m)
    PROVE  NodeStep(r, m) /\ Linked(r, m) /\ Silent(r) /\ (Opened(r) => Opened(m))
<1>1. Core(m) /\ m.tx = {}
  BY NodeTypes DEF NodeOK
<1>2. Step(r, m)
  BY <1>1, SameIsStep
<1>3. r.ring_role = m.ring_role /\ r.mrm_state = m.mrm_state
  BY DEF Same, KeepsRole, KeepsManager
<1>4. r.ring_role = "MRC" => LinksMatch(r)
  BY <1>3, PlacedMatches DEF Calm, NodeOK
<1>. QED
  BY <1>1, <1>2, <1>3, <1>4, StepIsNodeStep
     DEF Calm, Still, Keeps, Quiet, Linked, Silent, Opened

\* The topology and the flush timer are such timers.
LEMMA NodeTopoExpires ==
    ASSUME NEW m, NodeOK(m), NEW r, r = mrp_ring_topo_expired(m) \/ r = mrp_clear_fdb_expired(m)
    PROVE  NodeStep(r, m) /\ Linked(r, m) /\ Silent(r) /\ (Opened(r) => Opened(m))
<1>1. m \in Instance /\ Shaped(m)
  BY NodeTypes DEF NodeOK
<1>2. Same(r, m)
  BY <1>1, TopoExpiryKeeps, ClearFdbKeeps
<1>3. Calm(r, m)
  BY <1>1, TopoTimerCalm, CycleCalm
<1>. QED
  BY <1>2, <1>3, NodeCalmExpires

\* The link-up timer runs in a client only.
LEMMA NodeLinkUpExpires ==
    ASSUME NEW m, NodeOK(m), "ring_link_up" \in m.timers
    PROVE  LET r == mrp_ring_link_up_expired(m)
           IN  NodeStep(r, m) /\ Linked(r, m) /\ Silent(r) /\ (Opened(r) => Opened(m))
<1> DEFINE r == mrp_ring_link_up_expired(m)
<1>1. Core(m) /\ Consistent(m) /\ Shaped(m) /\ FixedRole(m) /\ m.tx = {}
  BY NodeTypes DEF NodeOK
<1>2. Step(r, m) /\ Waiting(m)
  BY <1>1, LinkUpExpired
<1>3. Heard(r, m) /\ LinksMatch(r)
  BY <1>1, <1>2, LinkUpTimerHeard DEF Waiting
<1> HIDE DEF r
<1>4. r.ring_role = "MRC"
  BY <1>1, <1>2 DEF Step, Waiting
<1>. QED
  BY <1>1, <1>2, <1>3, <1>4, StepIsNodeStep
     DEF r, Heard, Keeps, Quiet, Linked, Silent, Opened

\* The link-down timer runs in a client only, and while a link of its is down.
LEMMA NodeLinkDownExpires ==
    ASSUME NEW m, NodeOK(m), "ring_link_down" \in m.timers
    PROVE  LET r == mrp_ring_link_down_expired(m)
           IN  /\ NodeStep(r, m) /\ Linked(r, m)
               /\ \E q \in RingPort : m.operstate[q] # "UP"
<1> DEFINE r == mrp_ring_link_down_expired(m)
<1>1. /\ Core(m) /\ Consistent(m) /\ Shaped(m) /\ FixedRole(m)
      /\ m.ring_role \in {"MRM", "MRC"} /\ m.s_port \in RingPort
  BY NodeTypes DEF NodeOK
<1>2. Step(r, m)
  BY <1>1, LinkDownExpired
<1>3. m.ring_role = "MRC" /\ m.mrc_state = "DE"
  BY <1>1 DEF Consistent, TimersMatchClient
<1>4. LinksMatch(m) /\ m.operstate[m.s_port] # "UP"
  BY <1>3 DEF NodeOK, LinksMatch
<1>5. Keeps(r, m) /\ LinksMatch(r)
  BY <1>1, <1>3, <1>4, LinkDownTimerKeeps
<1> HIDE DEF r
<1>. QED
  BY <1>1, <1>2, <1>4, <1>5, StepIsNodeStep DEF r, Keeps, Linked

\* The link of a port changes.
LEMMA NodeLinkChanges ==
    ASSUME NEW m, NodeOK(m), NEW p \in RingPort, NEW up \in BOOLEAN
    PROVE  NodeStep(mrp_port_link_change(m, p, up), m)
<1> DEFINE r == mrp_port_link_change(m, p, up)
<1>1. Core(m)
  BY NodeTypes DEF NodeOK
<1>2. Step(r, m)
  BY <1>1, LinkChanged
<1>3. m.ring_role = "MRC" => LinksMatch(r)
  BY <1>1, LinkChangeMatches DEF NodeOK
<1> HIDE DEF r
<1>4. r.ring_role = m.ring_role
  BY <1>2 DEF Step, NodeOK
<1>. QED
  BY <1>2, <1>3, <1>4, StepIsNodeStep DEF r
\* StartRole, for a role that is fixed.
LEMMA RoleMatches ==
    ASSUME NEW m, Fresh(m), FixedRole(m), \A p \in RingPort : m.operstate[p] # "UP",
           NEW role \in RingRole, NEW up \in SUBSET RingPort
    PROVE  LET r == StartRole(m, role, up)
           IN  FixedRole(r) /\ r.ring_role = role /\ (role = "MRC" => LinksMatch(r))
<1> DEFINE blocked == [p \in RingPort |-> "BLOCKED"]
           shut == [m EXCEPT !.state = blocked, !.ring_role = role]
           first == IF m.p_port \in up THEN mrp_port_link_change(shut, m.p_port, TRUE) ELSE shut
           r == IF first.s_port \in up THEN mrp_port_link_change(first, first.s_port, TRUE)
                                       ELSE first
           OK(x) == /\ Core(x) /\ FixedRole(x) /\ x.ring_role = role
                    /\ role = "MRC" => LinksMatch(x)
<1>1. StartRole(m, role, up) = r
  BY Zenon DEF StartRole
<1>2. OK(shut)
  <2>1. m \in Instance /\ m.p_port \in RingPort /\ m.s_port \in RingPort /\ m.p_port # m.s_port
    BY DEF Fresh, Instance
  <2>2. /\ shut \in Instance /\ shut.p_port = m.p_port /\ shut.s_port = m.s_port
        /\ shut.state = blocked /\ shut.ring_role = role
        /\ shut.ring_test_curr_max = m.ring_test_curr_max
    BY ZenonT(40) DEF Fresh, Instance, PortState
  <2>3. /\ shut.operstate = m.operstate /\ shut.mrc_state = m.mrc_state
        /\ shut.mra_support = m.mra_support /\ shut.in_role = m.in_role
    BY ZenonT(40), <2>1 DEF Instance
  <2> HIDE DEF shut
  <2>. QED
    BY <2>1, <2>2, <2>3 DEF Fresh, Core, FixedRole, LinksMatch
<1> HIDE DEF shut
<1>3. ASSUME NEW x, OK(x), NEW p \in RingPort
      PROVE  OK(mrp_port_link_change(x, p, TRUE))
  <2> DEFINE y == mrp_port_link_change(x, p, TRUE)
  <2>1. Step(y, x)
    BY Zenon, <1>3, LinkChanged
  <2>2. role = "MRC" => LinksMatch(y)
    BY Zenon, <1>3, LinkChangeMatches
  <2> HIDE DEF y
  <2>3. OK(y)
    BY <1>3, <2>1, <2>2 DEF Step, FixedRole
  <2>. QED
    BY Zenon, <2>3 DEF y
<1>4. m.p_port \in RingPort
  BY DEF Fresh, Instance
<1>5. ASSUME NEW x, OK(x) PROVE x.s_port \in RingPort
  BY <1>5, CoreTypes
<1> HIDE DEF OK
<1>6. OK(first)
  BY Zenon, <1>2, <1>3, <1>4
<1> HIDE DEF first
<1>7. OK(r)
  BY Zenon, <1>3, <1>5, <1>6
<1> HIDE DEF r
<1>. QED
  BY Zenon, <1>1, <1>7 DEF OK

\* What mrp_create sets and the roles leave alone.
SetUp(r, c) ==
    /\ {"mra_support", "in_role", "operstate"} \subseteq DOMAIN r
    /\ r.mra_support = FALSE /\ r.in_role = c.in_role
    /\ r.operstate = [p \in RingPort |-> "UNKNOWN"]

\* The operations between mrp_create and StartRole.
LEMMA SetUpKept ==
    ASSUME NEW c, NEW m, SetUp(m, c), NEW s
    PROVE  /\ SetUp(mrp_reset_ring_state(m), c)
           /\ SetUp(mrp_set_mrm_init(m), c) /\ SetUp(mrp_set_mrc_init(m), c)
           /\ SetUp(mrp_set_mrm_state(m, s), c) /\ SetUp(mrp_set_mrc_state(m, s), c)
<1>1. SetUp(mrp_reset_ring_state(m), c)
  BY ZenonT(40) DEF mrp_reset_ring_state, mrp_timer_stop, SetUp
<1>2. SetUp(mrp_set_mrm_init(m), c)
  BY ZenonT(40) DEF mrp_set_mrm_init, SetUp
<1>3. SetUp(mrp_set_mrc_init(m), c)
  BY ZenonT(40) DEF mrp_set_mrc_init, SetUp
<1>4. SetUp(mrp_set_mrm_state(m, s), c)
  BY ZenonT(40) DEF mrp_set_mrm_state, SetUp
<1>5. SetUp(mrp_set_mrc_state(m, s), c)
  BY ZenonT(40) DEF mrp_set_mrc_state, SetUp
<1>. QED
  BY <1>1, <1>2, <1>3, <1>4, <1>5

\* addmrp.
LEMMA NodeAdded ==
    ASSUME NEW c \in ConfigRecord, c.ring_role \in {"MRM", "MRC"}, c.in_role # "MIM",
           NEW up \in SUBSET RingPort
    PROVE  NodeStep(mrp_add(c, up), c)
<1> DEFINE m == mrp_create(c)
           a == mrp_reset_ring_state(m)
           r == mrp_add(c, up)
<1>1. SetUp(m, c)
  BY SMTT(30) DEF mrp_create, SetUp
<1>2. SetUp(a, c)
  <2> HIDE DEF m
  <2>. QED
    BY <1>1, SetUpKept
<1>3. Good(r)
  BY Added
<1>4. ASSUME NEW b, SetUp(b, c)
      PROVE  FixedRole(b) /\ \A p \in RingPort : b.operstate[p] # "UP"
  BY <1>4 DEF SetUp, FixedRole
<1>5. CASE c.ring_role = "MRM"
  <2> DEFINE b1 == mrp_set_mrm_init(a)
             b == mrp_set_mrm_state(b1, "AC_STAT1")
  <2>1. r = StartRole(b, "MRM", up)
    BY Zenon, <1>5 DEF mrp_add, mrp_set_mrm_role
  <2>2. Fresh(b)
    BY Prepared
  <2> HIDE DEF r, a
  <2>3. SetUp(b1, c)
    BY <1>2, SetUpKept
  <2> HIDE DEF b1
  <2>4. SetUp(b, c)
    BY <2>3, SetUpKept
  <2> HIDE DEF b
  <2>5. FixedRole(r) /\ r.ring_role = "MRM"
    BY <1>4, <2>1, <2>2, <2>4, RoleMatches DEF RingRole
  <2>. QED
    BY <1>3, <1>5, <2>5 DEF NodeStep, r
<1>6. CASE c.ring_role = "MRC"
  <2> DEFINE b1 == mrp_set_mrc_init(a)
             b == mrp_set_mrc_state(b1, "AC_STAT1")
  <2>1. r = StartRole(b, "MRC", up)
    BY Zenon, <1>6 DEF mrp_add, mrp_set_mrc_role
  <2>2. Fresh(b)
    BY Prepared
  <2> HIDE DEF r, a
  <2>3. SetUp(b1, c)
    BY <1>2, SetUpKept
  <2> HIDE DEF b1
  <2>4. SetUp(b, c)
    BY <2>3, SetUpKept
  <2> HIDE DEF b
  <2>5. FixedRole(r) /\ r.ring_role = "MRC" /\ LinksMatch(r)
    BY <1>4, <2>1, <2>2, <2>4, RoleMatches DEF RingRole
  <2>. QED
    BY <1>3, <1>6, <2>5 DEF NodeStep, r
<1>. QED
  BY <1>5, <1>6

-----------------------------------------------------------------------------
(***************************************************************************)
(* The ring.                                                               *)
(***************************************************************************)
\* The rings considered have one manager and otherwise clients, none of them a MIM.
OneManager ==
    \A c \in Config :
        \E k \in Node : /\ c[k].ring_role = "MRM"
                        /\ \A n \in Node \ {k} : c[n].ring_role = "MRC"
                        /\ \A n \in Node : c[n].in_role # "MIM"

Managed ==
    \E k \in Node : /\ mrp[k].ring_role = "MRM"
                    /\ \A n \in Node \ {k} : mrp[n].ring_role = "MRC"

AllUp == \A n \in Node : link[n]

\* A manager that considers its ring open has a test frame of its own on the way, and
\* no frame is on the way that would make it open its ring.
UnderTest ==
    /\ \A x \in wire : x[3].type # "RING_LINK_DOWN"
    /\ \A n \in Node : Opened(mrp[n]) => \E x \in wire : OwnTest(x[3], mrp[n])

RingTypes ==
    /\ link \in [Node -> BOOLEAN] /\ probed \in BOOLEAN
    /\ wire \subseteq Node \X RingPort \X Frame
    /\ mrp \in [Node -> Instance]
    /\ \A n \in Node : NodeOK(mrp[n])
    /\ Managed

RingInv == RingTypes /\ (probed /\ Informed /\ AllUp => UnderTest)

\* The neighbours of a node are nodes.
LEMMA PeerTypes ==
    ASSUME NEW n \in Node, NEW p \in RingPort
    PROVE  Peer(n, p)[1] \in Node /\ Peer(n, p)[2] \in RingPort /\ LinkOf(n, p) \in Node
BY RingAssumption DEF Node, RingPort, Peer, NextNode, PrevNode, LinkOf

\* A node's frames arrive at its neighbours as they were sent, and with all links up all
\* of them arrive.
LEMMA EmittedFrames ==
    ASSUME NEW n \in Node, NEW m, m.tx \subseteq RingPort \X Frame
    PROVE  /\ Emitted(n, m) \subseteq Node \X RingPort \X Frame
           /\ \A x \in Emitted(n, m) : \E e \in m.tx : x[3] = e[2]
           /\ AllUp => \A e \in m.tx : \E x \in Emitted(n, m) : x[3] = e[2]
<1> DEFINE At(e) == <<Peer(n, e[1])[1], Peer(n, e[1])[2], e[2]>>
           up == {x \in m.tx : link[LinkOf(n, x[1])]}
<1>1. Emitted(n, m) = {At(e) : e \in up}
  BY Zenon DEF Emitted
<1>2. \A e \in m.tx : At(e) \in Node \X RingPort \X Frame /\ At(e)[3] = e[2]
  BY PeerTypes
<1>3. AllUp => up = m.tx
  BY PeerTypes DEF AllUp
<1>4. up \subseteq m.tx
  OBVIOUS
<1> HIDE DEF At, up
<1>. QED
  BY Zenon, <1>1, <1>2, <1>3, <1>4

\* The end of a callback, whatever it was.
LEMMA CallbackTypes ==
    ASSUME RingTypes, NEW n \in Node, NEW r, NodeStep(r, mrp[n]),
           NEW rest \in SUBSET wire, Callback(n, r, rest), probed' \in BOOLEAN
    PROVE  /\ RingTypes' /\ link' = link
           /\ \A k \in Node \ {n} : mrp'[k] = mrp[k]
           /\ mrp'[n].ring_role = r.ring_role /\ mrp'[n].mrm_state = r.mrm_state
           /\ Linked(mrp'[n], r)
           /\ r.tx \subseteq RingPort \X Frame
<1>1. mrp' = [mrp EXCEPT ![n] = Idle(r)] /\ wire' = rest \cup Emitted(n, r) /\ link' = link
  BY DEF Callback
<1>2. /\ NodeOK(Idle(r)) /\ Idle(r) \in Instance
      /\ Idle(r).ring_role = mrp[n].ring_role /\ Idle(r).mrm_state = r.mrm_state
      /\ Linked(Idle(r), r)
  BY IdleOK
<1>3. r.tx \subseteq RingPort \X Frame /\ r.ring_role = mrp[n].ring_role
  BY NodeTypes DEF NodeStep
<1>4. mrp'[n] = Idle(r) /\ \A k \in Node \ {n} : mrp'[k] = mrp[k]
  BY <1>1 DEF RingTypes
<1>5. mrp' \in [Node -> Instance]
  BY <1>1, <1>2 DEF RingTypes
<1>6. \A k \in Node : NodeOK(mrp'[k]) /\ mrp'[k].ring_role = mrp[k].ring_role
  BY <1>2, <1>4 DEF RingTypes
<1>7. Managed'
  BY <1>6 DEF Managed, RingTypes
<1>8. wire' \subseteq Node \X RingPort \X Frame
  BY <1>1, <1>3, EmittedFrames DEF RingTypes
<1>9. RingTypes'
  BY <1>1, <1>5, <1>6, <1>7, <1>8 DEF RingTypes
<1>. QED
  BY <1>1, <1>2, <1>3, <1>4, <1>9

\* A callback that changes no link state leaves every node as well informed as it was.
LEMMA StillInformed ==
    ASSUME NEW n \in Node, link' = link, \A k \in Node \ {n} : mrp'[k] = mrp[k],
           mrp'[n].operstate = mrp[n].operstate
    PROVE  (Informed' <=> Informed) /\ (AllUp' <=> AllUp)
<1>1. \A k \in Node : mrp'[k].operstate = mrp[k].operstate
  OBVIOUS
<1>2. \A k \in Node, p \in RingPort : Reported(k, p)' = Reported(k, p)
  BY DEF Reported
<1>. QED
  BY <1>1, <1>2 DEF Informed, AllUp
\* A frame is received: a client passes a test frame on, and only the manager takes it
\* from the ring, and closes the ring.
LEMMA ReceiveKeeps ==
    ASSUME RingInv, NEW n \in Node, packet_rcv(n)
    PROVE  RingInv'
<1>1. PICK x \in wire :
          /\ x[1] = n
          /\ Callback(n, mrp_recv(mrp[n], x[2], x[3]), wire \ {x})
          /\ probed' = probed
  BY Zenon DEF packet_rcv
<1> DEFINE m == mrp[n]
           f == x[3]
           r == mrp_recv(m, x[2], f)
<1>2. NodeOK(m) /\ x[2] \in RingPort /\ f \in Frame
  BY DEF RingInv, RingTypes
<1> HIDE DEF f
<1>3. /\ NodeStep(r, m) /\ Linked(r, m)
      /\ f.type # "RING_LINK_DOWN" => Silent(r)
      /\ f.type # "RING_LINK_DOWN" /\ Opened(r) => Opened(m) /\ ~OwnTest(f, m)
      /\ m.ring_role = "MRC" /\ f.type = "RING_TEST" =>
            \A q \in RingPort \ {x[2]} : m.operstate[q] = "UP" => <<q, f>> \in r.tx
  BY <1>2, NodeReceives
<1>4. Callback(n, r, wire \ {x})
  BY <1>1 DEF f
<1> HIDE DEF r
<1>5. /\ RingTypes' /\ link' = link
      /\ \A k \in Node \ {n} : mrp'[k] = mrp[k]
      /\ mrp'[n].ring_role = r.ring_role /\ mrp'[n].mrm_state = r.mrm_state
      /\ Linked(mrp'[n], r)
      /\ r.tx \subseteq RingPort \X Frame
  BY <1>1, <1>3, <1>4, CallbackTypes DEF RingInv, RingTypes
<1>6. mrp'[n].operstate = m.operstate /\ mrp'[n].macaddr = m.macaddr
  BY <1>3, <1>5 DEF Linked
<1>7. (Informed' <=> Informed) /\ (AllUp' <=> AllUp)
  BY <1>5, <1>6, StillInformed
<1>8. ASSUME probed', Informed', AllUp' PROVE UnderTest'
  <2>1. Informed /\ AllUp /\ UnderTest
    BY <1>1, <1>7, <1>8 DEF RingInv
  <2>2. f.type # "RING_LINK_DOWN"
    BY <2>1 DEF UnderTest, f
  <2>3. wire' = (wire \ {x}) \cup Emitted(n, r)
    BY <1>4 DEF Callback
  <2>4. /\ \A y \in Emitted(n, r) : \E e \in r.tx : y[3] = e[2]
        /\ \A e \in r.tx : \E y \in Emitted(n, r) : y[3] = e[2]
    BY <1>5, <2>1, EmittedFrames
  <2>5. \A y \in wire' : y[3].type # "RING_LINK_DOWN"
    BY <1>3, <2>1, <2>2, <2>3, <2>4 DEF UnderTest, Silent
  <2>6. ASSUME NEW k \in Node, Opened(mrp'[k])
        PROVE  \E y \in wire' : OwnTest(y[3], mrp'[k])
    <3>1. CASE k = n
      <4>1. Opened(m) /\ ~OwnTest(f, m)
        BY <1>3, <1>5, <2>2, <2>6, <3>1 DEF Opened
      <4>2. PICK y \in wire : OwnTest(y[3], m)
        BY <2>1, <4>1 DEF UnderTest
      <4>3. y # x
        BY <4>1, <4>2 DEF f
      <4>. QED
        BY <1>6, <2>3, <3>1, <4>2, <4>3 DEF OwnTest
    <3>2. CASE k # n
      <4>1. mrp'[k] = mrp[k]
        BY <1>5, <3>2
      <4>2. PICK y \in wire : OwnTest(y[3], mrp[k])
        BY <2>1, <2>6, <4>1 DEF UnderTest
      <4>3. CASE y # x
        BY <2>3, <4>1, <4>2, <4>3
      <4>4. CASE y = x
        <5>1. m.ring_role = "MRC"
          BY <2>6, <3>2, <4>1 DEF Opened, RingInv, RingTypes, Managed
        <5>2. f.type = "RING_TEST"
          BY <4>2, <4>4 DEF OwnTest, f
        <5>3. PICK q \in RingPort \ {x[2]} : TRUE
          BY <1>2 DEF RingPort
        <5>4. m.operstate[q] = "UP"
          BY <2>1, PeerTypes DEF Informed, Reported, AllUp
        <5>5. <<q, f>> \in r.tx
          BY <1>3, <5>1, <5>2, <5>3, <5>4
        <5>6. PICK z \in Emitted(n, r) : z[3] = f
          BY <2>4, <5>5
        <5>. QED
          BY <2>3, <4>1, <4>2, <4>4, <5>6 DEF f
      <4>. QED
        BY <4>3, <4>4
    <3>. QED
      BY <3>1, <3>2
  <2>. QED
    BY <2>5, <2>6 DEF UnderTest
<1>. QED
  BY <1>5, <1>8 DEF RingInv

\* A timer expires when no frame is on the way: the manager that considers its ring open
\* has just probed it, or the ring has not been probed.
LEMMA ExpiryKeeps ==
    ASSUME RingInv, Prompt, NEW n \in Node, NEW timer, NEW r, Expiry(n, timer, r),
           NodeStep(r, mrp[n]), Linked(r, mrp[n]),
           (\A q \in RingPort : mrp[n].operstate[q] = "UP") =>
               /\ Silent(r)
               /\ Opened(r) => IF timer = "ring_test" THEN TestSent(r, mrp[n]) ELSE Opened(mrp[n])
    PROVE  RingInv'
<1> DEFINE m == mrp[n]
<1>1. /\ wire = {} /\ Callback(n, r, wire)
      /\ probed' = (probed \/ (timer = "ring_test" /\ m.ring_role = "MRM"))
  BY DEF Expiry
<1>2. probed' \in BOOLEAN
  BY <1>1
<1>3. /\ RingTypes' /\ link' = link
      /\ \A k \in Node \ {n} : mrp'[k] = mrp[k]
      /\ mrp'[n].ring_role = r.ring_role /\ mrp'[n].mrm_state = r.mrm_state
      /\ Linked(mrp'[n], r)
      /\ r.tx \subseteq RingPort \X Frame
  BY Zenon, <1>1, <1>2, CallbackTypes DEF RingInv
<1>4. mrp'[n].operstate = m.operstate /\ mrp'[n].macaddr = m.macaddr
  BY <1>3 DEF Linked
<1>5. (Informed' <=> Informed) /\ (AllUp' <=> AllUp)
  BY <1>3, <1>4, StillInformed
<1>6. ASSUME probed', Informed', AllUp' PROVE UnderTest'
  <2>1. Informed /\ AllUp /\ (probed => UnderTest)
    BY <1>5, <1>6 DEF RingInv
  <2>2. \A q \in RingPort : m.operstate[q] = "UP"
    BY <2>1, PeerTypes DEF Informed, Reported, AllUp
  <2>3. wire' = Emitted(n, r)
    BY <1>1 DEF Callback
  <2>4. /\ \A y \in Emitted(n, r) : \E e \in r.tx : y[3] = e[2]
        /\ \A e \in r.tx : \E y \in Emitted(n, r) : y[3] = e[2]
    BY <1>3, <2>1, EmittedFrames
  <2>5. \A y \in wire' : y[3].type # "RING_LINK_DOWN"
    BY <2>2, <2>3, <2>4 DEF Silent
  <2>6. probed => \A k \in Node : ~Opened(mrp[k])
    BY <1>1, <2>1 DEF UnderTest
  <2>7. ASSUME NEW k \in Node, Opened(mrp'[k])
        PROVE  \E y \in wire' : OwnTest(y[3], mrp'[k])
    <3>1. CASE k # n
      <4>1. Opened(mrp[k])
        BY <1>3, <2>7, <3>1
      <4>2. m.ring_role # "MRM"
        BY <3>1, <4>1 DEF Opened, RingInv, RingTypes, Managed
      <4>. QED
        BY Zenon, <1>1, <1>6, <2>6, <4>1, <4>2
    <3>2. CASE k = n
      <4>1. Opened(r)
        BY <1>3, <2>7, <3>2 DEF Opened
      <4>2. timer = "ring_test"
        BY Zenon, <1>1, <1>6, <2>2, <2>6, <4>1
      <4>3. TestSent(r, m) /\ BothPorts(m) = RingPort
        BY <2>2, <4>1, <4>2, NodeTypes DEF RingInv, RingTypes, NodeOK
      <4>4. PICK e \in r.tx : OwnTest(e[2], m)
        BY <2>2, <4>3 DEF TestSent, RingPort
      <4>5. PICK y \in Emitted(n, r) : y[3] = e[2]
        BY <2>4
      <4>. QED
        BY <1>4, <2>3, <3>2, <4>4, <4>5 DEF OwnTest
    <3>. QED
      BY <3>1, <3>2
  <2>. QED
    BY <2>5, <2>7 DEF UnderTest
<1>. QED
  BY <1>3, <1>6 DEF RingInv

\* Every step keeps the invariant.
LEMMA RingNext ==
    ASSUME RingInv, Prompt, Next
    PROVE  RingInv'
<1>1. ASSUME NEW n \in Node PROVE NodeOK(mrp[n])
  BY <1>1 DEF RingInv, RingTypes
<1>2. ASSUME NEW n \in Node, packet_rcv(n) PROVE RingInv'
  BY <1>2, ReceiveKeeps
<1>3. ASSUME NEW n \in Node, netlink_listen(n) PROVE RingInv'
  <2>1. PICK p \in RingPort :
            /\ Callback(n, mrp_port_link_change(mrp[n], p, link[LinkOf(n, p)]), wire)
            /\ probed' = FALSE
    BY <1>3 DEF netlink_listen
  <2> DEFINE r == mrp_port_link_change(mrp[n], p, link[LinkOf(n, p)])
  <2>2. link[LinkOf(n, p)] \in BOOLEAN
    BY PeerTypes DEF RingInv, RingTypes
  <2>3. NodeStep(r, mrp[n])
    BY <1>1, <2>2, NodeLinkChanges
  <2> HIDE DEF r
  <2>4. RingTypes'
    BY Zenon, <2>1, <2>3, CallbackTypes DEF r, RingInv
  <2>. QED
    BY <2>1, <2>4 DEF RingInv
<1>4. ASSUME NEW n \in Node, ring_test_work(n) PROVE RingInv'
  <2> DEFINE r == mrp_ring_test_expired(mrp[n])
  <2>1. /\ NodeStep(r, mrp[n]) /\ Linked(r, mrp[n]) /\ Silent(r)
        /\ Opened(r) => TestSent(r, mrp[n])
    BY <1>1, NodeTestExpires
  <2>2. Expiry(n, "ring_test", r)
    BY <1>4 DEF ring_test_work
  <2> HIDE DEF r
  <2>. QED
    BY <2>1, <2>2, ExpiryKeeps
<1>5. ASSUME NEW n \in Node, ring_topo_work(n) PROVE RingInv'
  <2> DEFINE r == mrp_ring_topo_expired(mrp[n])
  <2>1. /\ NodeStep(r, mrp[n]) /\ Linked(r, mrp[n]) /\ Silent(r)
        /\ Opened(r) => Opened(mrp[n])
    BY <1>1, NodeTopoExpires
  <2>2. Expiry(n, "ring_topo", r)
    BY <1>5 DEF ring_topo_work
  <2> HIDE DEF r
  <2>. QED
    BY <2>1, <2>2, ExpiryKeeps
<1>6. ASSUME NEW n \in Node, clear_fdb_work(n) PROVE RingInv'
  <2> DEFINE r == mrp_clear_fdb_expired(mrp[n])
  <2>1. /\ NodeStep(r, mrp[n]) /\ Linked(r, mrp[n]) /\ Silent(r)
        /\ Opened(r) => Opened(mrp[n])
    BY <1>1, NodeTopoExpires
  <2>2. Expiry(n, "clear_fdb", r)
    BY <1>6 DEF clear_fdb_work
  <2> HIDE DEF r
  <2>. QED
    BY <2>1, <2>2, ExpiryKeeps
<1>7. ASSUME NEW n \in Node, ring_link_up_work(n) PROVE RingInv'
  <2> DEFINE r == mrp_ring_link_up_expired(mrp[n])
  <2>1. Expiry(n, "ring_link_up", r) /\ "ring_link_up" \in mrp[n].timers
    BY <1>7 DEF ring_link_up_work, Expiry
  <2>2. /\ NodeStep(r, mrp[n]) /\ Linked(r, mrp[n]) /\ Silent(r)
        /\ Opened(r) => Opened(mrp[n])
    BY <1>1, <2>1, NodeLinkUpExpires
  <2> HIDE DEF r
  <2>. QED
    BY <2>1, <2>2, ExpiryKeeps
<1>8. ASSUME NEW n \in Node, ring_link_down_work(n) PROVE RingInv'
  <2> DEFINE r == mrp_ring_link_down_expired(mrp[n])
  <2>1. Expiry(n, "ring_link_down", r) /\ "ring_link_down" \in mrp[n].timers
    BY <1>8 DEF ring_link_down_work, Expiry
  <2>2. /\ NodeStep(r, mrp[n]) /\ Linked(r, mrp[n])
        /\ \E q \in RingPort : mrp[n].operstate[q] # "UP"
    BY <1>1, <2>1, NodeLinkDownExpires
  <2> HIDE DEF r
  <2>. QED
    BY <2>1, <2>2, ExpiryKeeps
<1>9. ASSUME NEW n \in Node, LinkChange(n) PROVE RingInv'
  BY Zenon, <1>9 DEF LinkChange, RingInv, RingTypes, Managed
<1>10. ASSUME Lose PROVE RingInv'
  BY Zenon, <1>10 DEF Lose, RingInv, RingTypes, Managed
<1>. QED
  BY <1>2, <1>3, <1>4, <1>5, <1>6, <1>7, <1>8, <1>9, <1>10 DEF Next

\* The rings that are set up have one manager, and have not been probed.
LEMMA RingInit ==
    ASSUME OneManager, Init
    PROVE  RingInv
<1>1. link \in [Node -> BOOLEAN] /\ probed = FALSE
  BY DEF Init
<1>2. PICK c \in Config :
          /\ mrp = [n \in Node |-> Idle(mrp_add(c[n], UpPorts(n)))]
          /\ wire = UNION {Emitted(n, mrp_add(c[n], UpPorts(n))) : n \in Node}
  BY DEF Init
<1>3. PICK k \in Node : /\ c[k].ring_role = "MRM"
                        /\ \A n \in Node \ {k} : c[n].ring_role = "MRC"
                        /\ \A n \in Node : c[n].in_role # "MIM"
  BY DEF OneManager
<1> DEFINE a(n) == mrp_add(c[n], UpPorts(n))
<1>4. ASSUME NEW n \in Node
      PROVE  NodeStep(a(n), c[n])
  <2>1. c[n] \in ConfigRecord /\ c[n].ring_role \in {"MRM", "MRC"}
    BY <1>3, RingAssumption
  <2>2. UpPorts(n) \in SUBSET RingPort
    BY DEF UpPorts
  <2>. QED
    BY <1>3, <2>1, <2>2, NodeAdded
<1>5. mrp = [n \in Node |-> Idle(a(n))] /\ wire = UNION {Emitted(n, a(n)) : n \in Node}
  BY <1>2
<1> HIDE DEF a
<1>6. ASSUME NEW n \in Node
      PROVE  /\ NodeOK(mrp[n]) /\ mrp[n] \in Instance
             /\ mrp[n].ring_role = c[n].ring_role
             /\ Emitted(n, a(n)) \subseteq Node \X RingPort \X Frame
  <2>1. NodeOK(Idle(a(n))) /\ Idle(a(n)) \in Instance /\ Idle(a(n)).ring_role = c[n].ring_role
    BY <1>4, IdleOK
  <2>2. a(n).tx \subseteq RingPort \X Frame
    BY <1>4, NodeTypes DEF NodeStep
  <2>3. Emitted(n, a(n)) \subseteq Node \X RingPort \X Frame
    BY <2>2, EmittedFrames
  <2>. QED
    BY <1>5, <2>1, <2>3
<1>7. mrp \in [Node -> Instance]
  BY <1>5, <1>6
<1>8. wire \subseteq Node \X RingPort \X Frame
  BY <1>5, <1>6
<1>9. Managed
  BY <1>3, <1>6 DEF Managed
<1>. QED
  BY Zenon, <1>1, <1>6, <1>7, <1>8, <1>9 DEF RingInv, RingTypes

\* A loop needs both ring ports of the manager, and it opens both only in CHK_RO.
LEMMA LoopIsOpened ==
    ASSUME RingTypes, Loop
    PROVE  AllUp /\ \E k \in Node : Opened(mrp[k])
<1>1. PICK k \in Node : mrp[k].ring_role = "MRM"
  BY DEF RingTypes, Managed
<1> DEFINE m == mrp[k]
<1>2. PrevNode(k) \in Node /\ NextNode(PrevNode(k)) = k
  BY RingAssumption DEF Node, PrevNode, NextNode
<1>3. m.state[1] = "FORWARDING" /\ m.state[2] = "FORWARDING"
  BY <1>2 DEF Loop, Carries
<1>4. Good(m) /\ FixedRole(m)
  BY DEF RingTypes, NodeOK
<1>5. Consistent(m) /\ m.s_port \in RingPort
  BY <1>4, NodeTypes
<1>6. PortsMatchManager(m)
  BY <1>1, <1>4, <1>5 DEF Consistent
<1>7. m.mrm_state = "CHK_RO"
  BY <1>3, <1>5, <1>6 DEF PortsMatchManager, RingPort
<1>. QED
  BY <1>1, <1>7 DEF Opened, Loop, Carries, AllUp

\* The invariant of a ring with one manager in which frames outrun timers.
THEOREM RingInvariance ==
    ASSUME Prompt, OneManager
    PROVE  Spec => []RingInv
<1>1. Init => RingInv
  BY RingInit
<1>2. RingInv /\ [Next]_vars => RingInv'
  <2>1. ASSUME RingInv, UNCHANGED vars PROVE RingInv'
    BY <2>1 DEF vars, RingInv, RingTypes, Managed, Informed, Reported, AllUp, UnderTest
  <2>. QED
    BY <2>1, RingNext
<1>. QED
  BY <1>1, <1>2, PTL DEF Spec

\* For every number of nodes, every ring with one manager and otherwise clients, every
\* choice of ports and timers, and any sequence of link failures, recoveries and lost
\* frames: once the manager has probed the ring after the last change and its frames
\* have arrived, the ring has no loop.
THEOREM NoLoop ==
    ASSUME Prompt, OneManager
    PROVE  Spec => []NoLoopOnceProbed
<1>1. RingInv => NoLoopOnceProbed
  <2> SUFFICES ASSUME RingInv, probed, Informed, wire = {}, Loop
               PROVE  FALSE
    BY DEF NoLoopOnceProbed
  <2>1. AllUp /\ \E k \in Node : Opened(mrp[k])
    BY LoopIsOpened DEF RingInv
  <2>. QED
    BY <2>1 DEF RingInv, UnderTest
<1>. QED
  BY <1>1, RingInvariance, PTL

=============================================================================
