--------------------------- MODULE InstanceProofs ---------------------------
(***************************************************************************)
(* What the operations of an instance preserve.  Every handler is a        *)
(* composition of the setters and requests of MrpInstance: the first       *)
(* lemmas state what each of those keeps of an instance, so that the       *)
(* handlers, which follow, are proved without opening them.                *)
(***************************************************************************)
EXTENDS RingHandlers, TLAPS

\* What the invariants look at, in four groups.
KeepsRole(r, m) ==
    r.ring_role = m.ring_role /\ r.mra_support = m.mra_support /\ r.in_role = m.in_role

KeepsPorts(r, m) ==
    r.p_port = m.p_port /\ r.s_port = m.s_port /\ r.state = m.state

KeepsManager(r, m) ==
    /\ r.mrm_state = m.mrm_state
    /\ r.ring_test_curr = m.ring_test_curr
    /\ r.ring_test_curr_max = m.ring_test_curr_max
    /\ "ring_test" \in r.timers <=> "ring_test" \in m.timers

KeepsClient(r, m) ==
    /\ r.mrc_state = m.mrc_state
    /\ r.ring_link_curr_max = m.ring_link_curr_max
    /\ "ring_link_up" \in r.timers <=> "ring_link_up" \in m.timers
    /\ "ring_link_down" \in r.timers <=> "ring_link_down" \in m.timers

Same(r, m) ==
    /\ r \in Instance
    /\ KeepsRole(r, m) /\ KeepsPorts(r, m) /\ KeepsManager(r, m) /\ KeepsClient(r, m)

USE DEF Same, KeepsRole, KeepsPorts, KeepsManager, KeepsClient

-----------------------------------------------------------------------------
(***************************************************************************)
(* Operations that touch nothing but outputs, flags and other counters.    *)
(***************************************************************************)
\* mrp_send only adds to tx.
LEMMA SendKeeps ==
    ASSUME NEW m \in Instance, NEW P \in SUBSET RingPort, NEW f \in Frame
    PROVE  Same(mrp_send(m, P, f), m)
BY DEF mrp_send, Instance

\* ifdriver_flush only sets flushed.
LEMMA FlushKeeps ==
    ASSUME NEW m \in Instance
    PROVE  Same(ifdriver_flush(m), m)
BY ZenonT(40) DEF ifdriver_flush, Instance

\* add_test is in no invariant.
LEMMA AddTestKeeps ==
    ASSUME NEW m \in Instance, NEW b \in BOOLEAN
    PROVE  Same([m EXCEPT !.add_test = b], m)
BY DEF Instance

\* Nor is no_tc.
LEMMA NoTcKeeps ==
    ASSUME NEW m \in Instance, NEW b \in BOOLEAN
    PROVE  Same([m EXCEPT !.no_tc = b], m)
BY DEF Instance

\* Nor is the countdown of topology announcements.
LEMMA TopoCountKeeps ==
    ASSUME NEW m \in Instance, NEW k \in Nat
    PROVE  Same([m EXCEPT !.ring_topo_curr_max = k], m)
BY DEF Instance

\* Nor is the monitor's count.
LEMMA MonKeeps ==
    ASSUME NEW m \in Instance, NEW k \in Nat
    PROVE  Same([m EXCEPT !.ring_mon_curr = k], m)
BY DEF Instance

\* Nor is what an automanager remembers of the ring's manager.
LEMMA MonHostKeeps ==
    ASSUME NEW m \in Instance, NEW k \in Nat, NEW q \in UInt16
    PROVE  Same([m EXCEPT !.ring_mon_curr = k, !.ring_prio = q], m)
BY ZenonT(40) DEF Instance

\* The same, from MRP_TestMgrNAck.
LEMMA HostKeeps ==
    ASSUME NEW m \in Instance, NEW q \in UInt16, NEW a \in Mac \cup {NoMac}
    PROVE  Same([m EXCEPT !.ring_prio = q, !.ring_mac = a], m)
BY ZenonT(40) DEF Instance

\* The same, from MRP_TestPropagate.
LEMMA PropKeeps ==
    ASSUME NEW m \in Instance, NEW q \in UInt16, NEW a \in Mac \cup {NoMac}
    PROVE  Same([m EXCEPT !.ring_prio = q, !.ring_mac = a, !.ring_mon_curr = 0], m)
BY ZenonT(40) DEF Instance

\* An address change is in no invariant.
LEMMA MacKeeps ==
    ASSUME NEW m \in Instance, NEW a \in Mac
    PROVE  Same([m EXCEPT !.macaddr = a], m)
BY DEF Instance

\* Recording a link state changes no state machine.
LEMMA OperKeeps ==
    ASSUME NEW m \in Instance, NEW p \in RingPort, NEW s \in OperState
    PROVE  Same([m EXCEPT !.operstate = [@ EXCEPT ![p] = s]], m)
BY DEF Instance

\* Forgetting the outputs changes nothing else.
LEMMA IdleKeeps ==
    ASSUME NEW m \in Instance
    PROVE  Same(Idle(m), m) /\ Idle(m).macaddr = m.macaddr
BY ZenonT(40) DEF Idle, Instance

\* Starting and stopping the announcement cycle.
LEMMA TopoStartKeeps ==
    ASSUME NEW m \in Instance
    PROVE  Same(mrp_ring_topo_start(m), m)
BY ZenonT(40) DEF mrp_ring_topo_start, ev_timer_again, RingTimer, Instance

\* The same for stopping it.
LEMMA TopoStopKeeps ==
    ASSUME NEW m \in Instance
    PROVE  Same(mrp_ring_topo_stop(m), m)
BY ZenonT(40) DEF mrp_ring_topo_stop, ev_timer_stop, RingTimer, Instance

(***************************************************************************)
(* Operations with an effect that an invariant looks at.                   *)
(***************************************************************************)
\* ev_timer_again arms t and no other timer.
Armed(r, m, t) ==
    /\ r \in Instance /\ KeepsRole(r, m) /\ KeepsPorts(r, m)
    /\ r.timers = m.timers \cup {t}
    /\ t # "ring_test" => KeepsManager(r, m)
    /\ t \notin {"ring_link_up", "ring_link_down"} => KeepsClient(r, m)
    /\ r.mrm_state = m.mrm_state /\ r.mrc_state = m.mrc_state
    /\ r.ring_test_curr = m.ring_test_curr
    /\ r.ring_test_curr_max = m.ring_test_curr_max
    /\ r.ring_link_curr_max = m.ring_link_curr_max

\* ev_timer_again has that effect.
LEMMA TimerAgain ==
    ASSUME NEW m \in Instance, NEW t \in RingTimer
    PROVE  Armed(ev_timer_again(m, t), m, t)
BY DEF Armed, ev_timer_again, RingTimer, Instance

\* ev_timer_stop disarms t and no other timer.
Disarmed(r, m, t) ==
    /\ r \in Instance /\ KeepsRole(r, m) /\ KeepsPorts(r, m)
    /\ r.timers = m.timers \ {t}
    /\ t # "ring_test" => KeepsManager(r, m)
    /\ t \notin {"ring_link_up", "ring_link_down"} => KeepsClient(r, m)
    /\ r.mrm_state = m.mrm_state /\ r.mrc_state = m.mrc_state
    /\ r.ring_test_curr = m.ring_test_curr
    /\ r.ring_test_curr_max = m.ring_test_curr_max
    /\ r.ring_link_curr_max = m.ring_link_curr_max

\* ev_timer_stop has that effect.
LEMMA TimerStop ==
    ASSUME NEW m \in Instance, NEW t \in RingTimer
    PROVE  Disarmed(ev_timer_stop(m, t), m, t)
BY DEF Disarmed, ev_timer_stop, RingTimer, Instance

\* mrp_port_set_state changes the state of one port.
PortSet(r, m, p, s) ==
    /\ r \in Instance /\ KeepsRole(r, m) /\ KeepsManager(r, m) /\ KeepsClient(r, m)
    /\ r.p_port = m.p_port /\ r.s_port = m.s_port
    /\ r.state = [m.state EXCEPT ![p] = s]

\* mrp_port_set_state has that effect.
LEMMA SetState ==
    ASSUME NEW m \in Instance, NEW p \in RingPort, NEW s \in PortState
    PROVE  PortSet(mrp_port_set_state(m, p, s), m, p, s)
BY DEF PortSet, mrp_port_set_state, Instance

\* mrp_set_mrm_state changes the manager's state.
MrmSet(r, m, s) ==
    /\ r \in Instance /\ KeepsRole(r, m) /\ KeepsPorts(r, m) /\ KeepsClient(r, m)
    /\ r.mrm_state = s /\ r.timers = m.timers
    /\ r.ring_test_curr = m.ring_test_curr
    /\ r.ring_test_curr_max = m.ring_test_curr_max

\* mrp_set_mrm_state has that effect.
LEMMA SetMrm ==
    ASSUME NEW m \in Instance, NEW s \in MrmState
    PROVE  MrmSet(mrp_set_mrm_state(m, s), m, s)
BY ZenonT(40) DEF MrmSet, mrp_set_mrm_state, Instance

\* mrp_set_mrc_state changes the client's state.
MrcSet(r, m, s) ==
    /\ r \in Instance /\ KeepsRole(r, m) /\ KeepsPorts(r, m) /\ KeepsManager(r, m)
    /\ r.mrc_state = s /\ r.timers = m.timers
    /\ r.ring_link_curr_max = m.ring_link_curr_max

\* mrp_set_mrc_state has that effect.
LEMMA SetMrc ==
    ASSUME NEW m \in Instance, NEW s \in MrcState
    PROVE  MrcSet(mrp_set_mrc_state(m, s), m, s)
BY DEF MrcSet, mrp_set_mrc_state, Instance

\* mrp_set_ring_role changes the role only.
RoleSet(r, m, s) ==
    /\ r \in Instance /\ KeepsPorts(r, m) /\ KeepsManager(r, m) /\ KeepsClient(r, m)
    /\ r.ring_role = s /\ r.mra_support = m.mra_support /\ r.in_role = m.in_role

\* mrp_set_ring_role has that effect.
LEMMA SetRole ==
    ASSUME NEW m \in Instance, NEW s \in RingRole
    PROVE  RoleSet(mrp_set_ring_role(m, s), m, s)
BY DEF RoleSet, mrp_set_ring_role, Instance

\* mrp_set_mrm_init resets the count of unanswered tests, not its limit.
MrmReset(r, m) ==
    /\ r \in Instance /\ KeepsRole(r, m) /\ KeepsPorts(r, m) /\ KeepsClient(r, m)
    /\ r.mrm_state = m.mrm_state /\ r.timers = m.timers
    /\ r.ring_test_curr = 0 /\ r.ring_test_curr_max = m.ring_test_curr_max

\* mrp_set_mrm_init has that effect.
LEMMA InitMrm ==
    ASSUME NEW m \in Instance
    PROVE  MrmReset(mrp_set_mrm_init(m), m)
BY ZenonT(40) DEF MrmReset, mrp_set_mrm_init, Instance

\* mrp_set_mrc_init restarts the countdown of link announcements.
MrcReset(r, m) ==
    /\ r \in Instance /\ KeepsRole(r, m) /\ KeepsPorts(r, m) /\ KeepsManager(r, m)
    /\ r.mrc_state = m.mrc_state /\ r.timers = m.timers
    /\ r.ring_link_curr_max = ring_link_conf_max

\* mrp_set_mrc_init has that effect.
LEMMA InitMrc ==
    ASSUME NEW m \in Instance
    PROVE  MrcReset(mrp_set_mrc_init(m), m)
BY ZenonT(40), ConfAssumption DEF MrcReset, mrp_set_mrc_init, Instance

\* RestartCount resets the count and its limit.
CountRestarted(r, m) ==
    /\ r \in Instance /\ KeepsRole(r, m) /\ KeepsPorts(r, m) /\ KeepsClient(r, m)
    /\ r.mrm_state = m.mrm_state /\ r.timers = m.timers
    /\ r.ring_test_curr = 0 /\ r.ring_test_curr_max = ring_test_conf_max - 1

\* RestartCount has that effect.
LEMMA Restart ==
    ASSUME NEW m \in Instance
    PROVE  CountRestarted(RestartCount(m), m)
<1>1. ring_test_conf_max - 1 \in Nat /\ 0 \in Nat
  BY ConfAssumption
<1>. QED
  BY ZenonT(40), <1>1 DEF CountRestarted, RestartCount, Instance

\* A LinkUp announcement resets the limit only.
LimitRestarted(r, m) ==
    /\ r \in Instance /\ KeepsRole(r, m) /\ KeepsPorts(r, m) /\ KeepsClient(r, m)
    /\ r.mrm_state = m.mrm_state /\ r.timers = m.timers
    /\ r.ring_test_curr = m.ring_test_curr
    /\ r.ring_test_curr_max = ring_test_conf_max - 1

\* The assignment to ring_test_curr_max has that effect.
LEMMA LimitSet ==
    ASSUME NEW m \in Instance
    PROVE  LimitRestarted([m EXCEPT !.ring_test_curr_max = ring_test_conf_max - 1], m)
BY ConfAssumption DEF LimitRestarted, Instance

\* RestartLink restarts the countdown of link announcements.
LinkRestarted(r, m) ==
    /\ r \in Instance /\ KeepsRole(r, m) /\ KeepsPorts(r, m) /\ KeepsManager(r, m)
    /\ r.mrc_state = m.mrc_state /\ r.timers = m.timers
    /\ r.ring_link_curr_max = ring_link_conf_max

\* RestartLink has that effect.
LEMMA RestartUp ==
    ASSUME NEW m \in Instance
    PROVE  LinkRestarted(RestartLink(m), m)
BY ConfAssumption DEF LinkRestarted, RestartLink, Instance

\* One step of that countdown.
LinkCounted(r, m, k) ==
    /\ r \in Instance /\ KeepsRole(r, m) /\ KeepsPorts(r, m) /\ KeepsManager(r, m)
    /\ r.mrc_state = m.mrc_state /\ r.timers = m.timers
    /\ r.ring_link_curr_max = k

\* The assignment to ring_link_curr_max has that effect.
LEMMA LinkCount ==
    ASSUME NEW m \in Instance, NEW k \in Nat
    PROVE  LinkCounted([m EXCEPT !.ring_link_curr_max = k], m, k)
BY DEF LinkCounted, Instance

\* One unanswered test interval more.
TestCounted(r, m, k) ==
    /\ r \in Instance /\ KeepsRole(r, m) /\ KeepsPorts(r, m) /\ KeepsClient(r, m)
    /\ r.mrm_state = m.mrm_state /\ r.timers = m.timers
    /\ r.ring_test_curr = k /\ r.ring_test_curr_max = m.ring_test_curr_max

\* The assignment to ring_test_curr and add_test has that effect.
LEMMA TestCount ==
    ASSUME NEW m \in Instance, NEW k \in Nat, NEW b \in BOOLEAN
    PROVE  TestCounted([m EXCEPT !.ring_test_curr = k, !.add_test = b], m, k)
BY ZenonT(40) DEF TestCounted, Instance

\* Promote makes p the primary port and keeps the two apart.
Promoted(r, m, p) ==
    /\ r \in Instance /\ KeepsRole(r, m) /\ KeepsManager(r, m) /\ KeepsClient(r, m)
    /\ r.state = m.state /\ r.p_port = p
    /\ m.p_port # m.s_port => r.s_port # p

\* Promote has that effect.
LEMMA PromotePorts ==
    ASSUME NEW m \in Instance, NEW p \in RingPort
    PROVE  Promoted(Promote(m, p), m, p)
<1>1. CASE p = m.p_port
  BY <1>1 DEF Promoted, Promote
<1>2. CASE p # m.p_port
  <2>1. Promote(m, p) = [m EXCEPT !.s_port = m.p_port, !.p_port = p]
    BY <1>2 DEF Promote
  <2>2. m.p_port \in RingPort
    BY DEF Instance
  <2>3. ASSUME NEW q \in RingPort
        PROVE  [m EXCEPT !.s_port = q, !.p_port = p] \in Instance
    BY ZenonT(40) DEF Instance
  <2>4. Promote(m, p) \in Instance
    BY Zenon, <2>1, <2>2, <2>3
  <2>5. /\ KeepsRole(Promote(m, p), m) /\ KeepsManager(Promote(m, p), m)
        /\ KeepsClient(Promote(m, p), m) /\ Promote(m, p).state = m.state
        /\ Promote(m, p).p_port = p /\ Promote(m, p).s_port = m.p_port
    BY <2>1 DEF Instance
  <2>. QED
    BY <1>2, <2>4, <2>5 DEF Promoted
<1>. QED
  BY <1>1, <1>2

\* Demote makes p the secondary port.
Demoted(r, m, p) ==
    /\ r \in Instance /\ KeepsRole(r, m) /\ KeepsManager(r, m) /\ KeepsClient(r, m)
    /\ r.state = m.state /\ r.p_port = m.s_port /\ r.s_port = p

\* Demote has that effect.
LEMMA DemotePorts ==
    ASSUME NEW m \in Instance, NEW p \in RingPort
    PROVE  Demoted(Demote(m, p), m, p)
BY ZenonT(40) DEF Demoted, Demote, Instance

(***************************************************************************)
(* Requests.                                                               *)
(***************************************************************************)
\* Two operations that keep everything keep everything together.
LEMMA SameTransitive ==
    ASSUME NEW a, NEW b, NEW c, Same(a, b), Same(b, c)
    PROVE  Same(a, c)
OBVIOUS

\* The frames that requests build are frames.
LEMMA FramesBuilt ==
    ASSUME NEW m \in Instance
    PROVE  /\ [type |-> "RING_TEST", sa |-> m.macaddr, prio |-> m.prio] \in Frame
           /\ [type |-> "RING_LINK_UP"] \in Frame /\ [type |-> "RING_LINK_DOWN"] \in Frame
           /\ \A a \in Mac : [type |-> "OPTION", sub |-> "TEST_MGR_NACK", sa |-> m.macaddr,
                              prio |-> m.prio, other_sa |-> a] \in Frame
           /\ [type |-> "OPTION", sub |-> "TEST_PROPAGATE", sa |-> m.macaddr, prio |-> m.prio,
               other_sa |-> m.ring_mac, other_prio |-> m.ring_prio] \in Frame
BY DEF Frame, TestFrame, LinkFrame, NackFrame, PropFrame, Instance

\* mrp_ring_test_req leaves the test timer running and keeps the rest.
TestRequested(r, m) ==
    /\ r \in Instance /\ KeepsRole(r, m) /\ KeepsPorts(r, m) /\ KeepsClient(r, m)
    /\ r.mrm_state = m.mrm_state /\ "ring_test" \in r.timers
    /\ r.ring_test_curr = m.ring_test_curr
    /\ r.ring_test_curr_max = m.ring_test_curr_max

\* mrp_ring_test_req has that effect.
LEMMA TestReq ==
    ASSUME NEW m \in Instance
    PROVE  TestRequested(mrp_ring_test_req(m), m)
<1> DEFINE f == [type |-> "RING_TEST", sa |-> m.macaddr, prio |-> m.prio]
           sent == mrp_send(m, BothPorts(m), f)
<1>1. BothPorts(m) \in SUBSET RingPort /\ f \in Frame
  BY Zenon, FramesBuilt DEF BothPorts, Instance
<1>2. Same(sent, m)
  BY <1>1, SendKeeps
<1>3. "ring_test" \in RingTimer
  BY DEF RingTimer
<1>4. mrp_ring_test_req(m) = ev_timer_again(sent, "ring_test")
  BY DEF mrp_ring_test_req
<1> HIDE DEF sent
<1>. QED
  BY <1>2, <1>3, <1>4, TimerAgain DEF TestRequested, Armed

\* The announcements keep everything that the invariants look at.
LEMMA TopoSendKeeps ==
    ASSUME NEW m \in Instance, NEW time \in Nat
    PROVE  Same(mrp_ring_topo_send(m, time), m)
<1>1. BothPorts(m) \in SUBSET RingPort
  BY DEF BothPorts, Instance
<1>2. ToUInt16(time \div 1000) \in UInt16
  <2>1. time \div 1000 \in Nat
    BY SMT
  <2>2. Size16 \in Nat \ {0}
    BY SMT DEF Size16
  <2>. QED
    BY <2>1, <2>2, SMT DEF UInt16, ToUInt16
<1> DEFINE f == [type |-> "RING_TOPO", sa |-> m.macaddr, interval |-> ToUInt16(time \div 1000)]
<1>3. f \in Frame
  BY <1>2 DEF Frame, TopoFrame, Instance
<1>4. mrp_ring_topo_send(m, time) = mrp_send(m, BothPorts(m), f)
  BY DEF mrp_ring_topo_send
<1> HIDE DEF f
<1>. QED
  BY <1>1, <1>3, <1>4, SendKeeps

\* So does a request for a topology change, at once or with a cycle.
LEMMA TopoReqKeeps ==
    ASSUME NEW m \in Instance, NEW time \in Nat
    PROVE  Same(mrp_ring_topo_req(m, time), m)
<1> DEFINE sent == mrp_ring_topo_send(m, time * ring_topo_conf_max)
<1>1. time * ring_topo_conf_max \in Nat
  BY ConfAssumption
<1>2. Same(sent, m)
  BY <1>1, TopoSendKeeps
<1>3. mrp_ring_topo_req(m, time) \in {ifdriver_flush(sent), mrp_ring_topo_start(sent)}
  BY DEF mrp_ring_topo_req
<1> HIDE DEF sent
<1>4. sent \in Instance
  BY <1>2
<1>. QED
  BY <1>2, <1>3, <1>4, FlushKeeps, TopoStartKeeps, SameTransitive

\* And the announcement of a link change.
LEMMA LinkReqKeeps ==
    ASSUME NEW m \in Instance, NEW up \in BOOLEAN
    PROVE  Same(mrp_ring_link_req(m, up), m)
<1>1. {m.p_port} \in SUBSET RingPort
  BY DEF Instance
<1>2. [type |-> IF up THEN "RING_LINK_UP" ELSE "RING_LINK_DOWN"] \in Frame
  BY Zenon, FramesBuilt
<1>. QED
  BY <1>1, <1>2, SendKeeps DEF mrp_ring_link_req

\* And the two frames that automanagers exchange.
LEMMA OptionReqKeeps ==
    ASSUME NEW m \in Instance, NEW sa \in Mac
    PROVE  Same(mrp_test_mgr_nack_req(m, sa), m) /\ Same(mrp_test_prop_req(m), m)
<1>1. BothPorts(m) \in SUBSET RingPort
  BY DEF BothPorts, Instance
<1> HIDE DEF Same
<1>2. Same(mrp_test_mgr_nack_req(m, sa), m)
  BY Zenon, <1>1, FramesBuilt, SendKeeps DEF mrp_test_mgr_nack_req
<1>3. Same(mrp_test_prop_req(m), m)
  BY Zenon, <1>1, FramesBuilt, SendKeeps DEF mrp_test_prop_req
<1>. QED
  BY <1>2, <1>3

\* Starting the timer of the forwarding database, and its expiry.
LEMMA ClearFdbKeeps ==
    ASSUME NEW m \in Instance, NEW interval
    PROVE  Same(mrp_clear_fdb_start(m, interval), m) /\ Same(mrp_clear_fdb_expired(m), m)
<1>1. "clear_fdb" \in RingTimer
  BY DEF RingTimer
<1>2. ASSUME NEW x \in Instance
      PROVE  Same(ev_timer_stop(x, "clear_fdb"), x) /\ Same(ev_timer_again(x, "clear_fdb"), x)
  BY <1>1, TimerStop, TimerAgain DEF Armed, Disarmed
<1>3. Same(mrp_clear_fdb_expired(m), m)
  BY <1>2, FlushKeeps, SameTransitive DEF mrp_clear_fdb_expired
<1>4. Same(mrp_clear_fdb_start(m, interval), m)
  <2>1. CASE interval = 0
    BY <1>2, <2>1, FlushKeeps, SameTransitive DEF mrp_clear_fdb_start
  <2>2. CASE interval # 0
    BY <1>2, <2>2 DEF mrp_clear_fdb_start
  <2>. QED
    BY <2>1, <2>2
<1>. QED
  BY <1>3, <1>4

-----------------------------------------------------------------------------
HIDE DEF Same, KeepsRole, KeepsPorts, KeepsManager, KeepsClient

(***************************************************************************)
(* What every handler preserves, whatever role the instance has.           *)
(***************************************************************************)
Core(m) ==
    /\ m \in Instance
    /\ m.p_port # m.s_port
    /\ m.ring_test_curr_max >= ring_test_conf_max - 1
    /\ \A p \in RingPort : m.state[p] # "DISABLED"

Probing(m) == m.mrm_state # "AC_STAT1" => "ring_test" \in m.timers

\* A step of the manager's state machine.
ManagerStep(r, m) ==
    /\ Core(r) /\ KeepsRole(r, m) /\ KeepsClient(r, m)
    /\ Probing(m) => Probing(r)
    /\ PortsMatchManager(m) => PortsMatchManager(r)

\* Other than a test frame or an expiry it neither counts nor forgets unanswered
\* tests, and it starts the count when it closes the ring.
CountStarts(r, m) ==
    r.mrm_state = "CHK_RC" =>
        r.ring_test_curr = IF m.mrm_state = "CHK_RC" THEN m.ring_test_curr ELSE 0

\* The types that the handlers' proofs need of an instance.
LEMMA CoreTypes ==
    ASSUME NEW m, Core(m)
    PROVE  /\ m \in Instance /\ m.p_port \in RingPort /\ m.s_port \in RingPort
           /\ m.p_port # m.s_port
           /\ m.state \in [RingPort -> PortState] /\ DOMAIN m.state = RingPort
           /\ m.mrm_state \in MrmState /\ m.mrc_state \in MrcState
           /\ m.ring_test_curr \in Nat /\ m.ring_test_curr_max \in Nat
           /\ m.ring_link_curr_max \in Nat /\ m.ring_topo_curr_max \in Nat
           /\ m.ring_mon_curr \in Nat
           /\ ring_test_conf_max \in Nat
BY ConfAssumption DEF Core, Instance

\* An operation that keeps everything is such a step.
LEMMA SameIsManagerStep ==
    ASSUME NEW m, Core(m), NEW r, Same(r, m)
    PROVE  ManagerStep(r, m) /\ CountStarts(r, m)
BY DEF Core, ManagerStep, CountStarts, Probing, PortsMatchManager,
       Same, KeepsRole, KeepsPorts, KeepsManager, KeepsClient

-----------------------------------------------------------------------------
(***************************************************************************)
(* The handlers of the manager.                                            *)
(***************************************************************************)
\* mrp_mrm_recv_ring_test: the ring closes and the count starts again.
LEMMA ManagerTest ==
    ASSUME NEW m, Core(m)
    PROVE  LET r == mrp_mrm_recv_ring_test(m)
           IN  ManagerStep(r, m) /\ (r.mrm_state = "CHK_RC" => r.ring_test_curr = 0)
<1> DEFINE r == mrp_mrm_recv_ring_test(m)
<1> SUFFICES ManagerStep(r, m) /\ (r.mrm_state = "CHK_RC" => r.ring_test_curr = 0)
  OBVIOUS
<1>1. CASE m.mrm_state = "PRM_UP"
  <2> DEFINE m1 == RestartCount(m)
             m2 == mrp_ring_test_req(m1)
  <2>1. r = mrp_set_mrm_state(m2, "CHK_RC")
    BY <1>1 DEF mrp_mrm_recv_ring_test
  <2>2. CountRestarted(m1, m) /\ TestRequested(m2, m1) /\ MrmSet(r, m2, "CHK_RC")
    BY <2>1, CoreTypes, Restart, TestReq, SetMrm DEF CountRestarted, TestRequested, MrmState
  <2> HIDE DEF m1, m2, r
  <2>. QED
    BY <1>1, <2>2, CoreTypes, ConfAssumption
       DEF CountRestarted, TestRequested, MrmSet, ManagerStep, Core, Probing,
           PortsMatchManager,
           KeepsRole, KeepsPorts, KeepsClient
<1>2. CASE m.mrm_state = "CHK_RO"
  <2> DEFINE time == IF m.react_on_link_change THEN 0 ELSE ring_topo_conf_interval
             m1 == mrp_port_set_state(m, m.s_port, "BLOCKED")
             m2 == RestartCount(m1)
             m3 == mrp_ring_test_req(m2)
             m4 == mrp_ring_topo_req(m3, time)
  <2>1. r = mrp_set_mrm_state(m4, "CHK_RC")
    BY <1>2 DEF mrp_mrm_recv_ring_test
  <2>2. time \in Nat
    BY ConfAssumption
  <2>3. PortSet(m1, m, m.s_port, "BLOCKED")
    BY CoreTypes, SetState DEF PortState
  <2>4. CountRestarted(m2, m1) /\ TestRequested(m3, m2)
    BY <2>3, Restart, TestReq DEF PortSet, CountRestarted
  <2>5. Same(m4, m3) /\ MrmSet(r, m4, "CHK_RC")
    BY <2>1, <2>2, <2>4, TopoReqKeeps, SetMrm DEF TestRequested, Same, MrmState
  <2> HIDE DEF m1, m2, m3, m4, r
  <2>. QED
    BY <1>2, <2>3, <2>4, <2>5, CoreTypes
       DEF PortSet, CountRestarted, TestRequested, MrmSet, ManagerStep, Core, Probing,
           PortsMatchManager, Same, KeepsRole, KeepsPorts, KeepsManager, KeepsClient
<1>3. CASE m.mrm_state = "CHK_RC"
  <2> DEFINE m1 == RestartCount(m)
  <2>1. r = [m1 EXCEPT !.no_tc = FALSE]
    BY <1>3 DEF mrp_mrm_recv_ring_test
  <2>2. CountRestarted(m1, m)
    BY CoreTypes, Restart
  <2> HIDE DEF m1
  <2>3. Same(r, m1)
    BY Zenon, <2>1, <2>2, NoTcKeeps DEF CountRestarted
  <2> HIDE DEF r
  <2>. QED
    BY <1>3, <2>2, <2>3, CoreTypes
       DEF CountRestarted, ManagerStep, Core, Probing, PortsMatchManager,
           Same, KeepsRole, KeepsPorts, KeepsManager, KeepsClient
<1>4. CASE m.mrm_state = "AC_STAT1"
  BY <1>4 DEF mrp_mrm_recv_ring_test, ManagerStep, KeepsRole, KeepsClient
<1>. QED
  BY <1>1, <1>2, <1>3, <1>4, CoreTypes DEF MrmState

\* A client's announcement makes a manager probe, and changes nothing else.
Probed(r, m) ==
    /\ r \in Instance /\ KeepsRole(r, m) /\ KeepsPorts(r, m) /\ KeepsClient(r, m)
    /\ r.mrm_state = m.mrm_state
    /\ "ring_test" \in m.timers => "ring_test" \in r.timers
    /\ r.ring_test_curr = m.ring_test_curr
    /\ r.ring_test_curr_max = m.ring_test_curr_max

\* ProbeOnce, with or without a flush after it.
LEMMA ProbeOnceProbes ==
    ASSUME NEW m \in Instance
    PROVE  Probed(ProbeOnce(m), m) /\ Probed(mrp_ring_topo_req(ProbeOnce(m), 0), m)
<1>1. Probed(ProbeOnce(m), m)
  <2>1. CASE m.add_test
    BY <2>1 DEF ProbeOnce, Probed, KeepsRole, KeepsPorts, KeepsClient
  <2>2. CASE ~m.add_test
    <3> DEFINE m1 == [m EXCEPT !.add_test = TRUE]
    <3>1. Same(m1, m)
      BY Zenon, AddTestKeeps
    <3>2. ProbeOnce(m) = mrp_ring_test_req(m1)
      BY <2>2 DEF ProbeOnce
    <3> HIDE DEF m1
    <3>3. TestRequested(ProbeOnce(m), m1)
      BY <3>1, <3>2, TestReq DEF Same
    <3>. QED
      BY <3>1, <3>3
         DEF TestRequested, Probed, Same, KeepsRole, KeepsPorts, KeepsManager, KeepsClient
  <2>. QED
    BY <2>1, <2>2
<1>2. Same(mrp_ring_topo_req(ProbeOnce(m), 0), ProbeOnce(m))
  BY <1>1, TopoReqKeeps DEF Probed
<1>. QED
  BY <1>1, <1>2 DEF Probed, Same, KeepsRole, KeepsPorts, KeepsManager, KeepsClient

\* Probing is a step of the manager that leaves its ports and its count alone.
LEMMA ProbedIsManagerStep ==
    ASSUME NEW m, Core(m), NEW r, Probed(r, m)
    PROVE  ManagerStep(r, m) /\ CountStarts(r, m)
BY DEF Core, ManagerStep, CountStarts, Probing, PortsMatchManager, Probed,
       KeepsRole, KeepsPorts, KeepsClient

\* mrp_recv_ring_link: a client announced a link change.
LEMMA ManagerLink ==
    ASSUME NEW m, Core(m), NEW type \in {"RING_LINK_UP", "RING_LINK_DOWN"}
    PROVE  LET r == mrp_recv_ring_link(m, type) IN ManagerStep(r, m) /\ CountStarts(r, m)
<1> DEFINE r == mrp_recv_ring_link(m, type)
<1> SUFFICES ManagerStep(r, m) /\ CountStarts(r, m)
  OBVIOUS
<1>1. Same(m, m)
  BY CoreTypes DEF Same, KeepsRole, KeepsPorts, KeepsManager, KeepsClient
<1>2. m.blocked \in BOOLEAN /\ m.react_on_link_change \in BOOLEAN
  BY CoreTypes DEF Instance
<1>3. CASE r \in {m, ProbeOnce(m), mrp_ring_topo_req(ProbeOnce(m), 0)}
  BY <1>1, <1>3, CoreTypes, ProbeOnceProbes, ProbedIsManagerStep, SameIsManagerStep
<1>4. CASE m.mrm_state \in {"AC_STAT1", "PRM_UP"}
  BY <1>2, <1>3, <1>4 DEF mrp_recv_ring_link, mrp_recv_ring_link_PRM_UP
<1>5. CASE m.mrm_state = "CHK_RO"
  <2>1. CASE m.blocked \/ type = "RING_LINK_DOWN"
    BY <1>3, <1>5, <2>1 DEF mrp_recv_ring_link, mrp_recv_ring_link_CHK_RO
  <2>2. CASE ~(m.blocked \/ type = "RING_LINK_DOWN")
    <3> DEFINE m1 == mrp_port_set_state(m, m.s_port, "BLOCKED")
               m2 == RestartCount(m1)
               m3 == mrp_ring_test_req(m2)
               m4 == [m3 EXCEPT !.add_test = TRUE]
               m5 == mrp_ring_topo_req(m4, 0)
    <3>1. r = mrp_set_mrm_state(m5, "CHK_RC")
      BY <1>5, <2>2 DEF mrp_recv_ring_link, mrp_recv_ring_link_CHK_RO
    <3>2. PortSet(m1, m, m.s_port, "BLOCKED")
      BY CoreTypes, SetState DEF PortState
    <3>3. CountRestarted(m2, m1) /\ TestRequested(m3, m2)
      BY <3>2, Restart, TestReq DEF PortSet, CountRestarted
    <3> HIDE DEF m3
    <3>4. Same(m4, m3)
      BY Zenon, <3>3, AddTestKeeps DEF TestRequested
    <3> HIDE DEF m4
    <3>5. Same(m5, m4) /\ MrmSet(r, m5, "CHK_RC")
      BY <3>1, <3>4, TopoReqKeeps, SetMrm DEF Same, MrmState
    <3> HIDE DEF m1, m2, m5, r
    <3>. QED
      BY <1>5, <3>2, <3>3, <3>4, <3>5, CoreTypes
         DEF PortSet, CountRestarted, TestRequested, MrmSet, ManagerStep, CountStarts, Core,
             Probing, PortsMatchManager, Same, KeepsRole, KeepsPorts, KeepsManager, KeepsClient
  <2>. QED
    BY <2>1, <2>2
<1>6. CASE m.mrm_state = "CHK_RC"
  <2>1. CASE ~m.react_on_link_change
    BY <1>3, <1>6, <2>1 DEF mrp_recv_ring_link, mrp_recv_ring_link_CHK_RC
  <2>2. CASE m.react_on_link_change /\ type = "RING_LINK_DOWN"
    <3> DEFINE m1 == mrp_port_set_state(m, m.s_port, "FORWARDING")
               m2 == mrp_ring_topo_req(m1, 0)
    <3>1. r = mrp_set_mrm_state(m2, "CHK_RO")
      BY <1>2, <1>6, <2>2 DEF mrp_recv_ring_link, mrp_recv_ring_link_CHK_RC
    <3>2. PortSet(m1, m, m.s_port, "FORWARDING")
      BY CoreTypes, SetState DEF PortState
    <3>3. Same(m2, m1) /\ MrmSet(r, m2, "CHK_RO")
      BY <3>1, <3>2, TopoReqKeeps, SetMrm DEF PortSet, Same, MrmState
    <3> HIDE DEF m1, m2, r
    <3>. QED
      BY <1>6, <3>2, <3>3, CoreTypes
         DEF PortSet, MrmSet, ManagerStep, CountStarts, Core, Probing, PortsMatchManager,
             Same, KeepsRole, KeepsPorts, KeepsManager, KeepsClient
  <2>3. CASE m.react_on_link_change /\ type = "RING_LINK_UP"
    <3> DEFINE m1 == [m EXCEPT !.ring_test_curr_max = ring_test_conf_max - 1]
    <3>1. r = mrp_ring_topo_req(m1, 0)
      BY <1>2, <1>6, <2>3 DEF mrp_recv_ring_link, mrp_recv_ring_link_CHK_RC
    <3>2. LimitRestarted(m1, m)
      BY CoreTypes, LimitSet
    <3> HIDE DEF m1
    <3>3. Same(r, m1)
      BY <3>1, <3>2, TopoReqKeeps DEF LimitRestarted
    <3> HIDE DEF r
    <3>. QED
      BY <1>6, <3>2, <3>3, CoreTypes
         DEF LimitRestarted, ManagerStep, CountStarts, Core, Probing, PortsMatchManager,
             Same, KeepsRole, KeepsPorts, KeepsManager, KeepsClient
  <2>. QED
    BY <1>2, <2>1, <2>2, <2>3
<1>. QED
  BY <1>4, <1>5, <1>6, CoreTypes DEF MrmState

\* mrp_mrm_port_link: the link of a ring port changed.
LEMMA ManagerPortLink ==
    ASSUME NEW m, Core(m), NEW p \in RingPort, NEW up \in BOOLEAN
    PROVE  LET r == mrp_mrm_port_link(m, p, up) IN ManagerStep(r, m) /\ CountStarts(r, m)
<1> DEFINE r == mrp_mrm_port_link(m, p, up)
<1> SUFFICES ManagerStep(r, m) /\ CountStarts(r, m)
  OBVIOUS
<1>1. CASE r = m
  <2>1. Same(r, m)
    BY <1>1, CoreTypes DEF Same, KeepsRole, KeepsPorts, KeepsManager, KeepsClient
  <2>. QED
    BY <2>1, SameIsManagerStep
<1>2. CASE m.mrm_state = "AC_STAT1" /\ up
  <2> DEFINE m1 == Promote(m, p)
             m2 == mrp_port_set_state(m1, p, "FORWARDING")
             m3 == mrp_ring_test_req(m2)
  <2>1. r = mrp_set_mrm_state(m3, "PRM_UP")
    BY <1>2 DEF mrp_mrm_port_link
  <2>2. Promoted(m1, m, p) /\ PortSet(m2, m1, p, "FORWARDING")
    BY CoreTypes, PromotePorts, SetState DEF Promoted, PortState
  <2>3. TestRequested(m3, m2) /\ MrmSet(r, m3, "PRM_UP")
    BY <2>1, <2>2, TestReq, SetMrm DEF PortSet, TestRequested, MrmState
  <2>4. m1.s_port \in RingPort
    BY <2>2 DEF Promoted, Instance
  <2> HIDE DEF m1, m2, m3, r
  <2>. QED
    BY <1>2, <2>2, <2>3, <2>4, CoreTypes
       DEF Promoted, PortSet, TestRequested, MrmSet, ManagerStep, CountStarts, Core,
           Probing,
           PortsMatchManager, RingPort, KeepsRole, KeepsPorts, KeepsManager, KeepsClient
<1>3. CASE m.mrm_state = "PRM_UP" /\ ~up /\ p = m.p_port
  <2> DEFINE m1 == ev_timer_stop(m, "ring_test")
             m2 == mrp_port_set_state(m1, p, "BLOCKED")
  <2>1. r = mrp_set_mrm_state(m2, "AC_STAT1")
    BY <1>3 DEF mrp_mrm_port_link
  <2>2. Disarmed(m1, m, "ring_test")
    BY CoreTypes, TimerStop DEF RingTimer
  <2>3. PortSet(m2, m1, p, "BLOCKED") /\ MrmSet(r, m2, "AC_STAT1")
    BY Zenon, <2>1, <2>2, SetState, SetMrm DEF Disarmed, PortSet, PortState, MrmState
  <2> HIDE DEF m1, m2, r
  <2>. QED
    BY <1>3, <2>2, <2>3, CoreTypes
       DEF Disarmed, PortSet, MrmSet, ManagerStep, CountStarts, Core, Probing,
           PortsMatchManager, KeepsRole, KeepsPorts, KeepsManager, KeepsClient
<1>4. CASE m.mrm_state = "PRM_UP" /\ up /\ p # m.p_port
  <2> DEFINE m1 == RestartCount(m)
             m2 == [m1 EXCEPT !.no_tc = TRUE]
             m3 == mrp_ring_test_req(m2)
  <2>1. r = mrp_set_mrm_state(m3, "CHK_RC")
    BY <1>4 DEF mrp_mrm_port_link
  <2>2. CountRestarted(m1, m)
    BY CoreTypes, Restart
  <2> HIDE DEF m1
  <2>3. Same(m2, m1)
    BY Zenon, <2>2, NoTcKeeps DEF CountRestarted
  <2> HIDE DEF m2
  <2>4. TestRequested(m3, m2) /\ MrmSet(r, m3, "CHK_RC")
    BY <2>1, <2>3, TestReq, SetMrm DEF Same, TestRequested, MrmState
  <2> HIDE DEF m3, r
  <2>. QED
    BY <1>4, <2>2, <2>3, <2>4, CoreTypes
       DEF CountRestarted, TestRequested, MrmSet, ManagerStep, CountStarts, Core, Probing,
           PortsMatchManager, Same, KeepsRole, KeepsPorts, KeepsManager, KeepsClient
<1>5. CASE m.mrm_state = "CHK_RO" /\ ~up /\ p = m.p_port
  <2> DEFINE m1 == Demote(m, p)
             m2 == mrp_port_set_state(m1, p, "BLOCKED")
             m3 == mrp_ring_test_req(m2)
             m4 == mrp_ring_topo_req(m3, ring_topo_conf_interval)
  <2>1. r = mrp_set_mrm_state(m4, "PRM_UP")
    BY <1>5 DEF mrp_mrm_port_link
  <2>2. Demoted(m1, m, p) /\ PortSet(m2, m1, p, "BLOCKED")
    BY CoreTypes, DemotePorts, SetState DEF Demoted, PortState
  <2>3. TestRequested(m3, m2) /\ Same(m4, m3)
    BY <2>2, TestReq, TopoReqKeeps, ConfAssumption DEF PortSet, TestRequested
  <2>4. MrmSet(r, m4, "PRM_UP")
    BY <2>1, <2>3, SetMrm DEF Same, MrmState
  <2> HIDE DEF m1, m2, m3, m4, r
  <2>. QED
    BY <1>5, <2>2, <2>3, <2>4, CoreTypes
       DEF Demoted, PortSet, TestRequested, MrmSet, ManagerStep, CountStarts, Core, Probing,
           PortsMatchManager, Same, KeepsRole, KeepsPorts, KeepsManager, KeepsClient
<1>6. CASE m.mrm_state = "CHK_RO" /\ ~up /\ p # m.p_port
  <2> DEFINE m1 == mrp_port_set_state(m, m.s_port, "BLOCKED")
  <2>1. r = mrp_set_mrm_state(m1, "PRM_UP")
    BY <1>6 DEF mrp_mrm_port_link
  <2>2. PortSet(m1, m, m.s_port, "BLOCKED")
    BY CoreTypes, SetState DEF PortState
  <2>3. MrmSet(r, m1, "PRM_UP")
    BY <2>1, <2>2, SetMrm DEF PortSet, MrmState
  <2> HIDE DEF m1, r
  <2>. QED
    BY <1>6, <2>2, <2>3, CoreTypes
       DEF PortSet, MrmSet, ManagerStep, CountStarts, Core, Probing,
           PortsMatchManager, KeepsRole, KeepsPorts, KeepsManager, KeepsClient
<1>7. CASE m.mrm_state = "CHK_RC" /\ ~up /\ p = m.p_port
  <2> DEFINE m1 == Demote(m, p)
             m2 == mrp_port_set_state(m1, p, "BLOCKED")
             m3 == mrp_port_set_state(m2, m.s_port, "FORWARDING")
             m4 == mrp_ring_test_req(m3)
             m5 == mrp_ring_topo_req(m4, ring_topo_conf_interval)
  <2>1. r = mrp_set_mrm_state(m5, "PRM_UP")
    BY <1>7 DEF mrp_mrm_port_link
  <2>2. Demoted(m1, m, p) /\ PortSet(m2, m1, p, "BLOCKED")
    BY CoreTypes, DemotePorts, SetState DEF Demoted, PortState
  <2> HIDE DEF m2
  <2>3. PortSet(m3, m2, m.s_port, "FORWARDING") /\ TestRequested(m4, m3)
    BY ZenonT(40), <2>2, CoreTypes, SetState, TestReq DEF PortSet, PortState
  <2>4. Same(m5, m4) /\ MrmSet(r, m5, "PRM_UP")
    BY <2>1, <2>3, TopoReqKeeps, SetMrm, ConfAssumption DEF TestRequested, Same, MrmState
  <2> HIDE DEF m1, m3, m4, m5, r
  <2>. QED
    BY <1>7, <2>2, <2>3, <2>4, CoreTypes
       DEF Demoted, PortSet, TestRequested, MrmSet, ManagerStep, CountStarts, Core, Probing,
           PortsMatchManager, Same, KeepsRole, KeepsPorts, KeepsManager, KeepsClient
<1>8. CASE m.mrm_state = "CHK_RC" /\ ~up /\ p # m.p_port
  <2>1. r = mrp_set_mrm_state(m, "PRM_UP")
    BY <1>8 DEF mrp_mrm_port_link
  <2>2. MrmSet(r, m, "PRM_UP")
    BY <2>1, CoreTypes, SetMrm DEF MrmState
  <2> HIDE DEF r
  <2>. QED
    BY <1>8, <2>2, CoreTypes
       DEF MrmSet, ManagerStep, CountStarts, Core, Probing, PortsMatchManager,
           KeepsRole, KeepsPorts, KeepsClient
<1>9. CASE \/ m.mrm_state = "AC_STAT1" /\ ~up
           \/ m.mrm_state = "PRM_UP" /\ up /\ p = m.p_port
           \/ m.mrm_state = "PRM_UP" /\ ~up /\ p # m.p_port
           \/ m.mrm_state \in {"CHK_RO", "CHK_RC"} /\ up
  BY <1>1, <1>9 DEF mrp_mrm_port_link
<1>. QED
  BY <1>2, <1>3, <1>4, <1>5, <1>6, <1>7, <1>8, <1>9, CoreTypes DEF MrmState

\* mrp_mrm_ring_test_expired counts, or opens a ring that was silent for long enough.
LEMMA ManagerExpiry ==
    ASSUME NEW m, Core(m)
    PROVE  LET r == mrp_mrm_ring_test_expired(m)
           IN  /\ ManagerStep(r, m)
               /\ r.mrm_state = "CHK_RC" =>
                    m.mrm_state = "CHK_RC" /\ r.ring_test_curr = m.ring_test_curr + 1
               /\ m.mrm_state = "CHK_RC" /\ r.mrm_state # "CHK_RC" =>
                    m.ring_test_curr >= m.ring_test_curr_max
<1> DEFINE r == mrp_mrm_ring_test_expired(m)
           Goal == /\ ManagerStep(r, m)
                   /\ r.mrm_state = "CHK_RC" =>
                        m.mrm_state = "CHK_RC" /\ r.ring_test_curr = m.ring_test_curr + 1
                   /\ m.mrm_state = "CHK_RC" /\ r.mrm_state # "CHK_RC" =>
                        m.ring_test_curr >= m.ring_test_curr_max
<1> SUFFICES Goal
  OBVIOUS
<1>1. CASE m.mrm_state \in {"PRM_UP", "CHK_RO"}
  <2> DEFINE m1 == [m EXCEPT !.add_test = FALSE]
  <2>1. r = mrp_ring_test_req(m1)
    BY <1>1 DEF mrp_mrm_ring_test_expired
  <2>2. Same(m1, m)
    BY Zenon, CoreTypes, AddTestKeeps
  <2> HIDE DEF m1
  <2>3. TestRequested(r, m1)
    BY <2>1, <2>2, TestReq DEF Same
  <2> HIDE DEF r
  <2>. QED
    BY <1>1, <2>2, <2>3, CoreTypes
       DEF TestRequested, ManagerStep, Core, Probing, PortsMatchManager,
           Same, KeepsRole, KeepsPorts, KeepsManager, KeepsClient
<1>2. CASE m.mrm_state = "CHK_RC" /\ m.ring_test_curr >= m.ring_test_curr_max
  <2> DEFINE m1 == mrp_port_set_state(m, m.s_port, "FORWARDING")
             m2 == RestartCount(m1)
             m3 == [m2 EXCEPT !.add_test = FALSE]
             m4 == IF m.no_tc THEN m3 ELSE mrp_ring_topo_req(m3, ring_topo_conf_interval)
             m5 == mrp_ring_test_req(m4)
  <2>1. r = mrp_set_mrm_state(m5, "CHK_RO")
    <3>1. r = OpenRing(m)
      BY <1>2, CoreTypes DEF mrp_mrm_ring_test_expired
    <3>2. OpenRing(m) = mrp_set_mrm_state(m5, "CHK_RO")
      BY Zenon DEF OpenRing
    <3>. QED
      BY <3>1, <3>2
  <2>2. PortSet(m1, m, m.s_port, "FORWARDING")
    BY CoreTypes, SetState DEF PortState
  <2>3. CountRestarted(m2, m1)
    BY <2>2, Restart DEF PortSet
  <2> HIDE DEF m2
  <2>4. Same(m3, m2)
    BY Zenon, <2>3, AddTestKeeps DEF CountRestarted
  <2> HIDE DEF m3
  <2>5. Same(m4, m3)
    BY <2>4, TopoReqKeeps, ConfAssumption
       DEF Same, KeepsRole, KeepsPorts, KeepsManager, KeepsClient
  <2> HIDE DEF m4
  <2>6. TestRequested(m5, m4) /\ MrmSet(r, m5, "CHK_RO")
    BY <2>1, <2>5, TestReq, SetMrm DEF Same, TestRequested, MrmState
  <2> HIDE DEF m1, m5, r
  <2>. QED
    BY <1>2, <2>2, <2>3, <2>4, <2>5, <2>6, CoreTypes
       DEF PortSet, CountRestarted, TestRequested, MrmSet, ManagerStep, Core, Probing,
           PortsMatchManager, Same, KeepsRole, KeepsPorts, KeepsManager, KeepsClient
<1>3. CASE m.mrm_state = "CHK_RC" /\ m.ring_test_curr < m.ring_test_curr_max
  <2> DEFINE m1 == [m EXCEPT !.ring_test_curr = m.ring_test_curr + 1, !.add_test = FALSE]
  <2>1. r = mrp_ring_test_req(m1)
    BY <1>3, CoreTypes DEF mrp_mrm_ring_test_expired
  <2>2. m.ring_test_curr + 1 \in Nat
    BY CoreTypes
  <2>3. TestCounted(m1, m, m.ring_test_curr + 1)
    BY Zenon, <2>2, CoreTypes, TestCount
  <2> HIDE DEF m1
  <2>4. TestRequested(r, m1)
    BY <2>1, <2>3, TestReq DEF TestCounted
  <2> HIDE DEF r
  <2>. QED
    BY <1>3, <2>3, <2>4, CoreTypes
       DEF TestCounted, TestRequested, ManagerStep, Core, Probing, PortsMatchManager,
           KeepsRole, KeepsPorts, KeepsClient
<1>4. CASE m.mrm_state = "AC_STAT1"
  BY <1>4 DEF mrp_mrm_ring_test_expired, ManagerStep, KeepsRole, KeepsClient
<1>. QED
  BY <1>1, <1>2, <1>3, <1>4, CoreTypes DEF MrmState

\* mrp_ring_topo_expired only announces and flushes.
LEMMA TopoExpiryKeeps ==
    ASSUME NEW m \in Instance
    PROVE  Same(mrp_ring_topo_expired(m), m)
<1>1. CASE m.ring_topo_curr_max > 0
  <2> DEFINE m1 == mrp_ring_topo_send(m, m.ring_topo_curr_max * ring_topo_conf_interval)
  <2>1. m.ring_topo_curr_max * ring_topo_conf_interval \in Nat
    BY ConfAssumption DEF Instance
  <2>2. Same(m1, m)
    BY <2>1, TopoSendKeeps
  <2>3. m1.ring_topo_curr_max = m.ring_topo_curr_max
    BY DEF mrp_ring_topo_send, mrp_send, Instance
  <2>4. mrp_ring_topo_expired(m)
          = [m1 EXCEPT !.ring_topo_curr_max = m1.ring_topo_curr_max - 1]
    BY <1>1 DEF mrp_ring_topo_expired
  <2> HIDE DEF m1
  <2>5. m1.ring_topo_curr_max - 1 \in Nat
    BY <1>1, <2>3 DEF Instance
  <2>6. Same(mrp_ring_topo_expired(m), m1)
    BY <2>2, <2>4, <2>5, TopoCountKeeps, Zenon DEF Same
  <2>. QED
    BY <2>2, <2>6, SameTransitive
<1>2. CASE ~(m.ring_topo_curr_max > 0)
  <2> DEFINE m1 == [m EXCEPT !.ring_topo_curr_max = ring_topo_conf_max - 1]
             m2 == ifdriver_flush(m1)
             m3 == mrp_ring_topo_send(m2, 0)
  <2>1. mrp_ring_topo_expired(m) = mrp_ring_topo_stop(m3)
    BY <1>2 DEF mrp_ring_topo_expired
  <2>2. ring_topo_conf_max - 1 \in Nat
    BY ConfAssumption
  <2>3. Same(m1, m)
    BY <2>2, TopoCountKeeps
  <2> HIDE DEF m1
  <2>4. Same(m2, m1) /\ Same(m3, m2) /\ Same(mrp_ring_topo_stop(m3), m3)
    BY <2>3, FlushKeeps, TopoSendKeeps, TopoStopKeeps DEF Same
  <2> HIDE DEF m2, m3
  <2>. QED
    BY <2>1, <2>3, <2>4, SameTransitive
<1>. QED
  BY <1>1, <1>2

-----------------------------------------------------------------------------
(***************************************************************************)
(* The handlers of the client.                                             *)
(***************************************************************************)
ClientStep(r, m) ==
    /\ Core(r) /\ KeepsRole(r, m) /\ KeepsManager(r, m)
    /\ PortsMatchClient(m) /\ TimersMatchClient(m) =>
          PortsMatchClient(r) /\ TimersMatchClient(r)

\* Other than an expiry it starts the countdown when it enters PT and keeps it there.
WaitStarts(r, m) ==
    r.mrc_state = "PT" =>
        r.ring_link_curr_max =
            IF m.mrc_state = "PT" THEN m.ring_link_curr_max ELSE ring_link_conf_max

\* An expiry counts one announcement, and leaves PT when none is left.
WaitCounts(r, m) ==
    IF r.mrc_state = "PT" THEN r.ring_link_curr_max = m.ring_link_curr_max - 1
                          ELSE m.ring_link_curr_max = 0

\* An operation that keeps everything is such a step.
LEMMA SameIsClientStep ==
    ASSUME NEW m, Core(m), NEW r, Same(r, m)
    PROVE  ClientStep(r, m) /\ WaitStarts(r, m)
BY DEF Core, ClientStep, WaitStarts, PortsMatchClient, TimersMatchClient,
       Same, KeepsRole, KeepsPorts, KeepsManager, KeepsClient

\* mrp_mrc_recv_ring_topo: a client that waits is released.
LEMMA ClientTopo ==
    ASSUME NEW m, Core(m), NEW interval
    PROVE  LET r == mrp_mrc_recv_ring_topo(m, interval)
           IN  ClientStep(r, m) /\ WaitStarts(r, m)
<1> DEFINE r == mrp_mrc_recv_ring_topo(m, interval)
<1> SUFFICES ClientStep(r, m) /\ WaitStarts(r, m)
  OBVIOUS
<1>1. CASE m.mrc_state \in {"DE_IDLE", "PT_IDLE"}
  <2>1. Same(r, m)
    BY <1>1, CoreTypes, ClearFdbKeeps DEF mrp_mrc_recv_ring_topo
  <2>. QED
    BY <2>1, SameIsClientStep
<1>2. CASE m.mrc_state = "PT"
  <2> DEFINE m1 == RestartLink(m)
             m2 == ev_timer_stop(m1, "ring_link_up")
             m3 == mrp_port_set_state(m2, m.s_port, "FORWARDING")
             m4 == mrp_clear_fdb_start(m3, interval)
  <2>1. r = mrp_set_mrc_state(m4, "PT_IDLE")
    BY <1>2 DEF mrp_mrc_recv_ring_topo
  <2>2. LinkRestarted(m1, m) /\ Disarmed(m2, m1, "ring_link_up")
    BY SMTT(30), CoreTypes, RestartUp, TimerStop DEF LinkRestarted, RingTimer
  <2> HIDE DEF m1, m2
  <2>3. PortSet(m3, m2, m.s_port, "FORWARDING")
    BY SMTT(30), <2>2, CoreTypes, SetState DEF Disarmed, PortState
  <2> HIDE DEF m3
  <2>4. Same(m4, m3) /\ MrcSet(r, m4, "PT_IDLE")
    BY <2>1, <2>3, ClearFdbKeeps, SetMrc DEF PortSet, Same, MrcState
  <2> HIDE DEF m4, r
  <2>. QED
    BY <1>2, <2>2, <2>3, <2>4, CoreTypes
       DEF LinkRestarted, Disarmed, PortSet, MrcSet, ClientStep, WaitStarts, Core,
           PortsMatchClient, TimersMatchClient,
           Same, KeepsRole, KeepsPorts, KeepsManager, KeepsClient
<1>3. CASE m.mrc_state = "DE"
  <2> DEFINE m1 == RestartLink(m)
             m2 == ev_timer_stop(m1, "ring_link_down")
             m3 == mrp_clear_fdb_start(m2, interval)
  <2>1. r = mrp_set_mrc_state(m3, "DE_IDLE")
    BY <1>3 DEF mrp_mrc_recv_ring_topo
  <2>2. LinkRestarted(m1, m) /\ Disarmed(m2, m1, "ring_link_down")
    BY CoreTypes, RestartUp, TimerStop DEF LinkRestarted, RingTimer
  <2> HIDE DEF m1, m2
  <2>3. Same(m3, m2) /\ MrcSet(r, m3, "DE_IDLE")
    BY <2>1, <2>2, ClearFdbKeeps, SetMrc DEF Disarmed, Same, MrcState
  <2> HIDE DEF m3, r
  <2>. QED
    BY <1>3, <2>2, <2>3, CoreTypes
       DEF LinkRestarted, Disarmed, MrcSet, ClientStep, WaitStarts, Core,
           PortsMatchClient, TimersMatchClient,
           Same, KeepsRole, KeepsPorts, KeepsManager, KeepsClient
<1>4. CASE m.mrc_state = "AC_STAT1"
  <2>1. Same(r, m)
    BY <1>4, CoreTypes
       DEF mrp_mrc_recv_ring_topo, Same, KeepsRole, KeepsPorts, KeepsManager, KeepsClient
  <2>. QED
    BY <2>1, SameIsClientStep
<1>. QED
  BY <1>1, <1>2, <1>3, <1>4, CoreTypes DEF MrcState

\* AnnounceUp and AnnounceDown, as relations.
AnnouncedUp(r, m) ==
    /\ r \in Instance /\ KeepsRole(r, m) /\ KeepsPorts(r, m) /\ KeepsManager(r, m)
    /\ r.mrc_state = "PT" /\ r.ring_link_curr_max = ring_link_conf_max
    /\ "ring_link_up" \in r.timers
    /\ "ring_link_down" \in r.timers <=> "ring_link_down" \in m.timers

AnnouncedDown(r, m) ==
    /\ r \in Instance /\ KeepsRole(r, m) /\ KeepsManager(r, m)
    /\ r.p_port = m.p_port /\ r.s_port = m.s_port
    /\ r.state = [m.state EXCEPT ![m.s_port] = "BLOCKED"]
    /\ r.mrc_state = "DE" /\ r.ring_link_curr_max = ring_link_conf_max
    /\ "ring_link_down" \in r.timers
    /\ "ring_link_up" \in r.timers <=> "ring_link_up" \in m.timers

\* They keep the ports and enter PT, or block the secondary port and enter DE.
LEMMA Announce ==
    ASSUME NEW m \in Instance
    PROVE  AnnouncedUp(AnnounceUp(m), m) /\ AnnouncedDown(AnnounceDown(m), m)
<1>1. AnnouncedUp(AnnounceUp(m), m)
  <2> DEFINE m1 == RestartLink(m)
             m2 == ev_timer_again(m1, "ring_link_up")
             m3 == mrp_ring_link_req(m2, TRUE)
  <2>1. AnnounceUp(m) = mrp_set_mrc_state(m3, "PT")
    BY DEF AnnounceUp
  <2>2. LinkRestarted(m1, m) /\ Armed(m2, m1, "ring_link_up")
    BY RestartUp, TimerAgain DEF LinkRestarted, RingTimer
  <2>3. Same(m3, m2) /\ MrcSet(AnnounceUp(m), m3, "PT")
    BY Zenon, <2>1, <2>2, LinkReqKeeps, SetMrc DEF Armed, Same, MrcState
  <2> HIDE DEF m1, m2, m3
  <2>. QED
    BY <2>2, <2>3
       DEF LinkRestarted, Armed, MrcSet, AnnouncedUp,
           Same, KeepsRole, KeepsPorts, KeepsManager, KeepsClient
<1>2. AnnouncedDown(AnnounceDown(m), m)
  <2> DEFINE m1 == RestartLink(m)
             m2 == mrp_port_set_state(m1, m.s_port, "BLOCKED")
             m3 == ev_timer_again(m2, "ring_link_down")
             m4 == mrp_ring_link_req(m3, FALSE)
  <2>1. AnnounceDown(m) = mrp_set_mrc_state(m4, "DE")
    BY DEF AnnounceDown
  <2>2. m.s_port \in RingPort
    BY DEF Instance
  <2>3. LinkRestarted(m1, m)
    BY RestartUp
  <2> HIDE DEF m1
  <2>4. PortSet(m2, m1, m.s_port, "BLOCKED")
    BY <2>2, <2>3, SetState DEF LinkRestarted, PortState
  <2> HIDE DEF m2
  <2>5. Armed(m3, m2, "ring_link_down")
    BY <2>4, TimerAgain DEF PortSet, RingTimer
  <2> HIDE DEF m3
  <2>6. Same(m4, m3) /\ MrcSet(AnnounceDown(m), m4, "DE")
    BY Zenon, <2>1, <2>5, LinkReqKeeps, SetMrc DEF Armed, Same, MrcState
  <2> HIDE DEF m4
  <2>. QED
    BY <2>3, <2>4, <2>5, <2>6
       DEF LinkRestarted, PortSet, Armed, MrcSet, AnnouncedDown,
           Same, KeepsRole, KeepsPorts, KeepsManager, KeepsClient
<1>. QED
  BY <1>1, <1>2

\* mrp_mrc_port_link: the ports follow the links, and a timer runs while a change is
\* being announced.
LEMMA ClientPortLink ==
    ASSUME NEW m, Core(m), NEW p \in RingPort, NEW up \in BOOLEAN
    PROVE  LET r == mrp_mrc_port_link(m, p, up)
           IN  ClientStep(r, m) /\ WaitStarts(r, m)
<1> DEFINE r == mrp_mrc_port_link(m, p, up)
<1> SUFFICES ClientStep(r, m) /\ WaitStarts(r, m)
  OBVIOUS
<1>1. CASE m.mrc_state = "AC_STAT1" /\ up
  <2> DEFINE m1 == Promote(m, p)
             m2 == mrp_port_set_state(m1, p, "FORWARDING")
  <2>1. r = mrp_set_mrc_state(m2, "DE_IDLE")
    BY <1>1 DEF mrp_mrc_port_link
  <2>2. Promoted(m1, m, p)
    BY CoreTypes, PromotePorts
  <2> HIDE DEF m1
  <2>3. PortSet(m2, m1, p, "FORWARDING")
    BY <2>2, SetState DEF Promoted, PortState
  <2> HIDE DEF m2
  <2>4. MrcSet(r, m2, "DE_IDLE")
    BY <2>1, <2>3, SetMrc DEF PortSet, MrcState
  <2> HIDE DEF r
  <2>. QED
    BY <1>1, <2>2, <2>3, <2>4, CoreTypes
       DEF Promoted, PortSet, MrcSet, RingPort, ClientStep, WaitStarts, Core,
           PortsMatchClient, TimersMatchClient,
           Same, KeepsRole, KeepsPorts, KeepsManager, KeepsClient
<1>2. CASE m.mrc_state = "DE_IDLE" /\ up /\ p # m.p_port
  <2>1. AnnouncedUp(r, m)
    BY <1>2, CoreTypes, Announce DEF mrp_mrc_port_link
  <2> HIDE DEF r
  <2>. QED
    BY <1>2, <2>1, CoreTypes
       DEF AnnouncedUp, ClientStep, WaitStarts, Core,
           PortsMatchClient, TimersMatchClient,
           Same, KeepsRole, KeepsPorts, KeepsManager, KeepsClient
<1>3. CASE m.mrc_state = "DE_IDLE" /\ ~up /\ p = m.p_port
  <2> DEFINE m1 == mrp_port_set_state(m, p, "BLOCKED")
  <2>1. r = mrp_set_mrc_state(m1, "AC_STAT1")
    BY <1>3 DEF mrp_mrc_port_link
  <2>2. PortSet(m1, m, p, "BLOCKED")
    BY CoreTypes, SetState DEF PortState
  <2> HIDE DEF m1
  <2>3. MrcSet(r, m1, "AC_STAT1")
    BY <2>1, <2>2, SetMrc DEF PortSet, MrcState
  <2> HIDE DEF r
  <2>. QED
    BY <1>3, <2>2, <2>3, CoreTypes
       DEF PortSet, MrcSet, ClientStep, WaitStarts, Core,
           PortsMatchClient, TimersMatchClient,
           Same, KeepsRole, KeepsPorts, KeepsManager, KeepsClient
<1>4. CASE m.mrc_state = "PT" /\ ~up /\ p # m.p_port
  <2> DEFINE m1 == ev_timer_stop(m, "ring_link_up")
  <2>1. r = AnnounceDown(m1)
    BY <1>4 DEF mrp_mrc_port_link
  <2>2. Disarmed(m1, m, "ring_link_up")
    BY CoreTypes, TimerStop DEF RingTimer
  <2> HIDE DEF m1
  <2>3. AnnouncedDown(r, m1)
    BY SMTT(30), <2>1, <2>2, Announce DEF Disarmed
  <2> HIDE DEF r
  <2>. QED
    BY <1>4, <2>2, <2>3, CoreTypes
       DEF Disarmed, AnnouncedDown, ClientStep, WaitStarts, Core,
           PortsMatchClient, TimersMatchClient,
           Same, KeepsRole, KeepsPorts, KeepsManager, KeepsClient
<1>5. CASE m.mrc_state = "PT" /\ ~up /\ p = m.p_port
  <2> DEFINE m1 == ev_timer_stop(m, "ring_link_up")
             m2 == Demote(m1, p)
             m3 == mrp_port_set_state(m2, m.s_port, "FORWARDING")
  <2>1. r = AnnounceDown(m3)
    BY SMTT(30), <1>5 DEF mrp_mrc_port_link
  <2>2. Disarmed(m1, m, "ring_link_up")
    BY CoreTypes, TimerStop DEF RingTimer
  <2> HIDE DEF m1
  <2>3. Demoted(m2, m1, p)
    BY SMTT(30), <2>2, DemotePorts DEF Disarmed
  <2> HIDE DEF m2
  <2>4. PortSet(m3, m2, m.s_port, "FORWARDING")
    BY <2>3, CoreTypes, SetState DEF Demoted, PortState
  <2> HIDE DEF m3
  <2>5. AnnouncedDown(r, m3)
    BY <2>1, <2>4, Announce DEF PortSet
  <2> HIDE DEF r
  <2>. QED
    BY <1>5, <2>2, <2>3, <2>4, <2>5, CoreTypes
       DEF Disarmed, Demoted, PortSet, AnnouncedDown, ClientStep, WaitStarts, Core,
           PortsMatchClient, TimersMatchClient,
           Same, KeepsRole, KeepsPorts, KeepsManager, KeepsClient
<1>6. CASE m.mrc_state = "DE" /\ up /\ p # m.p_port
  <2> DEFINE m1 == ev_timer_stop(m, "ring_link_down")
  <2>1. r = AnnounceUp(m1)
    BY <1>6 DEF mrp_mrc_port_link
  <2>2. Disarmed(m1, m, "ring_link_down")
    BY CoreTypes, TimerStop DEF RingTimer
  <2> HIDE DEF m1
  <2>3. AnnouncedUp(r, m1)
    BY SMTT(30), <2>1, <2>2, Announce DEF Disarmed
  <2> HIDE DEF r
  <2>. QED
    BY <1>6, <2>2, <2>3, CoreTypes
       DEF Disarmed, AnnouncedUp, ClientStep, WaitStarts, Core,
           PortsMatchClient, TimersMatchClient,
           Same, KeepsRole, KeepsPorts, KeepsManager, KeepsClient
<1>7. CASE m.mrc_state = "DE" /\ ~up /\ p = m.p_port
  <2> DEFINE m1 == RestartLink(m)
             m2 == mrp_port_set_state(m1, p, "BLOCKED")
             m3 == ev_timer_stop(m2, "ring_link_down")
  <2>1. r = mrp_set_mrc_state(m3, "AC_STAT1")
    BY SMTT(30), <1>7 DEF mrp_mrc_port_link
  <2>2. LinkRestarted(m1, m)
    BY CoreTypes, RestartUp
  <2> HIDE DEF m1
  <2>3. PortSet(m2, m1, p, "BLOCKED")
    BY <2>2, SetState DEF LinkRestarted, PortState
  <2> HIDE DEF m2
  <2>4. Disarmed(m3, m2, "ring_link_down")
    BY <2>3, TimerStop DEF PortSet, RingTimer
  <2> HIDE DEF m3
  <2>5. MrcSet(r, m3, "AC_STAT1")
    BY <2>1, <2>4, SetMrc DEF Disarmed, MrcState
  <2> HIDE DEF r
  <2>. QED
    BY <1>7, <2>2, <2>3, <2>4, <2>5, CoreTypes
       DEF LinkRestarted, PortSet, Disarmed, MrcSet, ClientStep, WaitStarts, Core,
           PortsMatchClient, TimersMatchClient,
           Same, KeepsRole, KeepsPorts, KeepsManager, KeepsClient
<1>8. CASE m.mrc_state = "PT_IDLE" /\ ~up /\ p # m.p_port
  <2>1. AnnouncedDown(r, m)
    BY <1>8, CoreTypes, Announce DEF mrp_mrc_port_link
  <2> HIDE DEF r
  <2>. QED
    BY <1>8, <2>1, CoreTypes
       DEF AnnouncedDown, ClientStep, WaitStarts, Core,
           PortsMatchClient, TimersMatchClient,
           Same, KeepsRole, KeepsPorts, KeepsManager, KeepsClient
<1>9. CASE m.mrc_state = "PT_IDLE" /\ ~up /\ p = m.p_port
  <2> DEFINE m1 == Demote(m, p)
  <2>1. r = AnnounceDown(m1)
    BY SMTT(30), <1>9 DEF mrp_mrc_port_link
  <2>2. Demoted(m1, m, p)
    BY CoreTypes, DemotePorts
  <2> HIDE DEF m1
  <2>3. AnnouncedDown(r, m1)
    BY <2>1, <2>2, Announce DEF Demoted
  <2> HIDE DEF r
  <2>. QED
    BY <1>9, <2>2, <2>3, CoreTypes
       DEF Demoted, AnnouncedDown, ClientStep, WaitStarts, Core,
           PortsMatchClient, TimersMatchClient,
           Same, KeepsRole, KeepsPorts, KeepsManager, KeepsClient
<1>10. CASE r = m
  <2>1. Same(r, m)
    BY <1>10, CoreTypes DEF Same, KeepsRole, KeepsPorts, KeepsManager, KeepsClient
  <2>. QED
    BY <2>1, SameIsClientStep
<1>. QED
  <2>1. \/ m.mrc_state = "AC_STAT1" /\ up
        \/ m.mrc_state = "DE_IDLE" /\ up /\ p # m.p_port
        \/ m.mrc_state = "DE_IDLE" /\ ~up /\ p = m.p_port
        \/ m.mrc_state = "PT" /\ ~up
        \/ m.mrc_state = "DE" /\ up /\ p # m.p_port
        \/ m.mrc_state = "DE" /\ ~up /\ p = m.p_port
        \/ m.mrc_state = "PT_IDLE" /\ ~up
        \/ r = m
    BY DEF mrp_mrc_port_link
  <2>. QED
    BY <2>1, <1>1, <1>2, <1>3, <1>4, <1>5, <1>6, <1>7, <1>8, <1>9, <1>10

\* mrp_ring_link_up_expired: the countdown goes on, or the port is opened.
LEMMA LinkUpExpiry ==
    ASSUME NEW m, Core(m), "ring_link_up" \in m.timers
    PROVE  LET r == mrp_ring_link_up_expired(m)
           IN  ClientStep(r, m) /\ (TimersMatchClient(m) => WaitCounts(r, m))
<1> DEFINE r == mrp_ring_link_up_expired(m)
<1> SUFFICES ClientStep(r, m) /\ (TimersMatchClient(m) => WaitCounts(r, m))
  OBVIOUS
<1>1. CASE m.ring_link_curr_max > 0
  <2> DEFINE k == m.ring_link_curr_max - 1
             m1 == [m EXCEPT !.ring_link_curr_max = k]
             m2 == ev_timer_again(m1, "ring_link_up")
  <2>1. r = mrp_ring_link_req(m2, TRUE)
    BY Zenon, <1>1, CoreTypes DEF mrp_ring_link_up_expired
  <2>2. k \in Nat
    BY <1>1, CoreTypes
  <2>3. LinkCounted(m1, m, k)
    BY <2>2, CoreTypes, LinkCount
  <2> HIDE DEF m1
  <2>4. Armed(m2, m1, "ring_link_up")
    BY <2>3, TimerAgain DEF LinkCounted, RingTimer
  <2> HIDE DEF m2
  <2>5. Same(r, m2)
    BY Zenon, <2>1, <2>4, LinkReqKeeps DEF Armed
  <2> HIDE DEF r
  <2>. QED
    BY <1>1, <2>3, <2>4, <2>5, CoreTypes
       DEF LinkCounted, Armed, ClientStep, WaitCounts, Core,
           PortsMatchClient, TimersMatchClient,
           Same, KeepsRole, KeepsPorts, KeepsManager, KeepsClient
<1>2. CASE ~(m.ring_link_curr_max > 0)
  <2> DEFINE m1 == RestartLink(m)
             m2 == mrp_port_set_state(m1, m.s_port, "FORWARDING")
             m3 == mrp_set_mrc_state(m2, "PT_IDLE")
  <2>1. r = ev_timer_stop(m3, "ring_link_up")
    BY Zenon, <1>2 DEF mrp_ring_link_up_expired
  <2>2. LinkRestarted(m1, m)
    BY CoreTypes, RestartUp
  <2> HIDE DEF m1
  <2>3. PortSet(m2, m1, m.s_port, "FORWARDING")
    BY <2>2, CoreTypes, SetState DEF LinkRestarted, PortState
  <2> HIDE DEF m2
  <2>4. MrcSet(m3, m2, "PT_IDLE")
    BY <2>3, SetMrc DEF PortSet, MrcState
  <2> HIDE DEF m3
  <2>5. Disarmed(r, m3, "ring_link_up")
    BY <2>1, <2>4, TimerStop DEF MrcSet, RingTimer
  <2> HIDE DEF r
  <2>. QED
    BY <1>2, <2>2, <2>3, <2>4, <2>5, CoreTypes
       DEF LinkRestarted, PortSet, MrcSet, Disarmed, ClientStep, WaitCounts, Core,
           PortsMatchClient, TimersMatchClient,
           Same, KeepsRole, KeepsPorts, KeepsManager, KeepsClient
<1>. QED
  BY <1>1, <1>2

\* mrp_ring_link_down_expired: the countdown goes on, or the loss is no longer announced.
LEMMA LinkDownExpiry ==
    ASSUME NEW m, Core(m), "ring_link_down" \in m.timers
    PROVE  LET r == mrp_ring_link_down_expired(m)
           IN  ClientStep(r, m) /\ (TimersMatchClient(m) => WaitStarts(r, m))
<1> DEFINE r == mrp_ring_link_down_expired(m)
<1> SUFFICES ClientStep(r, m) /\ (TimersMatchClient(m) => WaitStarts(r, m))
  OBVIOUS
<1>1. CASE m.ring_link_curr_max > 0
  <2> DEFINE k == m.ring_link_curr_max - 1
             m1 == [m EXCEPT !.ring_link_curr_max = k]
             m2 == ev_timer_again(m1, "ring_link_down")
  <2>1. r = mrp_ring_link_req(m2, FALSE)
    BY Zenon, <1>1, CoreTypes DEF mrp_ring_link_down_expired
  <2>2. k \in Nat
    BY <1>1, CoreTypes
  <2>3. LinkCounted(m1, m, k)
    BY <2>2, CoreTypes, LinkCount
  <2> HIDE DEF m1
  <2>4. Armed(m2, m1, "ring_link_down")
    BY <2>3, TimerAgain DEF LinkCounted, RingTimer
  <2> HIDE DEF m2
  <2>5. Same(r, m2)
    BY Zenon, <2>1, <2>4, LinkReqKeeps DEF Armed
  <2> HIDE DEF r
  <2>. QED
    BY <1>1, <2>3, <2>4, <2>5, CoreTypes
       DEF LinkCounted, Armed, ClientStep, WaitStarts, Core,
           PortsMatchClient, TimersMatchClient,
           Same, KeepsRole, KeepsPorts, KeepsManager, KeepsClient
<1>2. CASE ~(m.ring_link_curr_max > 0)
  <2> DEFINE m1 == RestartLink(m)
             m2 == mrp_set_mrc_state(m1, "DE_IDLE")
  <2>1. r = ev_timer_stop(m2, "ring_link_down")
    BY Zenon, <1>2 DEF mrp_ring_link_down_expired
  <2>2. LinkRestarted(m1, m)
    BY CoreTypes, RestartUp
  <2> HIDE DEF m1
  <2>3. MrcSet(m2, m1, "DE_IDLE")
    BY <2>2, SetMrc DEF LinkRestarted, MrcState
  <2> HIDE DEF m2
  <2>4. Disarmed(r, m2, "ring_link_down")
    BY <2>1, <2>3, TimerStop DEF MrcSet, RingTimer
  <2> HIDE DEF r
  <2>. QED
    BY <1>2, <2>2, <2>3, <2>4, CoreTypes
       DEF LinkRestarted, MrcSet, Disarmed, ClientStep, WaitStarts, Core,
           PortsMatchClient, TimersMatchClient,
           Same, KeepsRole, KeepsPorts, KeepsManager, KeepsClient
<1>. QED
  BY <1>1, <1>2

-----------------------------------------------------------------------------
(***************************************************************************)
(* Any step of an instance, whatever its role.                             *)
(***************************************************************************)
\* A fixed manager has no link change to announce; everything a fixed role implies.
Consistent(m) ==
    FixedRole(m) =>
        IF m.ring_role = "MRM"
        THEN PortsMatchManager(m) /\ {"ring_link_up", "ring_link_down"} \cap m.timers = {}
        ELSE PortsMatchClient(m) /\ TimersMatchClient(m)

Step(r, m) ==
    /\ Core(r) /\ r.mra_support = m.mra_support /\ r.in_role = m.in_role
    /\ Probing(m) => Probing(r)
    /\ FixedRole(m) => r.ring_role = m.ring_role
    /\ Consistent(m) => Consistent(r)

\* Neither count moves, except that it starts when its state is entered.
SilenceKept(r, m) ==
    Watching(r) => r.ring_test_curr = IF Watching(m) THEN m.ring_test_curr ELSE 0

WaitKept(r, m) ==
    FixedRole(m) /\ Waiting(r) =>
        r.ring_link_curr_max = IF Waiting(m) THEN m.ring_link_curr_max ELSE ring_link_conf_max

CountsStart(r, m) == SilenceKept(r, m) /\ WaitKept(r, m)

\* An operation that keeps everything.
LEMMA SameIsStep ==
    ASSUME NEW m, Core(m), NEW r, Same(r, m)
    PROVE  Step(r, m) /\ CountsStart(r, m)
BY DEF Core, Step, CountsStart, SilenceKept, WaitKept, Consistent, FixedRole, Watching,
       Waiting, Probing,
       PortsMatchManager, PortsMatchClient, TimersMatchClient,
       Same, KeepsRole, KeepsPorts, KeepsManager, KeepsClient

\* A step of the manager's state machine, in a manager or in an automanager.
LEMMA ManagerIsStep ==
    ASSUME NEW m, Core(m), NEW r, ManagerStep(r, m), ~FixedRole(m) \/ m.ring_role = "MRM"
    PROVE  Step(r, m) /\ WaitKept(r, m) /\ (CountStarts(r, m) => SilenceKept(r, m))
BY DEF ManagerStep, Step, CountStarts, SilenceKept, WaitKept, Consistent, FixedRole,
       Watching, Waiting, KeepsRole, KeepsClient

\* A step of the client's state machine, in a client or in an automanager.
LEMMA ClientIsStep ==
    ASSUME NEW m, Core(m), NEW r, ClientStep(r, m), ~FixedRole(m) \/ m.ring_role = "MRC"
    PROVE  Step(r, m) /\ SilenceKept(r, m) /\ (WaitStarts(r, m) => WaitKept(r, m))
BY DEF ClientStep, Step, WaitStarts, SilenceKept, WaitKept, Consistent, FixedRole, Probing,
       Watching, Waiting, KeepsRole, KeepsManager

\* A step may be preceded by one that keeps everything.
LEMMA AfterSame ==
    ASSUME NEW m, NEW a, Same(a, m), NEW r, Step(r, a)
    PROVE  /\ Step(r, m)
           /\ SilenceKept(r, a) => SilenceKept(r, m)
           /\ WaitKept(r, a) => WaitKept(r, m)
BY DEF Step, SilenceKept, WaitKept, Consistent, FixedRole, Watching, Waiting, Probing,
       PortsMatchManager, PortsMatchClient, TimersMatchClient,
       Same, KeepsRole, KeepsPorts, KeepsManager, KeepsClient

-----------------------------------------------------------------------------
(***************************************************************************)
(* The handlers of the automanager.                                        *)
(***************************************************************************)
\* A priority stored without conversion still fits its field.
LEMMA SwapBytesType ==
    ASSUME NEW x \in UInt16
    PROVE  SwapBytes(x) \in UInt16
<1> DEFINE low == x % 256
           high == x \div 256
<1>1. Size16 \in Nat /\ Size16 = 256 * 256
  BY DEF Size16
<1>2. (\A y \in Nat : y \in UInt16 <=> y < Size16) /\ UInt16 \subseteq Nat
  <2>1. Size16 \in Nat
    BY <1>1
  <2>. QED
    BY <2>1 DEF UInt16
<1>3. x \in Nat
  BY <1>2
<1>4. low \in Nat /\ high \in Nat /\ low < 256 /\ x = 256 * high + low
  BY <1>3
<1>5. SwapBytes(x) = low * 256 + high
  BY DEF SwapBytes
<1> HIDE DEF low, high
<1>6. high < 256
  BY <1>1, <1>2, <1>3, <1>4
<1>7. low * 256 + high \in Nat /\ low * 256 + high < Size16
  BY <1>1, <1>4, <1>6
<1>. QED
  BY <1>2, <1>5, <1>7

\* mrp_mra_recv_ring_test: a refusal, or something to remember.
LEMMA AutoTest ==
    ASSUME NEW m, Core(m), NEW f, f.sa \in Mac, f.prio \in Prio
    PROVE  Same(mrp_mra_recv_ring_test(m, f), m)
<1>1. m \in Instance /\ m.ring_mon_curr \in Nat /\ m.ring_role \in RingRole
  BY CoreTypes DEF Instance
<1>2. Same(m, m)
  BY <1>1 DEF Same, KeepsRole, KeepsPorts, KeepsManager, KeepsClient
<1>3. CASE m.ring_role = "MRM"
  BY <1>1, <1>2, <1>3, OptionReqKeeps DEF mrp_mra_recv_ring_test
<1>4. CASE m.ring_role = "MRC" /\ f.sa = m.ring_mac
  BY SMTT(30), <1>2, <1>4 DEF mrp_mra_recv_ring_test
<1>5. CASE m.ring_role = "MRC" /\ f.sa # m.ring_mac
  <2> DEFINE k == IF mrp_better_than_own(m, f) THEN 0 ELSE m.ring_mon_curr
             q == SwapBytes(f.prio)
  <2>1. mrp_mra_recv_ring_test(m, f) = [m EXCEPT !.ring_mon_curr = k, !.ring_prio = q]
    BY <1>5 DEF mrp_mra_recv_ring_test
  <2>2. k \in Nat
    BY <1>1
  <2>3. q \in UInt16
    BY SwapBytesType, ConfAssumption
  <2> HIDE DEF k, q
  <2>. QED
    BY ZenonT(40), <1>1, <2>1, <2>2, <2>3, MonHostKeeps
<1>. QED
  BY <1>1, <1>3, <1>4, <1>5 DEF RingRole

\* mrp_recv_propagate: something to remember.
LEMMA AutoPropagate ==
    ASSUME NEW m, Core(m), NEW f, f.other_sa \in Mac \cup {NoMac}, f.other_prio \in UInt16
    PROVE  Same(mrp_recv_propagate(m, f), m)
<1>1. m \in Instance
  BY CoreTypes
<1>2. mrp_recv_propagate(m, f) = m
        \/ mrp_recv_propagate(m, f) = [m EXCEPT !.ring_prio = f.other_prio,
                                                !.ring_mac = f.other_sa, !.ring_mon_curr = 0]
  BY DEF mrp_recv_propagate
<1>3. Same(m, m)
  BY <1>1 DEF Same, KeepsRole, KeepsPorts, KeepsManager, KeepsClient
<1>. QED
  BY ZenonT(40), <1>1, <1>2, <1>3, PropKeeps

\* mrp_recv_nack: whatever the ports were, both forward or are blocked afterwards, and
\* a manager steps down with its test timer running.
LEMMA AutoNack ==
    ASSUME NEW m, Core(m), ~FixedRole(m), NEW f, f.sa \in Mac, f.prio \in Prio
    PROVE  LET r == mrp_recv_nack(m, f) IN Step(r, m) /\ CountsStart(r, m)
<1> DEFINE r == mrp_recv_nack(m, f)
           host == IF mrp_better_than_host(m, f)
                   THEN [m EXCEPT !.ring_prio = f.prio, !.ring_mac = f.sa] ELSE m
           open == IF m.mrm_state = "CHK_RC"
                   THEN mrp_port_set_state(host, m.s_port, "FORWARDING") ELSE host
           stop == mrp_ring_topo_stop(open)
           init == mrp_set_mrc_init(stop)
           told == mrp_test_prop_req(init)
           client == IF m.mrm_state = "PRM_UP" THEN "DE_IDLE" ELSE "PT_IDLE"
           moved == mrp_set_mrc_state(told, client)
<1> SUFFICES Step(r, m) /\ CountsStart(r, m)
  OBVIOUS
<1>1. r \in {m, told, mrp_set_ring_role(moved, "MRC")}
  BY CoreTypes DEF mrp_recv_nack, Core, Instance, RingRole
<1>2. Same(m, m)
  BY SMTT(30), CoreTypes DEF Same, KeepsRole, KeepsPorts, KeepsManager, KeepsClient
<1>3. Same(host, m)
  <2>1. f.prio \in UInt16 /\ f.sa \in Mac \cup {NoMac} /\ m \in Instance
    BY SMTT(30), ConfAssumption, CoreTypes
  <2>. QED
    BY Zenon, <1>2, <2>1, HostKeeps
<1> HIDE DEF host
<1>4. Same(open, host) \/ PortSet(open, host, m.s_port, "FORWARDING")
  BY <1>3, CoreTypes, SetState
     DEF PortState, Same, KeepsRole, KeepsPorts, KeepsManager, KeepsClient
<1> HIDE DEF open
<1>5. Same(stop, open)
  BY <1>4, TopoStopKeeps DEF Same, PortSet
<1> HIDE DEF stop
<1>6. MrcReset(init, stop)
  BY <1>5, InitMrc DEF Same
<1> HIDE DEF init
<1>7. Same(told, init)
  BY <1>6, OptionReqKeeps DEF MrcReset
<1> HIDE DEF told
<1>8. MrcSet(moved, told, client)
  BY <1>7, SetMrc DEF Same, MrcState
<1> HIDE DEF moved
<1>9. RoleSet(mrp_set_ring_role(moved, "MRC"), moved, "MRC")
  BY <1>8, SetRole DEF MrcSet, RingRole
<1>10. CASE r = m
  BY SMTT(30), <1>2, <1>10, SameIsStep
<1>11. Core(told) /\ KeepsRole(told, m) /\ KeepsManager(told, m)
  BY SMTT(30), <1>3, <1>4, <1>5, <1>6, <1>7, CoreTypes
     DEF PortSet, MrcReset, Core, Same, KeepsRole, KeepsPorts, KeepsManager, KeepsClient
<1>12. CASE r = told
  BY SMTT(30), <1>11, <1>12
     DEF Step, CountsStart, SilenceKept, WaitKept, Consistent, FixedRole, Watching,
         Probing, KeepsRole, KeepsManager
<1>13. CASE r = mrp_set_ring_role(moved, "MRC")
  <2>. HIDE DEF r
  <2>. QED
    BY <1>8, <1>9, <1>11, <1>13
       DEF MrcSet, RoleSet, Step, CountsStart, SilenceKept, WaitKept, Consistent,
           FixedRole, Watching, Probing, Core,
           KeepsRole, KeepsPorts, KeepsManager, KeepsClient
<1>. QED
  BY <1>1, <1>10, <1>12, <1>13

\* mrp_mrc_ring_test_expired: one interval more, or a manager that tests its ring and
\* has not counted yet.
LEMMA AutoExpiry ==
    ASSUME NEW m, Core(m), m.mra_support, m.ring_role = "MRC"
    PROVE  LET r == mrp_mrc_ring_test_expired(m) IN Step(r, m) /\ CountsStart(r, m)
<1> DEFINE r == mrp_mrc_ring_test_expired(m)
           again == ev_timer_again(m, "ring_test")
           more == [again EXCEPT !.ring_mon_curr = @ + 1]
           taken == mrp_set_mrm_init(again)
           state == TakeOverState(m.mrc_state)
           moved == mrp_set_mrm_state(taken, state)
<1> SUFFICES Step(r, m) /\ CountsStart(r, m)
  OBVIOUS
<1>1. \/ r = more
      \/ r = taken
      \/ m.mrc_state # "AC_STAT1" /\ r = mrp_set_ring_role(moved, "MRM")
  BY CoreTypes, ConfAssumption DEF mrp_mrc_ring_test_expired, ring_mon_curr_max
<1>2. Armed(again, m, "ring_test")
  BY CoreTypes, TimerAgain DEF RingTimer
<1> HIDE DEF again
<1>3. Same(more, again)
  <2>1. again \in Instance /\ again.ring_mon_curr + 1 \in Nat
    BY <1>2 DEF Armed, Instance
  <2>. QED
    BY SMTT(30), <2>1, MonKeeps
<1>4. MrmReset(taken, again)
  BY SMTT(30), <1>2, InitMrm DEF Armed
<1> HIDE DEF more, taken
<1>5. CASE r = more
  <2> HIDE DEF r
  <2>. QED
    BY ZenonT(40), <1>2, <1>3, <1>5
       DEF Armed, Step, CountsStart, SilenceKept, WaitKept, Consistent, FixedRole,
           Watching, Probing, Core,
           Same, KeepsRole, KeepsPorts, KeepsManager, KeepsClient
<1>6. CASE r = taken
  <2> HIDE DEF r
  <2>. QED
    BY ZenonT(40), <1>2, <1>4, <1>6
       DEF Armed, MrmReset, Step, CountsStart, SilenceKept, WaitKept, Consistent,
           FixedRole, Watching, Probing, Core,
           KeepsRole, KeepsPorts, KeepsManager, KeepsClient
<1>7. CASE m.mrc_state # "AC_STAT1" /\ r = mrp_set_ring_role(moved, "MRM")
  <2>1. state \in MrmState
    BY SMTT(30), <1>7, CoreTypes DEF TakeOverState, MrcState, MrmState
  <2> HIDE DEF state
  <2>2. MrmSet(moved, taken, state)
    BY <1>4, <2>1, SetMrm DEF MrmReset
  <2> HIDE DEF moved
  <2>3. RoleSet(r, moved, "MRM")
    BY <1>7, <2>2, SetRole DEF MrmSet, RingRole
  <2> HIDE DEF r
  <2>. QED
    BY <1>2, <1>4, <2>2, <2>3
       DEF Armed, MrmReset, MrmSet, RoleSet, Step, CountsStart, SilenceKept, WaitKept,
           Consistent, FixedRole,
           Watching, Probing, Core, KeepsRole, KeepsPorts, KeepsManager, KeepsClient
<1>. QED
  BY <1>1, <1>5, <1>6, <1>7

-----------------------------------------------------------------------------
(***************************************************************************)
(* The entry points.                                                       *)
(***************************************************************************)
\* Received frames are frames of the ring.
LEMMA FrameTypes ==
    ASSUME NEW f \in Frame
    PROVE  /\ f.type \in RingFrameType
           /\ f.type = "RING_TEST" => f.sa \in Mac /\ f.prio \in Prio
           /\ f.type = "OPTION" =>
                 /\ f.sa \in Mac /\ f.prio \in Prio
                 /\ f.sub \in {"TEST_MGR_NACK", "TEST_PROPAGATE"}
                 /\ f.sub = "TEST_PROPAGATE" =>
                       f.other_sa \in Mac \cup {NoMac} /\ f.other_prio \in UInt16
<1>1. CASE f \in LinkFrame
  BY <1>1 DEF LinkFrame, RingFrameType
<1>2. CASE f \in TestFrame
  BY <1>2 DEF TestFrame, RingFrameType
<1>3. CASE f \in TopoFrame
  BY <1>3 DEF TopoFrame, RingFrameType
<1>4. CASE f \in NackFrame
  BY <1>4 DEF NackFrame, RingFrameType
<1>5. CASE f \in PropFrame
  BY <1>5 DEF PropFrame, RingFrameType
<1>. QED
  BY <1>1, <1>2, <1>3, <1>4, <1>5 DEF Frame

\* mrp_check_and_forward only sends.
LEMMA ForwardKeeps ==
    ASSUME NEW m, Core(m), NEW p \in RingPort, NEW f \in Frame
    PROVE  LET r == mrp_check_and_forward(m, p, f)
           IN  Same(r, m) /\ r.macaddr = m.macaddr
<1>1. ForwardPorts(m, p, f.type) \in SUBSET RingPort
  BY CoreTypes DEF ForwardPorts, BothPorts
<1>2. Same(mrp_check_and_forward(m, p, f), m)
  BY <1>1, FrameTypes, CoreTypes, SendKeeps DEF mrp_check_and_forward
<1>3. mrp_check_and_forward(m, p, f).macaddr = m.macaddr
  BY SMTT(30), CoreTypes DEF mrp_check_and_forward, mrp_send, Instance
<1>. QED
  BY <1>2, <1>3

\* What a frame of the manager's own does to the count.
SilenceAfter(r, m, f) ==
    IF f.type = "RING_TEST" /\ f.sa = m.macaddr
    THEN Watching(r) => r.ring_test_curr = 0
    ELSE SilenceKept(r, m)

\* mrp_process, for a frame that mrp_should_process lets through.
LEMMA Processed ==
    ASSUME NEW m, Core(m), NEW f \in Frame, mrp_should_process(m, f.type)
    PROVE  LET r == mrp_process(m, f)
           IN  Step(r, m) /\ WaitKept(r, m) /\ SilenceAfter(r, m, f)
<1> DEFINE r == mrp_process(m, f)
<1> SUFFICES Step(r, m) /\ WaitKept(r, m) /\ SilenceAfter(r, m, f)
  OBVIOUS
<1>1. m.ring_role \in RingRole /\ m.mra_support \in BOOLEAN
  BY CoreTypes DEF Instance
<1>2. Same(m, m)
  BY CoreTypes DEF Same, KeepsRole, KeepsPorts, KeepsManager, KeepsClient
<1>3. CASE f.type = "RING_TEST"
  <2>1. r = mrp_recv_ring_test(m, f)
    BY <1>3 DEF mrp_process
  <2>2. ~FixedRole(m) \/ m.ring_role = "MRM"
    BY <1>3 DEF mrp_should_process, FixedRole
  <2>3. CASE f.sa = m.macaddr
    <3>1. r = mrp_mrm_recv_ring_test(m)
      BY <2>1, <2>3 DEF mrp_recv_ring_test
    <3>2. ManagerStep(r, m) /\ (r.mrm_state = "CHK_RC" => r.ring_test_curr = 0)
      BY <3>1, ManagerTest
    <3> HIDE DEF r
    <3>. QED
      BY <1>3, <2>2, <2>3, <3>2, ManagerIsStep DEF SilenceAfter, Watching
  <2>4. CASE f.sa # m.macaddr
    <3>1. r = m \/ r = mrp_mra_recv_ring_test(m, f)
      BY <2>1, <2>4 DEF mrp_recv_ring_test
    <3>2. Same(mrp_mra_recv_ring_test(m, f), m)
      BY <1>3, FrameTypes, AutoTest
    <3>3. Same(r, m)
      BY <1>2, <3>1, <3>2
    <3> HIDE DEF r
    <3>. QED
      BY <2>4, <3>3, SameIsStep DEF SilenceAfter, CountsStart
  <2>. QED
    BY <2>3, <2>4
<1>4. CASE f.type = "RING_TOPO"
  <2>1. r = mrp_recv_ring_topo(m, f)
    BY <1>4 DEF mrp_process
  <2>2. CASE m.mra_support /\ m.ring_role = "MRM"
    <3>1. r = m \/ r = mrp_clear_fdb_start(m, f.interval * 1000)
      BY <2>1, <2>2 DEF mrp_recv_ring_topo, mrp_mra_recv_ring_topo
    <3>2. Same(mrp_clear_fdb_start(m, f.interval * 1000), m)
      BY CoreTypes, ClearFdbKeeps
    <3>3. Same(r, m)
      BY <1>2, <3>1, <3>2
    <3> HIDE DEF r
    <3>. QED
      BY <1>4, <3>3, SameIsStep DEF SilenceAfter, CountsStart
  <2>3. CASE ~(m.mra_support /\ m.ring_role = "MRM")
    <3>1. r = mrp_mrc_recv_ring_topo(m, f.interval * 1000)
      BY <2>1, <2>3 DEF mrp_recv_ring_topo
    <3>2. ClientStep(r, m) /\ WaitStarts(r, m)
      BY <3>1, ClientTopo
    <3>3. ~FixedRole(m) \/ m.ring_role = "MRC"
      BY <1>4 DEF mrp_should_process, FixedRole
    <3> HIDE DEF r
    <3>. QED
      BY <1>4, <3>2, <3>3, ClientIsStep DEF SilenceAfter
  <2>. QED
    BY <2>2, <2>3
<1>5. CASE f.type \in {"RING_LINK_UP", "RING_LINK_DOWN"}
  <2>1. r = mrp_recv_ring_link(m, f.type)
    BY <1>5 DEF mrp_process
  <2>2. ManagerStep(r, m) /\ CountStarts(r, m)
    BY <1>5, <2>1, ManagerLink
  <2>3. m.ring_role = "MRM"
    BY Zenon, <1>5 DEF mrp_should_process
  <2> HIDE DEF r
  <2>. QED
    BY <1>5, <2>2, <2>3, ManagerIsStep DEF SilenceAfter
<1>6. CASE f.type = "OPTION"
  <2>1. r = mrp_recv_option(m, f)
    BY <1>6 DEF mrp_process
  <2>2. ~FixedRole(m)
    BY <1>6 DEF mrp_should_process, FixedRole
  <2>3. CASE f.sub = "TEST_MGR_NACK"
    <3>1. r = mrp_recv_nack(m, f)
      BY <2>1, <2>3 DEF mrp_recv_option
    <3>2. Step(r, m) /\ CountsStart(r, m)
      BY <1>6, <2>2, <3>1, FrameTypes, AutoNack
    <3> HIDE DEF r
    <3>. QED
      BY <1>6, <3>2 DEF SilenceAfter, CountsStart
  <2>4. CASE f.sub = "TEST_PROPAGATE"
    <3>1. r = mrp_recv_propagate(m, f)
      BY <2>1, <2>4 DEF mrp_recv_option
    <3>2. Same(r, m)
      BY <1>6, <2>4, <3>1, FrameTypes, AutoPropagate
    <3> HIDE DEF r
    <3>. QED
      BY <1>6, <3>2, SameIsStep DEF SilenceAfter, CountsStart
  <2>. QED
    BY <1>6, <2>3, <2>4, FrameTypes
<1>. QED
  BY <1>3, <1>4, <1>5, <1>6, FrameTypes DEF RingFrameType

\* mrp_recv: no ring port is disabled, so every ring frame is forwarded and processed.
LEMMA Received ==
    ASSUME NEW m, Core(m), NEW p \in RingPort, NEW f \in Frame
    PROVE  LET r == mrp_recv(m, p, f)
           IN  Step(r, m) /\ WaitKept(r, m) /\ SilenceAfter(r, m, f)
<1> DEFINE r == mrp_recv(m, p, f)
           sent == mrp_check_and_forward(m, p, f)
<1> SUFFICES Step(r, m) /\ WaitKept(r, m) /\ SilenceAfter(r, m, f)
  OBVIOUS
<1>1. ~mrp_should_drop(m, p, f.type)
  BY FrameTypes DEF mrp_should_drop, Core
<1>2. r = IF mrp_should_process(m, f.type) THEN mrp_process(sent, f) ELSE sent
  BY <1>1 DEF mrp_recv, mrp_process_frame
<1>3. Same(sent, m) /\ sent.macaddr = m.macaddr
  BY ForwardKeeps
<1> HIDE DEF sent
<1>4. Step(sent, m) /\ CountsStart(sent, m)
  BY <1>3, SameIsStep
<1>5. CASE mrp_should_process(m, f.type)
  <2>1. Core(sent) /\ mrp_should_process(sent, f.type)
    BY Zenon, <1>3, <1>4, <1>5, FrameTypes
       DEF Step, mrp_should_process, RingFrameType, Same, KeepsRole
  <2>2. r = mrp_process(sent, f)
    BY <1>2, <1>5
  <2>3. Step(r, sent) /\ WaitKept(r, sent) /\ SilenceAfter(r, sent, f)
    BY <2>1, <2>2, Processed
  <2> HIDE DEF r
  <2>4. Step(r, m) /\ WaitKept(r, m) /\ (SilenceKept(r, sent) => SilenceKept(r, m))
    BY <1>3, <2>3, AfterSame
  <2>. QED
    BY <1>3, <2>3, <2>4 DEF SilenceAfter
<1>6. CASE ~mrp_should_process(m, f.type)
  <2>1. r = sent
    BY <1>2, <1>6
  <2>2. f.type = "RING_TEST" => ~Watching(sent)
    BY <1>3, <1>6 DEF mrp_should_process, Watching, Same, KeepsRole
  <2> HIDE DEF r
  <2>. QED
    BY <1>4, <2>1, <2>2 DEF SilenceAfter, CountsStart
<1>. QED
  BY <1>5, <1>6

\* mrp_port_link_change, in either role.
LEMMA LinkChanged ==
    ASSUME NEW m, Core(m), NEW p \in RingPort, NEW up \in BOOLEAN
    PROVE  LET r == mrp_port_link_change(m, p, up) IN Step(r, m) /\ CountsStart(r, m)
<1> DEFINE r == mrp_port_link_change(m, p, up)
           s == IF up THEN "UP" ELSE "DOWN"
           seen == [m EXCEPT !.operstate = [@ EXCEPT ![p] = s]]
<1> SUFFICES Step(r, m) /\ CountsStart(r, m)
  OBVIOUS
<1>1. r = IF m.ring_role = "MRM" THEN mrp_mrm_port_link(seen, p, up)
                                 ELSE mrp_mrc_port_link(seen, p, up)
  BY DEF mrp_port_link_change
<1>2. s \in OperState /\ m \in Instance
  BY CoreTypes DEF OperState
<1> HIDE DEF s
<1>3. Same(seen, m)
  BY <1>2, OperKeeps
<1> HIDE DEF seen
<1>4. Core(seen) /\ seen.ring_role = m.ring_role /\ m.ring_role \in RingRole
  BY <1>2, <1>3, SameIsStep DEF Step, Same, KeepsRole, Instance
<1>5. CASE m.ring_role = "MRM"
  <2>1. ManagerStep(r, seen) /\ CountStarts(r, seen)
    BY <1>1, <1>4, <1>5, ManagerPortLink
  <2> HIDE DEF r
  <2>2. Step(r, seen) /\ CountsStart(r, seen)
    BY <1>4, <1>5, <2>1, ManagerIsStep DEF CountsStart
  <2>. QED
    BY <1>3, <2>2, AfterSame DEF CountsStart
<1>6. CASE m.ring_role = "MRC"
  <2>1. ClientStep(r, seen) /\ WaitStarts(r, seen)
    BY <1>1, <1>4, <1>6, ClientPortLink
  <2> HIDE DEF r
  <2>2. Step(r, seen) /\ CountsStart(r, seen)
    BY <1>4, <1>6, <2>1, ClientIsStep DEF CountsStart
  <2>. QED
    BY <1>3, <2>2, AfterSame DEF CountsStart
<1>. QED
  BY <1>4, <1>5, <1>6 DEF RingRole

\* mrp_ring_test_expired: an interval more is counted, and the ring is given up only when
\* the limit is reached.
SilenceCounts(r, m) ==
    /\ Watching(r) => r.ring_test_curr = IF Watching(m) THEN m.ring_test_curr + 1 ELSE 0
    /\ Watching(m) /\ ~Watching(r) => m.ring_test_curr >= m.ring_test_curr_max

\* mrp_ring_test_expired, in every role.
LEMMA TestExpired ==
    ASSUME NEW m, Core(m)
    PROVE  LET r == mrp_ring_test_expired(m)
           IN  Step(r, m) /\ WaitKept(r, m) /\ SilenceCounts(r, m)
<1> DEFINE r == mrp_ring_test_expired(m)
<1> SUFFICES Step(r, m) /\ WaitKept(r, m) /\ SilenceCounts(r, m)
  OBVIOUS
<1>1. m.ring_role \in RingRole
  BY CoreTypes DEF Instance
<1>2. CASE m.mra_support /\ m.ring_role = "MRC"
  <2>1. r = mrp_mrc_ring_test_expired(m)
    BY <1>2 DEF mrp_ring_test_expired
  <2>2. Step(r, m) /\ CountsStart(r, m)
    BY <1>2, <2>1, AutoExpiry
  <2> HIDE DEF r
  <2>. QED
    BY <1>2, <2>2 DEF CountsStart, SilenceKept, SilenceCounts, Watching
<1>3. CASE m.ring_role = "MRM"
  <2>1. r = mrp_mrm_ring_test_expired(m)
    BY <1>3 DEF mrp_ring_test_expired
  <2>2. /\ ManagerStep(r, m)
        /\ r.mrm_state = "CHK_RC" =>
              m.mrm_state = "CHK_RC" /\ r.ring_test_curr = m.ring_test_curr + 1
        /\ m.mrm_state = "CHK_RC" /\ r.mrm_state # "CHK_RC" =>
              m.ring_test_curr >= m.ring_test_curr_max
    BY <2>1, ManagerExpiry
  <2> HIDE DEF r
  <2>3. r.ring_role = m.ring_role
    BY SMTT(30), <2>2 DEF ManagerStep, KeepsRole
  <2>. QED
    BY <1>3, <2>2, <2>3, ManagerIsStep DEF SilenceCounts, Watching
<1>4. CASE ~m.mra_support /\ m.ring_role = "MRC"
  <2>1. Same(r, m)
    BY SMTT(30), <1>4, CoreTypes
       DEF mrp_ring_test_expired, Same, KeepsRole, KeepsPorts, KeepsManager, KeepsClient
  <2> HIDE DEF r
  <2>. QED
    BY <1>4, <2>1, SameIsStep
       DEF CountsStart, SilenceCounts, Watching, Same, KeepsRole
<1>. QED
  BY <1>1, <1>2, <1>3, <1>4 DEF RingRole

\* The expiry of the link-up timer, in an instance whose timers match its state.
LEMMA LinkUpExpired ==
    ASSUME NEW m, Core(m), Consistent(m), "ring_link_up" \in m.timers
    PROVE  LET r == mrp_ring_link_up_expired(m)
           IN  /\ Step(r, m) /\ SilenceKept(r, m)
               /\ FixedRole(m) => Waiting(m) /\ r.ring_role = "MRC" /\ WaitCounts(r, m)
<1> DEFINE r == mrp_ring_link_up_expired(m)
<1>1. m.ring_role \in RingRole
  BY CoreTypes DEF Instance
<1>2. ClientStep(r, m) /\ (TimersMatchClient(m) => WaitCounts(r, m))
  BY LinkUpExpiry
<1> HIDE DEF r
<1>3. FixedRole(m) => m.ring_role = "MRC" /\ TimersMatchClient(m)
  BY SMTT(30), <1>1 DEF Consistent, RingRole
<1>4. Step(r, m) /\ SilenceKept(r, m)
  BY <1>2, <1>3, ClientIsStep
<1>5. FixedRole(m) => Waiting(m) /\ r.ring_role = "MRC" /\ WaitCounts(r, m)
  BY <1>2, <1>3, <1>4 DEF Waiting, TimersMatchClient, Step
<1>. QED
  BY <1>4, <1>5 DEF r

\* The expiry of the link-down timer, likewise.
LEMMA LinkDownExpired ==
    ASSUME NEW m, Core(m), Consistent(m), "ring_link_down" \in m.timers
    PROVE  LET r == mrp_ring_link_down_expired(m) IN Step(r, m) /\ CountsStart(r, m)
<1> DEFINE r == mrp_ring_link_down_expired(m)
<1>1. m.ring_role \in RingRole
  BY CoreTypes DEF Instance
<1>2. ClientStep(r, m) /\ (TimersMatchClient(m) => WaitStarts(r, m))
  BY LinkDownExpiry
<1> HIDE DEF r
<1>3. FixedRole(m) => m.ring_role = "MRC" /\ TimersMatchClient(m)
  BY SMTT(30), <1>1 DEF Consistent, RingRole
<1>4. Step(r, m) /\ SilenceKept(r, m) /\ (WaitStarts(r, m) => WaitKept(r, m))
  BY SMTT(30), <1>2, <1>3, ClientIsStep
<1>5. WaitKept(r, m)
  BY <1>2, <1>3, <1>4 DEF WaitKept
<1>. QED
  BY <1>4, <1>5 DEF r, CountsStart

-----------------------------------------------------------------------------
(***************************************************************************)
(* What holds of an instance from addmrp on.                               *)
(***************************************************************************)
\* An instance as addmrp leaves it and as every callback keeps it.
Good(m) == Core(m) /\ Probing(m) /\ Consistent(m)

\* The counters of the instance agree with what has really passed.
CountsMatch(m, s, w) ==
    /\ Watching(m) => m.ring_test_curr = s
    /\ FixedRole(m) /\ Waiting(m) => m.ring_link_curr_max + w = ring_link_conf_max

\* An instance before its role is started.
Fresh(m) ==
    /\ m \in Instance /\ m.p_port # m.s_port
    /\ m.ring_test_curr_max >= ring_test_conf_max - 1
    /\ m.mrm_state = "AC_STAT1" /\ m.mrc_state = "AC_STAT1" /\ m.timers = {}

\* StartRole: both ports blocked, then the ports with a link taken up one by one.
LEMMA RoleStarted ==
    ASSUME NEW m, Fresh(m), NEW role \in RingRole, NEW up \in SUBSET RingPort
    PROVE  LET r == StartRole(m, role, up) IN Good(r) /\ CountsMatch(r, 0, 0)
<1> DEFINE shut == [m EXCEPT !.state = [p \in RingPort |-> "BLOCKED"], !.ring_role = role]
           first == IF m.p_port \in up THEN mrp_port_link_change(shut, m.p_port, TRUE) ELSE shut
           r == IF first.s_port \in up THEN mrp_port_link_change(first, first.s_port, TRUE)
                                       ELSE first
<1>1. StartRole(m, role, up) = r
  BY DEF StartRole
<1>2. ring_link_conf_max \in Nat
  BY ConfAssumption
<1>3. Good(shut) /\ CountsMatch(shut, 0, 0)
  <2>1. /\ shut \in Instance /\ shut.p_port = m.p_port /\ shut.s_port = m.s_port
        /\ shut.state = [p \in RingPort |-> "BLOCKED"]
        /\ shut.ring_test_curr_max = m.ring_test_curr_max
        /\ shut.mrm_state = m.mrm_state /\ shut.mrc_state = m.mrc_state
        /\ shut.timers = m.timers
    BY ZenonT(40) DEF Fresh, Instance, PortState
  <2>2. m.p_port \in RingPort /\ m.s_port \in RingPort
    BY DEF Fresh, Instance
  <2> HIDE DEF shut
  <2>. QED
    BY <2>1, <2>2
       DEF Fresh, Good, CountsMatch, Core, Probing, Consistent, Watching, Waiting,
           PortsMatchManager, PortsMatchClient, TimersMatchClient
<1> HIDE DEF shut
<1>4. ASSUME NEW a, Good(a), CountsMatch(a, 0, 0), NEW p \in RingPort
      PROVE  LET b == mrp_port_link_change(a, p, TRUE) IN Good(b) /\ CountsMatch(b, 0, 0)
  <2> DEFINE b == mrp_port_link_change(a, p, TRUE)
  <2> SUFFICES Good(b) /\ CountsMatch(b, 0, 0)
    BY Zenon
  <2>1. Step(b, a) /\ CountsStart(b, a)
    BY Zenon, <1>4, LinkChanged DEF Good
  <2> HIDE DEF b
  <2>. QED
    BY <1>2, <1>4, <2>1
       DEF Good, Step, CountsStart, SilenceKept, WaitKept, CountsMatch, FixedRole
<1>5. m.p_port \in RingPort
  BY DEF Fresh, Instance
<1>6. Good(first) /\ CountsMatch(first, 0, 0)
  BY Zenon, <1>3, <1>4, <1>5
<1> HIDE DEF first
<1>7. first.s_port \in RingPort
  BY <1>6, CoreTypes DEF Good
<1>8. Good(r) /\ CountsMatch(r, 0, 0)
  BY Zenon, <1>4, <1>6, <1>7
<1>. QED
  BY Zenon, <1>1, <1>8

\* mrp_reset_ring_state: both state machines start again, and no timer runs.
LEMMA RingReset ==
    ASSUME NEW a \in Instance
    PROVE  LET r == mrp_reset_ring_state(a)
           IN  /\ r \in Instance /\ r.p_port = a.p_port /\ r.s_port = a.s_port
               /\ r.ring_test_curr_max = a.ring_test_curr_max
               /\ r.mrm_state = "AC_STAT1" /\ r.mrc_state = "AC_STAT1" /\ r.timers = {}
BY ZenonT(40) DEF mrp_reset_ring_state, mrp_timer_stop, Instance, MrmState, MrcState

\* mrp_create: the instance has its types before it has a role.
LEMMA Created ==
    ASSUME NEW c \in ConfigRecord
    PROVE  LET m == mrp_create(c)
           IN  /\ m \in Instance /\ m.p_port # m.s_port
               /\ m.ring_test_curr_max = ring_test_conf_max /\ ring_test_conf_max \in Nat
<1> DEFINE m == mrp_create(c)
<1>1. /\ ring_test_conf_max \in Nat /\ ring_topo_conf_max - 1 \in Nat
      /\ c.prio \in Prio /\ c.prio \in UInt16 /\ c.macaddr \in Mac
      /\ c.react_on_link_change \in BOOLEAN /\ c.in_role \in InRole
  BY ConfAssumption DEF ConfigRecord
<1>2. /\ 1 \in RingPort /\ 2 \in RingPort
      /\ [p \in RingPort |-> "DISABLED"] \in [RingPort -> PortState]
      /\ [p \in RingPort |-> "UNKNOWN"] \in [RingPort -> OperState]
      /\ "MRC" \in RingRole /\ "AC_STAT1" \in MrmState /\ "AC_STAT1" \in MrcState
  BY SMTT(30) DEF RingPort, PortState, OperState, RingRole, MrmState, MrcState
<1>3. m \in Instance
  BY <1>1, <1>2, SMTT(30) DEF mrp_create, Instance
<1>4. m.p_port = 1 /\ m.s_port = 2 /\ m.ring_test_curr_max = ring_test_conf_max
  BY SMTT(30) DEF mrp_create
<1> HIDE DEF m
<1>5. m.p_port # m.s_port /\ m.ring_test_curr_max = ring_test_conf_max
  BY <1>4
<1>. QED
  BY Zenon, <1>1, <1>3, <1>5 DEF m

\* The instance of a manager and that of a client before their roles are started.
LEMMA Prepared ==
    ASSUME NEW c \in ConfigRecord
    PROVE  LET m == mrp_reset_ring_state(mrp_create(c))
           IN  /\ Fresh(mrp_set_mrm_state(mrp_set_mrm_init(m), "AC_STAT1"))
               /\ Fresh(mrp_set_mrc_state(mrp_set_mrc_init(m), "AC_STAT1"))
<1> DEFINE m0 == mrp_create(c)
           m1 == mrp_reset_ring_state(m0)
           a2 == mrp_set_mrm_init(m1)
           a3 == mrp_set_mrm_state(a2, "AC_STAT1")
           b2 == mrp_set_mrc_init(m1)
           b3 == mrp_set_mrc_state(b2, "AC_STAT1")
<1>1. Fresh(m1)
  <2>1. /\ m0 \in Instance /\ m0.p_port # m0.s_port
        /\ m0.ring_test_curr_max = ring_test_conf_max /\ ring_test_conf_max \in Nat
    BY Created
  <2> HIDE DEF m0
  <2>. QED
    BY <2>1, RingReset DEF Fresh
<1>2. Fresh(a3)
  <2> HIDE DEF m1
  <2>1. MrmReset(a2, m1)
    BY <1>1, InitMrm DEF Fresh
  <2> HIDE DEF a2
  <2>2. MrmSet(a3, a2, "AC_STAT1")
    BY <2>1, SetMrm DEF MrmReset, MrmState
  <2> HIDE DEF a3
  <2>. QED
    BY <1>1, <2>1, <2>2 DEF Fresh, MrmReset, MrmSet, KeepsPorts, KeepsClient
<1>3. Fresh(b3)
  <2> HIDE DEF m1
  <2>1. MrcReset(b2, m1)
    BY <1>1, InitMrc DEF Fresh
  <2> HIDE DEF b2
  <2>2. MrcSet(b3, b2, "AC_STAT1")
    BY <2>1, SetMrc DEF MrcReset, MrcState
  <2> HIDE DEF b3
  <2>. QED
    BY <1>1, <2>1, <2>2 DEF Fresh, MrcReset, MrcSet, KeepsPorts, KeepsManager
<1>. QED
  BY Zenon, <1>2, <1>3

\* mrp_add, for each of the three ring roles.
LEMMA Added ==
    ASSUME NEW c \in ConfigRecord, NEW up \in SUBSET RingPort
    PROVE  Good(mrp_add(c, up)) /\ CountsMatch(mrp_add(c, up), 0, 0)
<1> DEFINE m == mrp_create(c)
<1>1. /\ m \in Instance /\ m.p_port # m.s_port
      /\ m.ring_test_curr_max = ring_test_conf_max /\ ring_test_conf_max \in Nat
  BY Created
<1>2. CASE c.ring_role = "MRM"
  <2> DEFINE a == mrp_set_mrm_state(mrp_set_mrm_init(mrp_reset_ring_state(m)), "AC_STAT1")
  <2>1. mrp_add(c, up) = StartRole(a, "MRM", up)
    BY <1>2 DEF mrp_add, mrp_set_mrm_role
  <2>2. Fresh(a)
    BY Prepared
  <2> HIDE DEF a
  <2>. QED
    BY <2>1, <2>2, RoleStarted DEF RingRole
<1>3. CASE c.ring_role = "MRC"
  <2> DEFINE a == mrp_set_mrc_state(mrp_set_mrc_init(mrp_reset_ring_state(m)), "AC_STAT1")
  <2>1. mrp_add(c, up) = StartRole(a, "MRC", up)
    BY <1>3 DEF mrp_add, mrp_set_mrc_role
  <2>2. Fresh(a)
    BY Prepared
  <2> HIDE DEF a
  <2>. QED
    BY <2>1, <2>2, RoleStarted DEF RingRole
<1> HIDE DEF m
<1>4. CASE c.ring_role = "MRA"
  <2> DEFINE m0 == [m EXCEPT !.mra_support = TRUE]
             m1 == mrp_reset_ring_state(m0)
             m2 == mrp_set_mrm_init(m1)
             m3 == mrp_set_mrc_init(m2)
             m4 == mrp_set_mrm_state(m3, "AC_STAT1")
  <2>1. mrp_add(c, up) = StartRole(m4, "MRM", up)
    BY <1>4 DEF mrp_add, mrp_set_mra_role, m
  <2>2. /\ m0 \in Instance /\ m0.p_port = m.p_port /\ m0.s_port = m.s_port
        /\ m0.ring_test_curr_max = m.ring_test_curr_max
    BY ZenonT(40), <1>1 DEF Instance
  <2> HIDE DEF m0
  <2>3. Fresh(m1)
    BY <1>1, <2>2, RingReset DEF Fresh
  <2> HIDE DEF m1
  <2>4. MrmReset(m2, m1)
    BY <2>3, InitMrm DEF Fresh
  <2> HIDE DEF m2
  <2>5. MrcReset(m3, m2)
    BY <2>4, InitMrc DEF MrmReset
  <2> HIDE DEF m3
  <2>6. MrmSet(m4, m3, "AC_STAT1")
    BY <2>5, SetMrm DEF MrcReset, MrmState
  <2> HIDE DEF m4
  <2>7. Fresh(m4)
    BY <2>3, <2>4, <2>5, <2>6
       DEF Fresh, MrmReset, MrcReset, MrmSet, KeepsPorts, KeepsManager, KeepsClient
  <2>. QED
    BY <2>1, <2>7, RoleStarted DEF RingRole
<1>. QED
  BY <1>2, <1>3, <1>4 DEF ConfigRecord

=============================================================================
