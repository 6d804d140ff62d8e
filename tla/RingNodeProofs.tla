--------------------------- MODULE RingNodeProofs ---------------------------
(***************************************************************************)
(* Proofs about RingNode: the inductive invariant and the theorems, and    *)
(* what the handlers announce.  What they preserve is in InstanceProofs.   *)
(***************************************************************************)
EXTENDS RingNode, InstanceProofs

\* The frames that may arrive are frames of the ring.
LEMMA RxFrames == Rx \subseteq Frame
<1> SUFFICES ASSUME NEW f \in Rx PROVE f \in Frame
  OBVIOUS
<1>1. Prio \subseteq UInt16 /\ Interval \subseteq UInt16
  BY ConfAssumption, NodeAssumption
<1>2. CASE f \in LinkFrame \cup TestFrame \cup NackFrame
  BY <1>2 DEF Frame
<1>3. CASE f \in [type : {"RING_TOPO"}, sa : Mac, interval : Interval]
  BY <1>1, <1>3 DEF TopoFrame, Frame
<1>4. CASE f \in [type : {"OPTION"}, sub : {"TEST_PROPAGATE"}, sa : Mac, prio : Prio,
                  other_sa : Mac \cup {NoMac}, other_prio : Prio]
  <2>1. f \in PropFrame
    BY <1>1, <1>4 DEF PropFrame
  <2>. QED
    BY <2>1 DEF Frame
<1>. QED
  BY <1>2, <1>3, <1>4 DEF Rx

-----------------------------------------------------------------------------
(***************************************************************************)
(* The inductive invariant.                                                *)
(***************************************************************************)
IndInv == Good(mrp) /\ CountsMatch(mrp, silence, waited) /\ silence \in Nat /\ waited \in Nat

\* The callbacks preserve it: the history variables follow the counters.
LEMMA CallbackKeeps ==
    ASSUME IndInv, NEW r, Step(r, mrp), NEW event, Callback(r, event),
           event = "own_test" => (Watching(r) => r.ring_test_curr = 0),
           event = "ring_test" => SilenceCounts(r, mrp),
           event \notin {"own_test", "ring_test"} => SilenceKept(r, mrp),
           event = "ring_link_up" =>
               (FixedRole(mrp) => Waiting(mrp) /\ r.ring_role = "MRC" /\ WaitCounts(r, mrp)),
           event # "ring_link_up" => WaitKept(r, mrp)
    PROVE  IndInv'
<1>1. mrp' = r /\ Good(r)
  BY SMTT(30) DEF Callback, IndInv, Good, Step
<1>2. /\ silence \in Nat /\ waited \in Nat /\ ring_link_conf_max \in Nat
      /\ r.ring_link_curr_max \in Nat /\ mrp.ring_link_curr_max \in Nat
  BY <1>1, CoreTypes, ConfAssumption DEF IndInv, Good
<1>3. silence' \in Nat /\ (Watching(r) => r.ring_test_curr = silence')
  <2>1. CASE event = "own_test"
    BY <1>2, <2>1 DEF Callback
  <2>2. CASE event = "ring_test"
    BY <1>2, <2>2 DEF Callback, SilenceCounts, IndInv, CountsMatch
  <2>3. CASE event \notin {"own_test", "ring_test"}
    BY <1>2, <2>3 DEF Callback, SilenceKept, IndInv, CountsMatch
  <2>. QED
    BY <2>1, <2>2, <2>3
<1>4. /\ waited' \in Nat
      /\ FixedRole(r) /\ Waiting(r) => r.ring_link_curr_max + waited' = ring_link_conf_max
  <2>1. FixedRole(r) <=> FixedRole(mrp)
    BY DEF Step, FixedRole
  <2>2. CASE event = "ring_link_up"
    BY <1>2, <2>1, <2>2 DEF Callback, Waiting, WaitCounts, IndInv, CountsMatch
  <2>3. CASE event # "ring_link_up"
    BY <1>2, <2>1, <2>3 DEF Callback, WaitKept, IndInv, CountsMatch
  <2>. QED
    BY <2>2, <2>3
<1>. QED
  BY <1>1, <1>3, <1>4 DEF IndInv, CountsMatch

\* One callback: what it preserves, and that it is a step of the instance.
LEMMA NextKeeps ==
    ASSUME IndInv, Next
    PROVE  IndInv' /\ Step(mrp', mrp)
<1> DEFINE m == Idle(mrp)
<1>1. Core(mrp) /\ Consistent(mrp)
  BY DEF IndInv, Good
<1>2. Same(m, mrp) /\ m.macaddr = mrp.macaddr
  BY <1>1, CoreTypes, IdleKeeps
<1> HIDE DEF m
<1>3. Core(m) /\ Consistent(m)
  BY <1>1, <1>2, SameIsStep DEF Step
<1>4. ASSUME NEW r, NEW event, event \notin {"own_test", "ring_test", "ring_link_up"},
             Callback(r, event), Step(r, m), CountsStart(r, m)
      PROVE  IndInv' /\ Step(mrp', mrp)
  <2>1. Step(r, mrp) /\ SilenceKept(r, mrp) /\ WaitKept(r, mrp)
    BY <1>2, <1>4, AfterSame DEF CountsStart
  <2>2. IndInv'
    BY <1>4, <2>1, CallbackKeeps
  <2>. QED
    BY <1>4, <2>1, <2>2 DEF Callback
<1>5. CASE packet_rcv
  <2>1. PICK p \in RingPort, f \in Rx :
          Callback(mrp_recv(m, p, f),
                   IF f.type = "RING_TEST" /\ f.sa = mrp.macaddr THEN "own_test" ELSE "frame")
    BY <1>5 DEF packet_rcv, m
  <2> DEFINE r == mrp_recv(m, p, f)
  <2>2. Step(r, m) /\ WaitKept(r, m) /\ SilenceAfter(r, m, f)
    BY <1>3, RxFrames, Received
  <2> HIDE DEF r
  <2>3. Step(r, mrp) /\ WaitKept(r, mrp) /\ (SilenceKept(r, m) => SilenceKept(r, mrp))
    BY <1>2, <2>2, AfterSame
  <2>4. CASE f.type = "RING_TEST" /\ f.sa = mrp.macaddr
    <3>1. Watching(r) => r.ring_test_curr = 0
      BY <1>2, <2>2, <2>4 DEF SilenceAfter
    <3>2. Callback(r, "own_test")
      BY <2>1, <2>4 DEF r
    <3>3. IndInv'
      BY <2>3, <3>1, <3>2, CallbackKeeps
    <3>. QED
      BY <2>3, <3>2, <3>3 DEF Callback
  <2>5. CASE ~(f.type = "RING_TEST" /\ f.sa = mrp.macaddr)
    <3>1. SilenceKept(r, m)
      BY <1>2, <2>2, <2>5 DEF SilenceAfter
    <3>2. Callback(r, "frame")
      BY <2>1, <2>5 DEF r
    <3>3. IndInv'
      BY <2>3, <3>1, <3>2, CallbackKeeps
    <3>. QED
      BY <2>3, <3>2, <3>3 DEF Callback
  <2>. QED
    BY <2>4, <2>5
<1>6. CASE netlink_listen
  <2>1. PICK p \in RingPort, s \in OperState \cup {"OTHER"} :
          Callback(mrp_port_link_change(m, p, s \in {"UNKNOWN", "UP"}), "link")
    BY <1>6 DEF netlink_listen, m
  <2> DEFINE up == s \in {"UNKNOWN", "UP"}
             r == mrp_port_link_change(m, p, up)
  <2>2. up \in BOOLEAN /\ Callback(r, "link")
    BY <2>1
  <2> HIDE DEF up
  <2>3. Step(r, m) /\ CountsStart(r, m)
    BY <1>3, <2>2, LinkChanged
  <2> HIDE DEF r
  <2>. QED
    BY <1>4, <2>2, <2>3
<1>7. CASE mrp_mac_change
  <2>1. PICK mac \in NewMac : Callback([m EXCEPT !.macaddr = mac], "mac")
    BY SMTT(30), <1>7 DEF mrp_mac_change, m
  <2> DEFINE r == [m EXCEPT !.macaddr = mac]
  <2>2. m \in Instance /\ mac \in Mac
    BY <1>3, CoreTypes, NodeAssumption
  <2>3. Same(r, m)
    BY <2>2, MacKeeps
  <2> HIDE DEF r
  <2>4. Step(r, m) /\ CountsStart(r, m)
    BY <1>3, <2>3, SameIsStep
  <2>. QED
    BY <1>4, <2>1, <2>4 DEF r
<1>8. CASE ring_test_work
  <2> DEFINE r == mrp_ring_test_expired(m)
  <2>1. Callback(r, "ring_test")
    BY <1>8 DEF ring_test_work, m
  <2>2. Step(r, m) /\ WaitKept(r, m) /\ SilenceCounts(r, m)
    BY <1>3, TestExpired
  <2> HIDE DEF r
  <2>3. Step(r, mrp) /\ WaitKept(r, mrp)
    BY SMTT(30), <1>2, <2>2, AfterSame
  <2>4. SilenceCounts(r, mrp)
    BY <1>2, <2>2 DEF SilenceCounts, Watching, Same, KeepsRole, KeepsManager
  <2>5. IndInv'
    BY <2>1, <2>3, <2>4, CallbackKeeps
  <2>. QED
    BY <2>1, <2>3, <2>5 DEF Callback
<1>9. CASE ring_topo_work
  <2> DEFINE r == mrp_ring_topo_expired(m)
  <2>1. Callback(r, "ring_topo")
    BY SMTT(30), <1>9 DEF ring_topo_work, m
  <2>2. Same(r, m)
    BY <1>3, CoreTypes, TopoExpiryKeeps
  <2> HIDE DEF r
  <2>3. Step(r, m) /\ CountsStart(r, m)
    BY <1>3, <2>2, SameIsStep
  <2>. QED
    BY <1>4, <2>1, <2>3
<1>10. CASE ring_link_up_work
  <2> DEFINE r == mrp_ring_link_up_expired(m)
  <2>1. Callback(r, "ring_link_up") /\ "ring_link_up" \in m.timers
    BY SMTT(30), <1>2, <1>10 DEF ring_link_up_work, m, Same, KeepsClient
  <2>2. /\ Step(r, m) /\ SilenceKept(r, m)
        /\ FixedRole(m) => Waiting(m) /\ r.ring_role = "MRC" /\ WaitCounts(r, m)
    BY SMTT(30), <1>3, <2>1, LinkUpExpired
  <2> HIDE DEF r
  <2>3. Step(r, mrp) /\ SilenceKept(r, mrp)
    BY SMTT(30), <1>2, <2>2, AfterSame
  <2>4. FixedRole(mrp) => Waiting(mrp) /\ r.ring_role = "MRC" /\ WaitCounts(r, mrp)
    BY SMTT(30), <1>2, <2>2 DEF FixedRole, Waiting, WaitCounts, Same, KeepsRole, KeepsClient
  <2>5. IndInv'
    BY SMTT(30), <2>1, <2>3, <2>4, CallbackKeeps
  <2>. QED
    BY SMTT(30), <2>1, <2>3, <2>5 DEF Callback
<1>11. CASE ring_link_down_work
  <2> DEFINE r == mrp_ring_link_down_expired(m)
  <2>1. Callback(r, "ring_link_down") /\ "ring_link_down" \in m.timers
    BY <1>2, <1>11 DEF ring_link_down_work, m, Same, KeepsClient
  <2>2. Step(r, m) /\ CountsStart(r, m)
    BY <1>3, <2>1, LinkDownExpired
  <2> HIDE DEF r
  <2>. QED
    BY SMTT(30), <1>4, <2>1, <2>2
<1>12. CASE clear_fdb_work
  <2> DEFINE r == mrp_clear_fdb_expired(m)
  <2>1. Callback(r, "clear_fdb")
    BY SMTT(30), <1>12 DEF clear_fdb_work, m
  <2>2. Same(r, m)
    BY <1>3, CoreTypes, ClearFdbKeeps
  <2> HIDE DEF r
  <2>3. Step(r, m) /\ CountsStart(r, m)
    BY <1>3, <2>2, SameIsStep
  <2>. QED
    BY <1>4, <2>1, <2>3
<1>. QED
  BY <1>5, <1>6, <1>7, <1>8, <1>9, <1>10, <1>11, <1>12 DEF Next

-----------------------------------------------------------------------------
(***************************************************************************)
(* The theorems.                                                           *)
(***************************************************************************)
\* The inductive invariant holds of every behaviour: ports, timers and counters agree
\* with the state machines after every callback.
THEOREM Invariance == Spec => []IndInv
<1>1. Init => IndInv
  <2> SUFFICES ASSUME Init PROVE IndInv
    OBVIOUS
  <2>1. PICK c \in Config, up \in SUBSET RingPort : mrp = mrp_add(c, up)
    BY DEF Init
  <2>2. c \in ConfigRecord
    BY NodeAssumption
  <2>3. Good(mrp) /\ CountsMatch(mrp, 0, 0)
    BY <2>1, <2>2, Added
  <2>. QED
    BY <2>3 DEF Init, IndInv
<1>2. IndInv /\ [Next]_vars => IndInv'
  <2>1. IndInv /\ Next => IndInv'
    BY NextKeeps
  <2>2. IndInv /\ UNCHANGED vars => IndInv'
    BY DEF vars, IndInv
  <2>. QED
    BY <2>1, <2>2
<1>. QED
  BY <1>1, <1>2, PTL DEF Spec

\* Every callback keeps the types of struct mrp, and only frames are sent.
THEOREM TypeCorrect == Spec => []TypeOK
<1>1. IndInv => TypeOK
  BY SMTT(30) DEF IndInv, Good, Core, TypeOK
<1>. QED
  BY <1>1, Invariance, PTL

\* The ports of a manager with a fixed role match its state: with the ring considered
\* closed the secondary port is blocked.
THEOREM ManagerPortsHold == Spec => []ManagerPorts
<1>1. IndInv => ManagerPorts
  BY DEF IndInv, Good, Consistent, ManagerPorts
<1>. QED
  BY <1>1, Invariance, PTL

\* The ports of a client with a fixed role match its state.
THEOREM ClientPortsHold == Spec => []ClientPorts
<1>1. IndInv => ClientPorts
  BY DEF IndInv, Good, Consistent, ClientPorts
<1>. QED
  BY <1>1, Invariance, PTL

\* A client's link timers run exactly in the states they belong to, so no handler of
\* theirs, which look at no state, runs in another one.
THEOREM LinkTimersHold == Spec => []LinkTimersMatch
<1>1. IndInv => LinkTimersMatch
  BY DEF IndInv, Good, Consistent, LinkTimersMatch
<1>. QED
  BY <1>1, Invariance, PTL

\* A manager with a link, an automanager included, probes its ring for ever.
THEOREM ProbesHold == Spec => []ManagerProbes
<1>1. IndInv => ManagerProbes
  BY DEF IndInv, Good, Probing, ManagerProbes
<1>. QED
  BY <1>1, Invariance, PTL

\* No frame, timer or link moves an instance with a fixed role to another role.
THEOREM RoleHolds == Spec => RoleIsFixed
<1>1. IndInv /\ [Next]_vars => [FixedRole(mrp) => mrp'.ring_role = mrp.ring_role]_vars
  <2>1. IndInv /\ Next => (FixedRole(mrp) => mrp'.ring_role = mrp.ring_role)
    BY NextKeeps DEF Step
  <2>. QED
    BY <2>1 DEF vars
<1>. QED
  BY <1>1, Invariance, PTL DEF Spec, RoleIsFixed

\* A manager gives up on its ring by timeout only after ring_test_conf_max intervals in a
\* row without a frame of its own.
THEOREM Patience == Spec => OpensAfterSilence
<1> DEFINE Property == Watching(mrp) /\ ring_test_work /\ ~Watching(mrp')
                          => silence + 1 >= ring_test_conf_max
<1>1. IndInv => Property
  <2> SUFFICES ASSUME IndInv, Watching(mrp), ring_test_work, ~Watching(mrp')
               PROVE  silence + 1 >= ring_test_conf_max
    OBVIOUS
  <2> DEFINE m == Idle(mrp)
             r == mrp_ring_test_expired(m)
  <2>1. Core(mrp) /\ mrp.ring_test_curr = silence
    BY DEF IndInv, Good, CountsMatch
  <2>2. mrp' = r
    BY DEF ring_test_work, Callback
  <2>3. Same(m, mrp)
    BY <2>1, CoreTypes, IdleKeeps
  <2> HIDE DEF m
  <2>4. Core(m)
    BY <2>1, <2>3, SameIsStep DEF Step
  <2>5. SilenceCounts(r, m)
    BY <2>4, TestExpired
  <2> HIDE DEF r
  <2>6. Watching(m) /\ ~Watching(r)
    BY <2>2, <2>3 DEF Watching, Same, KeepsRole, KeepsManager
  <2>7. m.ring_test_curr >= m.ring_test_curr_max /\ m.ring_test_curr = silence
    BY <2>1, <2>3, <2>5, <2>6 DEF SilenceCounts, Same, KeepsManager
  <2>8. m.ring_test_curr_max >= ring_test_conf_max - 1
    BY <2>4 DEF Core
  <2>. QED
    BY <2>4, <2>7, <2>8, CoreTypes
<1>2. IndInv /\ [Next]_vars => [Property]_vars
  BY <1>1
<1>. QED
  BY <1>2, Invariance, PTL DEF Spec, OpensAfterSilence

\* A client opens its port by timeout only after the full countdown of announcements.
THEOREM FullCountdown == Spec => OpensAfterAnnouncing
<1> DEFINE Property == FixedRole(mrp) /\ Waiting(mrp) /\ ring_link_up_work /\ ~Waiting(mrp')
                          => waited = ring_link_conf_max
<1>1. IndInv => Property
  <2> SUFFICES ASSUME IndInv, FixedRole(mrp), Waiting(mrp), ring_link_up_work, ~Waiting(mrp')
               PROVE  waited = ring_link_conf_max
    OBVIOUS
  <2> DEFINE m == Idle(mrp)
             r == mrp_ring_link_up_expired(m)
  <2>1. /\ Core(mrp) /\ Consistent(mrp) /\ waited \in Nat
        /\ mrp.ring_link_curr_max + waited = ring_link_conf_max
    BY DEF IndInv, Good, CountsMatch
  <2>2. mrp' = r /\ "ring_link_up" \in mrp.timers
    BY SMTT(30) DEF ring_link_up_work, Callback
  <2>3. Same(m, mrp)
    BY <2>1, CoreTypes, IdleKeeps
  <2> HIDE DEF m
  <2>4. Core(m) /\ Consistent(m)
    BY <2>1, <2>3, SameIsStep DEF Step
  <2>5. "ring_link_up" \in m.timers /\ FixedRole(m)
    BY SMTT(30), <2>2, <2>3 DEF FixedRole, Same, KeepsRole, KeepsClient
  <2>6. r.ring_role = "MRC" /\ WaitCounts(r, m)
    BY <2>4, <2>5, LinkUpExpired
  <2> HIDE DEF r
  <2>7. m.ring_link_curr_max = 0
    BY <2>2, <2>6 DEF Waiting, WaitCounts
  <2>8. mrp.ring_link_curr_max = 0
    BY <2>3, <2>7 DEF Same, KeepsClient
  <2>. QED
    BY <2>1, <2>8, ConfAssumption
<1>2. IndInv /\ [Next]_vars => [Property]_vars
  BY <1>1
<1>. QED
  BY <1>2, Invariance, PTL DEF Spec, OpensAfterAnnouncing

-----------------------------------------------------------------------------
(***************************************************************************)
(* Announcements: what a handler does to the manager's state, to no_tc,    *)
(* which would suppress an announcement, and to the evidence of one.       *)
(***************************************************************************)
Fields(m) == {"mrm_state", "no_tc", "flushed", "timers"} \subseteq DOMAIN m

Told(m) == m.flushed \/ "ring_topo" \in m.timers

\* An operation that leaves the manager's state and no_tc alone.
Even(r, m) == Fields(r) /\ r.mrm_state = m.mrm_state /\ r.no_tc = m.no_tc

\* A callback announces that the manager opens or closes its ring.
Announces(r, m) ==
    /\ Fields(r) /\ r.no_tc = FALSE
    /\ {m.mrm_state, r.mrm_state} = {"CHK_RO", "CHK_RC"} => Told(r)

\* An instance has these fields.
LEMMA InstanceFields ==
    ASSUME NEW m \in Instance
    PROVE  Fields(m) /\ Even(m, m)
BY SMTT(30) DEF Instance, Fields, Even

\* What leaves the state alone has nothing to announce.
LEMMA EvenAnnounces ==
    ASSUME NEW m, NEW r, Even(r, m), m.no_tc = FALSE
    PROVE  Announces(r, m)
BY DEF Even, Announces

\* The fields remain.
LEMMA EvenHasFields ==
    ASSUME NEW m, NEW r, Even(r, m)
    PROVE  Fields(r)
BY DEF Even

\* The operations on other fields.
LEMMA EvenFields ==
    ASSUME NEW m, NEW x, Even(x, m), NEW t, NEW p, NEW s
    PROVE  /\ Even(ev_timer_again(x, t), m) /\ Even(ev_timer_stop(x, t), m)
           /\ Even(mrp_port_set_state(x, p, s), m)
           /\ Even(ifdriver_flush(x), m)
           /\ Even(RestartCount(x), m) /\ Even(RestartLink(x), m)
           /\ Even(mrp_set_mrc_state(x, s), m) /\ Even(mrp_set_ring_role(x, s), m)
           /\ Even(mrp_set_mrc_init(x), m)
           /\ Even(Promote(x, p), m) /\ Even(Demote(x, p), m)
           /\ Even([x EXCEPT !.operstate = s], m)
           /\ Even([x EXCEPT !.add_test = s], m)
           /\ Even([x EXCEPT !.macaddr = s], m)
           /\ Even([x EXCEPT !.ring_test_curr_max = s], m)
           /\ Even([x EXCEPT !.ring_topo_curr_max = s], m)
           /\ Even([x EXCEPT !.ring_link_curr_max = s], m)
           /\ Even([x EXCEPT !.ring_mon_curr = s], m)
           /\ Even([x EXCEPT !.ring_test_curr = s, !.add_test = FALSE], m)
           /\ Even([x EXCEPT !.ring_mon_curr = p, !.ring_prio = s], m)
           /\ Even([x EXCEPT !.ring_prio = p, !.ring_mac = s], m)
           /\ Even([x EXCEPT !.ring_prio = p, !.ring_mac = s, !.ring_mon_curr = t], m)
           /\ Even([x EXCEPT !.state = p, !.ring_role = s], m)
<1>1. /\ Even(ev_timer_again(x, t), m) /\ Even(ev_timer_stop(x, t), m)
      /\ Even(mrp_port_set_state(x, p, s), m)
      /\ Even(ifdriver_flush(x), m)
  BY ZenonT(40)
     DEF ev_timer_again, ev_timer_stop, mrp_port_set_state, ifdriver_flush, Even, Fields
<1>2. Even(RestartCount(x), m) /\ Even(RestartLink(x), m)
  BY ZenonT(40) DEF RestartCount, RestartLink, Even, Fields
<1>3. /\ Even(mrp_set_mrc_state(x, s), m) /\ Even(mrp_set_ring_role(x, s), m)
      /\ Even(mrp_set_mrc_init(x), m)
  BY ZenonT(40) DEF mrp_set_mrc_state, mrp_set_ring_role, mrp_set_mrc_init, Even, Fields
<1>4. Even(Promote(x, p), m) /\ Even(Demote(x, p), m)
  BY ZenonT(40) DEF Promote, Demote, Even, Fields
<1>5. /\ Even([x EXCEPT !.operstate = s], m)
      /\ Even([x EXCEPT !.add_test = s], m)
      /\ Even([x EXCEPT !.macaddr = s], m)
      /\ Even([x EXCEPT !.ring_test_curr_max = s], m)
      /\ Even([x EXCEPT !.ring_topo_curr_max = s], m)
      /\ Even([x EXCEPT !.ring_link_curr_max = s], m)
      /\ Even([x EXCEPT !.ring_mon_curr = s], m)
  BY ZenonT(40) DEF Even, Fields
<1>6. /\ Even([x EXCEPT !.ring_test_curr = s, !.add_test = FALSE], m)
      /\ Even([x EXCEPT !.ring_mon_curr = p, !.ring_prio = s], m)
      /\ Even([x EXCEPT !.ring_prio = p, !.ring_mac = s], m)
      /\ Even([x EXCEPT !.state = p, !.ring_role = s], m)
  BY ZenonT(40) DEF Even, Fields
<1>7. Even([x EXCEPT !.ring_prio = p, !.ring_mac = s, !.ring_mon_curr = t], m)
  BY ZenonT(40) DEF Even, Fields
<1>. QED
  BY Zenon, <1>1, <1>2, <1>3, <1>4, <1>5, <1>6, <1>7

\* The requests.
LEMMA EvenRequests ==
    ASSUME NEW m, NEW x, Even(x, m), NEW P, NEW f, NEW time, NEW up
    PROVE  /\ Even(mrp_send(x, P, f), m)
           /\ Even(mrp_ring_test_req(x), m)
           /\ Even(mrp_ring_topo_send(x, time), m) /\ Even(mrp_ring_topo_req(x, time), m)
           /\ Even(mrp_ring_topo_stop(x), m)
           /\ Even(mrp_ring_link_req(x, up), m)
           /\ Even(mrp_test_mgr_nack_req(x, f), m) /\ Even(mrp_test_prop_req(x), m)
           /\ Even(mrp_clear_fdb_start(x, time), m) /\ Even(mrp_clear_fdb_expired(x), m)
<1>1. ASSUME NEW y, Even(y, m), NEW Q, NEW g PROVE Even(mrp_send(y, Q, g), m)
  BY Zenon, <1>1 DEF mrp_send, Even, Fields
<1>2. Even(mrp_ring_test_req(x), m)
  BY Zenon, <1>1, EvenFields DEF mrp_ring_test_req
<1>3. ASSUME NEW k PROVE Even(mrp_ring_topo_send(x, k), m)
  <2> DEFINE g == [type |-> "RING_TOPO", sa |-> x.macaddr, interval |-> ToUInt16(k \div 1000)]
  <2>1. mrp_ring_topo_send(x, k) = mrp_send(x, BothPorts(x), g)
    BY Zenon DEF mrp_ring_topo_send
  <2> HIDE DEF g
  <2>. QED
    BY Zenon, <1>1, <2>1
<1>4. Even(mrp_ring_topo_req(x, time), m)
  <2> DEFINE sent == mrp_ring_topo_send(x, time * ring_topo_conf_max)
  <2>1. Even(sent, m)
    BY <1>3
  <2>2. mrp_ring_topo_req(x, time) = IF time = 0 THEN ifdriver_flush(sent) ELSE mrp_ring_topo_start(sent)
    BY Zenon DEF mrp_ring_topo_req
  <2> HIDE DEF sent
  <2>3. Even(ifdriver_flush(sent), m)
    BY Zenon, <2>1, EvenFields
  <2>4. Even(mrp_ring_topo_start(sent), m)
    BY Zenon, <2>1 DEF mrp_ring_topo_start, ev_timer_again, Even, Fields
  <2>. QED
    BY Zenon, <2>2, <2>3, <2>4
<1>5. Even(mrp_ring_topo_stop(x), m)
  BY Zenon DEF mrp_ring_topo_stop, ev_timer_stop, Even, Fields
<1>6. /\ Even(mrp_ring_link_req(x, up), m)
      /\ Even(mrp_test_mgr_nack_req(x, f), m) /\ Even(mrp_test_prop_req(x), m)
  BY Zenon, <1>1 DEF mrp_ring_link_req, mrp_test_mgr_nack_req, mrp_test_prop_req
<1>7. Even(mrp_clear_fdb_start(x, time), m) /\ Even(mrp_clear_fdb_expired(x), m)
  BY Zenon, EvenFields DEF mrp_clear_fdb_start, mrp_clear_fdb_expired
<1>. QED
  BY Zenon, <1>1, <1>2, <1>3, <1>4, <1>5, <1>6, <1>7

\* An announcement is not undone by the probe or the change of state that follows it.
LEMMA ToldStays ==
    ASSUME NEW x, Fields(x), NEW time, NEW s
    PROVE  /\ Told(mrp_ring_topo_req(x, time))
           /\ Told(x) => Told(mrp_ring_test_req(x))
           /\ Told(x) => Told(mrp_set_mrm_state(x, s))
<1>1. ASSUME NEW y, Fields(y) PROVE Told(ifdriver_flush(y)) /\ Told(mrp_ring_topo_start(y))
  BY Zenon, <1>1 DEF ifdriver_flush, mrp_ring_topo_start, ev_timer_again, Told, Fields
<1>2. Told(mrp_ring_topo_req(x, time))
  <2> DEFINE sent == mrp_ring_topo_send(x, time * ring_topo_conf_max)
  <2>1. Fields(sent)
    BY Zenon, EvenRequests DEF Even
  <2>2. mrp_ring_topo_req(x, time) = IF time = 0 THEN ifdriver_flush(sent) ELSE mrp_ring_topo_start(sent)
    BY Zenon DEF mrp_ring_topo_req
  <2> HIDE DEF sent
  <2>. QED
    BY Zenon, <1>1, <2>1, <2>2
<1>3. ASSUME NEW P, NEW f PROVE Told(x) => Told(ev_timer_again(mrp_send(x, P, f), "ring_test"))
  BY ZenonT(40) DEF ev_timer_again, mrp_send, Told, Fields
<1>4. Told(x) => Told(mrp_ring_test_req(x))
  BY Zenon, <1>3 DEF mrp_ring_test_req
<1>5. Told(x) => Told(mrp_set_mrm_state(x, s))
  BY Zenon DEF mrp_set_mrm_state, Told, Fields
<1>. QED
  BY Zenon, <1>2, <1>4, <1>5

\* mrp_set_mrm_state ends the suppression.
LEMMA StateSet ==
    ASSUME NEW x, Fields(x), NEW s
    PROVE  LET r == mrp_set_mrm_state(x, s)
           IN  Fields(r) /\ r.mrm_state = s /\ r.no_tc = FALSE
BY Zenon DEF mrp_set_mrm_state, Fields

\* The manager's handlers of test frames and of link announcements.
LEMMA TestAnnounces ==
    ASSUME NEW m \in Instance, m.no_tc = FALSE
    PROVE  Announces(mrp_mrm_recv_ring_test(m), m)
<1> DEFINE r == mrp_mrm_recv_ring_test(m)
<1>1. Even(m, m) /\ Fields(m)
  BY InstanceFields
<1>2. CASE m.mrm_state = "PRM_UP"
  <2> DEFINE a == mrp_ring_test_req(RestartCount(m))
  <2>1. r = mrp_set_mrm_state(a, "CHK_RC")
    BY Zenon, <1>2 DEF mrp_mrm_recv_ring_test
  <2>2. Fields(a)
    BY Zenon, <1>1, EvenFields, EvenRequests, EvenHasFields
  <2> HIDE DEF a, r
  <2>3. Fields(r) /\ r.no_tc = FALSE
    BY Zenon, <2>1, <2>2, StateSet
  <2>. QED
    BY <1>2, <2>3 DEF Announces, r
<1>3. CASE m.mrm_state = "CHK_RO"
  <2> DEFINE b == mrp_port_set_state(m, m.s_port, "BLOCKED")
             c == mrp_ring_test_req(RestartCount(b))
             time == IF m.react_on_link_change THEN 0 ELSE ring_topo_conf_interval
             d == mrp_ring_topo_req(c, time)
  <2>1. r = mrp_set_mrm_state(d, "CHK_RC")
    BY Zenon, <1>3 DEF mrp_mrm_recv_ring_test
  <2> HIDE DEF r, time
  <2>2. Even(c, m)
    BY Zenon, <1>1, EvenFields, EvenRequests
  <2> HIDE DEF c
  <2>3. Even(d, m) /\ Told(d)
    BY Zenon, <2>2, EvenRequests, ToldStays, EvenHasFields
  <2> HIDE DEF d
  <2>4. Fields(r) /\ r.no_tc = FALSE /\ Told(r)
    BY Zenon, <2>1, <2>3, StateSet, ToldStays, EvenHasFields
  <2>. QED
    BY <2>4 DEF Announces, r
<1>4. CASE m.mrm_state = "CHK_RC"
  <2> DEFINE a == RestartCount(m)
  <2>1. r = [a EXCEPT !.no_tc = FALSE]
    BY Zenon, <1>4 DEF mrp_mrm_recv_ring_test
  <2>2. Even(a, m)
    BY Zenon, <1>1, EvenFields
  <2> HIDE DEF a, r
  <2>3. Even(r, m)
    BY Zenon, <2>1, <2>2 DEF Even, Fields
  <2>. QED
    BY Zenon, <2>3, EvenAnnounces DEF r
<1>5. CASE m.mrm_state \notin {"PRM_UP", "CHK_RO", "CHK_RC"}
  <2>1. r = m
    BY <1>5 DEF mrp_mrm_recv_ring_test
  <2>. QED
    BY Zenon, <1>1, <2>1, EvenAnnounces
<1>. QED
  BY <1>2, <1>3, <1>4, <1>5

\* A client's announcement of a link change.
LEMMA LinkAnnounces ==
    ASSUME NEW m \in Instance, m.no_tc = FALSE, NEW type \in {"RING_LINK_UP", "RING_LINK_DOWN"}
    PROVE  Announces(mrp_recv_ring_link(m, type), m)
<1> DEFINE r == mrp_recv_ring_link(m, type)
<1>1. Even(m, m) /\ Fields(m)
  BY InstanceFields
<1>2. Even(ProbeOnce(m), m)
  BY Zenon, <1>1, EvenFields, EvenRequests DEF ProbeOnce
<1>3. ASSUME NEW x, Even(x, m), NEW s
      PROVE  Announces(mrp_set_mrm_state(mrp_ring_topo_req(x, 0), s), m)
  <2> DEFINE a == mrp_ring_topo_req(x, 0)
             b == mrp_set_mrm_state(a, s)
  <2>1. Fields(a) /\ Told(a)
    BY Zenon, <1>3, EvenRequests, ToldStays, EvenHasFields
  <2> HIDE DEF a
  <2>2. Fields(b) /\ b.no_tc = FALSE /\ Told(b)
    BY Zenon, <2>1, StateSet, ToldStays
  <2>. QED
    BY Zenon, <2>2 DEF Announces, a
<1>4. CASE m.mrm_state = "PRM_UP"
  <2>1. r = m \/ r = ProbeOnce(m) \/ r = mrp_ring_topo_req(ProbeOnce(m), 0)
    BY Zenon, <1>4 DEF mrp_recv_ring_link, mrp_recv_ring_link_PRM_UP
  <2>2. Even(r, m)
    BY Zenon, <1>1, <1>2, <2>1, EvenRequests
  <2>. QED
    BY Zenon, <2>2, EvenAnnounces
<1>5. CASE m.mrm_state = "CHK_RO"
  <2> DEFINE a == RestartCount(mrp_port_set_state(m, m.s_port, "BLOCKED"))
             b == [mrp_ring_test_req(a) EXCEPT !.add_test = TRUE]
  <2>1. r = ProbeOnce(m) \/ r = mrp_set_mrm_state(mrp_ring_topo_req(b, 0), "CHK_RC")
    BY Zenon, <1>5 DEF mrp_recv_ring_link, mrp_recv_ring_link_CHK_RO
  <2>2. Even(b, m)
    BY Zenon, <1>1, EvenFields, EvenRequests
  <2> HIDE DEF b
  <2>. QED
    BY Zenon, <1>2, <1>3, <2>1, <2>2, EvenAnnounces
<1>6. CASE m.mrm_state = "CHK_RC"
  <2> DEFINE a == mrp_port_set_state(m, m.s_port, "FORWARDING")
             b == mrp_set_mrm_state(mrp_ring_topo_req(a, 0), "CHK_RO")
             d == [m EXCEPT !.ring_test_curr_max = ring_test_conf_max - 1]
             e == mrp_ring_topo_req(d, 0)
  <2>1. r = m \/ r = ProbeOnce(m) \/ r = b \/ r = e
    <3>1. r = mrp_recv_ring_link_CHK_RC(m, type)
      BY Zenon, <1>6 DEF mrp_recv_ring_link
    <3> HIDE DEF r
    <3>. QED
      BY Zenon, <3>1 DEF mrp_recv_ring_link_CHK_RC
  <2>2. Even(a, m) /\ Even(d, m)
    BY Zenon, <1>1, EvenFields
  <2> HIDE DEF a, d
  <2>3. Even(e, m) /\ Announces(b, m)
    BY Zenon, <1>3, <2>2, EvenRequests
  <2> HIDE DEF b, e
  <2>. QED
    BY Zenon, <1>1, <1>2, <2>1, <2>3, EvenAnnounces
<1>7. CASE m.mrm_state \notin {"PRM_UP", "CHK_RO", "CHK_RC"}
  <2>1. r = m
    BY <1>7 DEF mrp_recv_ring_link
  <2>. QED
    BY Zenon, <1>1, <2>1, EvenAnnounces
<1>. QED
  BY <1>4, <1>5, <1>6, <1>7

\* The manager's test timer.
LEMMA TimerAnnounces ==
    ASSUME NEW m \in Instance, m.no_tc = FALSE
    PROVE  Announces(mrp_mrm_ring_test_expired(m), m)
<1> DEFINE r == mrp_mrm_ring_test_expired(m)
           k == m.ring_test_curr + 1
           a == [m EXCEPT !.add_test = FALSE]
           b == [m EXCEPT !.ring_test_curr = k, !.add_test = FALSE]
           silent == m.ring_test_curr >= m.ring_test_curr_max
<1>1. /\ Even(m, m) /\ Fields(m)
      /\ m.ring_test_curr < m.ring_test_curr_max <=> ~silent
  BY SMTT(30), InstanceFields DEF Instance
<1>2. Even(a, m) /\ Even(b, m)
  <2> HIDE DEF k
  <2>. QED
    BY Zenon, <1>1, EvenFields
<1>3. Announces(OpenRing(m), m)
  <2> DEFINE c == RestartCount(mrp_port_set_state(m, m.s_port, "FORWARDING"))
             d == [c EXCEPT !.add_test = FALSE]
             e == mrp_ring_topo_req(d, ring_topo_conf_interval)
             f == mrp_ring_test_req(e)
             g == mrp_set_mrm_state(f, "CHK_RO")
  <2>1. OpenRing(m) = g
    BY Zenon DEF OpenRing
  <2>2. Even(d, m)
    BY Zenon, <1>1, EvenFields
  <2> HIDE DEF d
  <2>3. Even(e, m) /\ Told(e)
    BY Zenon, <2>2, EvenRequests, ToldStays, EvenHasFields
  <2> HIDE DEF e
  <2>4. Even(f, m) /\ Told(f)
    BY Zenon, <2>3, EvenRequests, ToldStays, EvenHasFields
  <2> HIDE DEF f
  <2>5. Fields(g) /\ g.no_tc = FALSE /\ Told(g)
    BY Zenon, <2>4, StateSet, ToldStays, EvenHasFields
  <2>. QED
    BY Zenon, <2>1, <2>5 DEF Announces
<1>4. r \in {m, OpenRing(m), mrp_ring_test_req(a), mrp_ring_test_req(b)}
  <2>1. CASE m.mrm_state \in {"PRM_UP", "CHK_RO"}
    BY Zenon, <2>1 DEF mrp_mrm_ring_test_expired
  <2>2. CASE m.mrm_state = "CHK_RC" /\ silent
    BY Zenon, <2>2 DEF mrp_mrm_ring_test_expired
  <2>3. CASE m.mrm_state = "CHK_RC" /\ ~silent
    <3>1. m.ring_test_curr < m.ring_test_curr_max /\ ~(m.ring_test_curr >= m.ring_test_curr_max)
      BY <1>1, <2>3
    <3>2. r = mrp_ring_test_req(b)
      BY Zenon, <2>3, <3>1 DEF mrp_mrm_ring_test_expired
    <3>. QED
      BY <3>2
  <2>4. CASE m.mrm_state \notin {"PRM_UP", "CHK_RO", "CHK_RC"}
    BY Zenon, <2>4 DEF mrp_mrm_ring_test_expired
  <2>. QED
    BY <2>1, <2>2, <2>3, <2>4
<1> HIDE DEF a, b, r
<1>5. Even(mrp_ring_test_req(a), m) /\ Even(mrp_ring_test_req(b), m)
  BY Zenon, <1>2, EvenRequests
<1>. QED
  BY Zenon, <1>1, <1>3, <1>4, <1>5, EvenAnnounces DEF r

\* A change of a manager's link opens or closes no ring.
LEMMA PortLinkAnnounces ==
    ASSUME NEW m, NEW x, Even(x, m), m.no_tc = FALSE, NEW p, NEW up \in BOOLEAN
    PROVE  Announces(mrp_mrm_port_link(x, p, up), m)
<1> DEFINE r == mrp_mrm_port_link(x, p, up)
<1>1. ASSUME NEW y, NEW z, Even(z, m), NEW s, y = mrp_set_mrm_state(z, s),
             s \in {"AC_STAT1", "PRM_UP"} \/ m.mrm_state = "PRM_UP"
      PROVE  Announces(y, m)
  <2>1. Fields(y) /\ y.mrm_state = s /\ y.no_tc = FALSE
    BY Zenon, <1>1, StateSet, EvenHasFields
  <2>. QED
    BY <1>1, <2>1 DEF Announces
<1>2. x.mrm_state = m.mrm_state
  BY DEF Even
<1>3. CASE x.mrm_state = "AC_STAT1"
  <2> DEFINE a == mrp_ring_test_req(mrp_port_set_state(Promote(x, p), p, "FORWARDING"))
  <2>1. r = x \/ r = mrp_set_mrm_state(a, "PRM_UP")
    BY Zenon, <1>3 DEF mrp_mrm_port_link
  <2>2. Even(a, m)
    BY Zenon, EvenFields, EvenRequests
  <2> HIDE DEF a, r
  <2>. QED
    BY Zenon, <1>1, <2>1, <2>2, EvenAnnounces DEF r
<1>4. CASE x.mrm_state = "PRM_UP"
  <2> DEFINE a == mrp_port_set_state(ev_timer_stop(x, "ring_test"), p, "BLOCKED")
             b == [RestartCount(x) EXCEPT !.no_tc = TRUE]
             c == mrp_ring_test_req(b)
  <2>1. r = x \/ r = mrp_set_mrm_state(a, "AC_STAT1") \/ r = mrp_set_mrm_state(c, "CHK_RC")
    BY Zenon, <1>4 DEF mrp_mrm_port_link
  <2>2. Even(a, m) /\ Even(RestartCount(x), m)
    BY Zenon, EvenFields
  <2>3. Fields(b)
    BY Zenon, <2>2 DEF Even, Fields
  <2> HIDE DEF a, b
  <2>4. Even(b, b)
    BY <2>3 DEF Even
  <2>5. Fields(c)
    BY Zenon, <2>4, EvenRequests, EvenHasFields
  <2> HIDE DEF c, r
  <2>6. ASSUME r = mrp_set_mrm_state(c, "CHK_RC")
        PROVE  Announces(r, m)
    <3>1. Fields(r) /\ r.no_tc = FALSE
      BY Zenon, <2>5, <2>6, StateSet
    <3>. QED
      BY <1>2, <1>4, <3>1 DEF Announces
  <2>. QED
    BY Zenon, <1>1, <2>1, <2>2, <2>6, EvenAnnounces DEF r
<1>5. CASE x.mrm_state = "CHK_RO"
  <2> DEFINE a == mrp_port_set_state(Demote(x, p), p, "BLOCKED")
             b == mrp_ring_topo_req(mrp_ring_test_req(a), ring_topo_conf_interval)
             c == mrp_port_set_state(x, x.s_port, "BLOCKED")
  <2>1. r = x \/ r = mrp_set_mrm_state(b, "PRM_UP") \/ r = mrp_set_mrm_state(c, "PRM_UP")
    BY Zenon, <1>5 DEF mrp_mrm_port_link
  <2>2. Even(b, m) /\ Even(c, m)
    BY Zenon, EvenFields, EvenRequests
  <2> HIDE DEF b, c, r
  <2>. QED
    BY Zenon, <1>1, <2>1, <2>2, EvenAnnounces DEF r
<1>6. CASE x.mrm_state = "CHK_RC"
  <2> DEFINE a == mrp_port_set_state(mrp_port_set_state(Demote(x, p), p, "BLOCKED"),
                                     x.s_port, "FORWARDING")
             b == mrp_ring_topo_req(mrp_ring_test_req(a), ring_topo_conf_interval)
  <2>1. r = x \/ r = mrp_set_mrm_state(b, "PRM_UP") \/ r = mrp_set_mrm_state(x, "PRM_UP")
    BY Zenon, <1>6 DEF mrp_mrm_port_link
  <2>2. Even(a, m)
    BY Zenon, EvenFields
  <2> HIDE DEF a
  <2>3. Even(b, m)
    BY Zenon, <2>2, EvenRequests
  <2> HIDE DEF b, r
  <2>. QED
    BY Zenon, <1>1, <2>1, <2>3, EvenAnnounces DEF r
<1>7. CASE x.mrm_state \notin {"AC_STAT1", "PRM_UP", "CHK_RO", "CHK_RC"}
  <2>1. r = x
    BY <1>7 DEF mrp_mrm_port_link
  <2>. QED
    BY Zenon, <2>1, EvenAnnounces
<1>. QED
  BY <1>3, <1>4, <1>5, <1>6, <1>7

\* The client's handlers leave the manager's state alone.
LEMMA ClientEven ==
    ASSUME NEW m, NEW x, Even(x, m), NEW p, NEW up \in BOOLEAN, NEW time
    PROVE  /\ Even(mrp_mrc_port_link(x, p, up), m)
           /\ Even(mrp_mrc_recv_ring_topo(x, time), m)
           /\ Even(mrp_ring_link_up_expired(x), m) /\ Even(mrp_ring_link_down_expired(x), m)
<1>1. ASSUME NEW y, Even(y, m) PROVE Even(AnnounceUp(y), m) /\ Even(AnnounceDown(y), m)
  BY Zenon, <1>1, EvenFields, EvenRequests DEF AnnounceUp, AnnounceDown
<1>2. Even(mrp_mrc_port_link(x, p, up), m)
  <2> DEFINE r == mrp_mrc_port_link(x, p, up)
             a == mrp_set_mrc_state(mrp_port_set_state(Promote(x, p), p, "FORWARDING"), "DE_IDLE")
             b == mrp_set_mrc_state(mrp_port_set_state(x, p, "BLOCKED"), "AC_STAT1")
             c == ev_timer_stop(x, "ring_link_up")
             d == mrp_port_set_state(Demote(c, p), x.s_port, "FORWARDING")
             e == mrp_set_mrc_state(
                      ev_timer_stop(mrp_port_set_state(RestartLink(x), p, "BLOCKED"),
                                    "ring_link_down"), "AC_STAT1")
             f == ev_timer_stop(x, "ring_link_down")
             g == Demote(x, p)
  <2>1. \/ r \in {x, a, b, e}
        \/ r = AnnounceUp(x) \/ r = AnnounceDown(c) \/ r = AnnounceDown(d)
        \/ r = AnnounceUp(f) \/ r = AnnounceDown(x) \/ r = AnnounceDown(g)
    BY ZenonT(40) DEF mrp_mrc_port_link
  <2>2. Even(a, m) /\ Even(b, m) /\ Even(e, m)
    BY ZenonT(40), EvenFields
  <2>3. Even(c, m) /\ Even(d, m) /\ Even(f, m) /\ Even(g, m)
    BY ZenonT(40), EvenFields
  <2> HIDE DEF r, a, b, c, d, e, f, g
  <2>. QED
    BY Zenon, <1>1, <2>1, <2>2, <2>3 DEF r
<1>3. Even(mrp_mrc_recv_ring_topo(x, time), m)
  <2> DEFINE r == mrp_mrc_recv_ring_topo(x, time)
             a == mrp_port_set_state(ev_timer_stop(RestartLink(x), "ring_link_up"),
                                     x.s_port, "FORWARDING")
             b == ev_timer_stop(RestartLink(x), "ring_link_down")
  <2>1. \/ r = x \/ r = mrp_clear_fdb_start(x, time)
        \/ r = mrp_set_mrc_state(mrp_clear_fdb_start(a, time), "PT_IDLE")
        \/ r = mrp_set_mrc_state(mrp_clear_fdb_start(b, time), "DE_IDLE")
    BY ZenonT(40) DEF mrp_mrc_recv_ring_topo
  <2>2. Even(a, m) /\ Even(b, m)
    BY Zenon, EvenFields
  <2> HIDE DEF r, a, b
  <2>3. ASSUME NEW y, Even(y, m) PROVE Even(mrp_clear_fdb_start(y, time), m)
    BY Zenon, <2>3, EvenRequests
  <2>4. ASSUME NEW y, Even(y, m), NEW s PROVE Even(mrp_set_mrc_state(y, s), m)
    BY Zenon, <2>4, EvenFields
  <2>. QED
    BY Zenon, <2>1, <2>2, <2>3, <2>4 DEF r
<1>4. Even(mrp_ring_link_up_expired(x), m) /\ Even(mrp_ring_link_down_expired(x), m)
  <2> DEFINE k == x.ring_link_curr_max - 1
             a == [x EXCEPT !.ring_link_curr_max = k]
  <2>1. /\ \/ mrp_ring_link_up_expired(x) =
                mrp_ring_link_req(ev_timer_again(a, "ring_link_up"), TRUE)
           \/ mrp_ring_link_up_expired(x) =
                ev_timer_stop(
                    mrp_set_mrc_state(
                        mrp_port_set_state(RestartLink(x), x.s_port, "FORWARDING"), "PT_IDLE"),
                    "ring_link_up")
        /\ \/ mrp_ring_link_down_expired(x) =
                mrp_ring_link_req(ev_timer_again(a, "ring_link_down"), FALSE)
           \/ mrp_ring_link_down_expired(x) =
                ev_timer_stop(mrp_set_mrc_state(RestartLink(x), "DE_IDLE"), "ring_link_down")
    BY Zenon DEF mrp_ring_link_up_expired, mrp_ring_link_down_expired
  <2>2. Even(a, m)
    <3> HIDE DEF k
    <3>. QED
      BY Zenon, EvenFields
  <2> HIDE DEF a
  <2>3. ASSUME NEW y, Even(y, m), NEW t, NEW b PROVE Even(mrp_ring_link_req(ev_timer_again(y, t), b), m)
    <3>1. Even(ev_timer_again(y, t), m)
      BY Zenon, <2>3, EvenFields
    <3>. QED
      BY Zenon, <3>1, EvenRequests
  <2>4. Even(ev_timer_stop(mrp_set_mrc_state(RestartLink(x), "DE_IDLE"), "ring_link_down"), m)
    BY Zenon, EvenFields
  <2>5. Even(ev_timer_stop(
                 mrp_set_mrc_state(
                     mrp_port_set_state(RestartLink(x), x.s_port, "FORWARDING"), "PT_IDLE"),
                 "ring_link_up"), m)
    BY Zenon, EvenFields
  <2>. QED
    BY Zenon, <2>1, <2>2, <2>3, <2>4, <2>5
<1>. QED
  BY <1>2, <1>3, <1>4

\* So do an automanager's handlers of the frames of others.
LEMMA AutoEven ==
    ASSUME NEW m, Even(m, m), NEW f
    PROVE  /\ Even(mrp_mra_recv_ring_topo(m, f), m)
           /\ m.ring_role \in RingRole => Even(mrp_mra_recv_ring_test(m, f), m)
           /\ m.ring_role \in RingRole => Even(mrp_recv_option(m, f), m)
<1>1. Even(mrp_mra_recv_ring_topo(m, f), m)
  <2> DEFINE k == f.interval * 1000
  <2>1. Even(mrp_clear_fdb_start(m, k), m)
    <3> HIDE DEF k
    <3>. QED
      BY Zenon, EvenRequests
  <2>. QED
    BY Zenon, <2>1 DEF mrp_mra_recv_ring_topo
<1>2. ASSUME m.ring_role \in RingRole PROVE Even(mrp_mra_recv_ring_test(m, f), m)
  <2> DEFINE r == mrp_mra_recv_ring_test(m, f)
             k == IF mrp_better_than_own(m, f) THEN 0 ELSE m.ring_mon_curr
             s == SwapBytes(f.prio)
             a == [m EXCEPT !.ring_mon_curr = k, !.ring_prio = s]
  <2>1. r = m \/ r = mrp_test_mgr_nack_req(m, f.sa) \/ r = a
    BY Zenon, <1>2 DEF mrp_mra_recv_ring_test, RingRole
  <2>2. Even(mrp_test_mgr_nack_req(m, f.sa), m)
    BY Zenon, EvenRequests
  <2>3. Even(a, m)
    <3> HIDE DEF k, s
    <3>. QED
      BY Zenon, EvenFields
  <2> HIDE DEF a, r
  <2>. QED
    BY Zenon, <2>1, <2>2, <2>3 DEF r
<1>3. ASSUME m.ring_role \in RingRole PROVE Even(mrp_recv_nack(m, f), m)
  <2> DEFINE host == IF mrp_better_than_host(m, f)
                     THEN [m EXCEPT !.ring_prio = f.prio, !.ring_mac = f.sa] ELSE m
             open == IF m.mrm_state = "CHK_RC"
                     THEN mrp_port_set_state(host, m.s_port, "FORWARDING") ELSE host
             idle == mrp_set_mrc_init(mrp_ring_topo_stop(open))
             told == mrp_test_prop_req(idle)
             client == IF m.mrm_state = "PRM_UP" THEN "DE_IDLE" ELSE "PT_IDLE"
             r == mrp_set_ring_role(mrp_set_mrc_state(told, client), "MRC")
  <2>1. mrp_recv_nack(m, f) \in {m, told, r}
    <3> HIDE DEF client, told
    <3>1. mrp_recv_nack(m, f) =
            CASE m.ring_role = "MRC" \/ f.sa = m.macaddr \/ f.other_sa # m.macaddr -> m
              [] m.ring_role = "MRM" /\ f.sa # m.macaddr /\ f.other_sa = m.macaddr ->
                   IF m.mrm_state = "AC_STAT1" THEN told ELSE r
      BY Zenon DEF mrp_recv_nack, told, client
    <3> HIDE DEF r
    <3>. QED
      BY Zenon, <1>3, <3>1 DEF RingRole
  <2>2. Even(host, m)
    BY Zenon, EvenFields
  <2> HIDE DEF host
  <2>3. Even(open, m)
    BY Zenon, <2>2, EvenFields
  <2> HIDE DEF open
  <2>4. Even(idle, m)
    <3>1. Even(mrp_ring_topo_stop(open), m)
      BY Zenon, <2>3, EvenRequests
    <3>. QED
      BY Zenon, <3>1, EvenFields
  <2> HIDE DEF idle
  <2>5. Even(told, m)
    BY Zenon, <2>4, EvenRequests
  <2> HIDE DEF told, client
  <2>6. Even(r, m)
    BY Zenon, <2>5, EvenFields
  <2> HIDE DEF r
  <2>. QED
    BY Zenon, <2>1, <2>5, <2>6
<1>4. Even(mrp_recv_propagate(m, f), m)
  BY Zenon, EvenFields DEF mrp_recv_propagate
<1>. QED
  BY Zenon, <1>1, <1>2, <1>3, <1>4 DEF mrp_recv_option

\* The rest of the timers.
LEMMA TopoEven ==
    ASSUME NEW m, Even(m, m)
    PROVE  Even(mrp_ring_topo_expired(m), m) /\ Even(mrp_clear_fdb_expired(m), m)
<1> DEFINE r == mrp_ring_topo_expired(m)
           time == m.ring_topo_curr_max * ring_topo_conf_interval
           a == mrp_ring_topo_send(m, time)
           k == a.ring_topo_curr_max - 1
           b == [a EXCEPT !.ring_topo_curr_max = k]
           j == ring_topo_conf_max - 1
           c == [m EXCEPT !.ring_topo_curr_max = j]
           d == mrp_ring_topo_send(ifdriver_flush(c), 0)
           e == mrp_ring_topo_stop(d)
<1>1. r = b \/ r = e
  BY Zenon DEF mrp_ring_topo_expired
<1>2. Even(a, m)
  BY Zenon, EvenRequests
<1> HIDE DEF a, k, j
<1>3. Even(b, m) /\ Even(c, m)
  BY Zenon, <1>2, EvenFields
<1> HIDE DEF b, c
<1>4. Even(ifdriver_flush(c), m)
  BY Zenon, <1>3, EvenFields
<1>5. Even(d, m)
  BY Zenon, <1>4, EvenRequests
<1> HIDE DEF d
<1>6. Even(e, m)
  BY Zenon, <1>5, EvenRequests
<1> HIDE DEF r, e
<1>7. Even(mrp_clear_fdb_expired(m), m)
  BY Zenon, EvenRequests
<1>. QED
  BY Zenon, <1>1, <1>3, <1>6, <1>7 DEF r

\* An automanager that takes over as a manager was none before.
LEMMA TakeOverEnds ==
    ASSUME NEW m \in Instance, m.no_tc = FALSE
    PROVE  LET r == mrp_mrc_ring_test_expired(m) IN Fields(r) /\ r.no_tc = FALSE
<1> DEFINE r == mrp_mrc_ring_test_expired(m)
           again == ev_timer_again(m, "ring_test")
           taken == mrp_set_mrm_init(again)
           s == TakeOverState(m.mrc_state)
           moved == mrp_set_mrm_state(taken, s)
           k == again.ring_mon_curr + 1
           low == m.ring_mon_curr <= ring_mon_curr_max
<1> SUFFICES Fields(r) /\ r.no_tc = FALSE
  OBVIOUS
<1>1. m.ring_mon_curr > ring_mon_curr_max <=> ~low
  BY SMTT(30), ConfAssumption DEF Instance, ring_mon_curr_max
<1>2. r = [again EXCEPT !.ring_mon_curr = k] \/ r = taken \/ r = mrp_set_ring_role(moved, "MRM")
  <2>1. CASE low
    <3>1. ~(m.ring_mon_curr > ring_mon_curr_max)
      BY <1>1, <2>1
    <3>. QED
      BY Zenon, <2>1, <3>1 DEF mrp_mrc_ring_test_expired
  <2>2. CASE ~low
    <3>1. m.ring_mon_curr > ring_mon_curr_max /\ ~(m.ring_mon_curr <= ring_mon_curr_max)
      BY <1>1, <2>2
    <3>. QED
      BY Zenon, <3>1 DEF mrp_mrc_ring_test_expired
  <2>. QED
    BY <2>1, <2>2
<1>3. Even(again, m)
  BY Zenon, InstanceFields, EvenFields
<1> HIDE DEF again, k, s
<1>4. Even([again EXCEPT !.ring_mon_curr = k], m)
  BY Zenon, <1>3, EvenFields
<1>5. Fields(taken) /\ taken.no_tc = FALSE
  BY ZenonT(40), <1>3 DEF mrp_set_mrm_init, Even, Fields
<1> HIDE DEF taken
<1>6. Fields(moved) /\ moved.no_tc = FALSE
  BY Zenon, <1>5, StateSet
<1> HIDE DEF moved
<1>7. Fields(mrp_set_ring_role(moved, "MRM")) /\ mrp_set_ring_role(moved, "MRM").no_tc = FALSE
  BY Zenon, <1>6 DEF mrp_set_ring_role, Fields
<1> HIDE DEF r
<1>. QED
  BY Zenon, <1>2, <1>4, <1>5, <1>7 DEF Even

-----------------------------------------------------------------------------
\* The reception of a frame.
LEMMA ReceiveAnnounces ==
    ASSUME NEW m \in Instance, m.no_tc = FALSE, NEW p \in RingPort, NEW f \in Frame
    PROVE  Announces(mrp_recv(m, p, f), m)
<1> DEFINE r == mrp_recv(m, p, f)
           sent == mrp_check_and_forward(m, p, f)
<1>1. Even(m, m)
  BY InstanceFields
<1>2. Even(sent, m)
  BY Zenon, <1>1, EvenRequests DEF mrp_check_and_forward
<1>3. sent \in Instance
  <2>1. ForwardPorts(m, p, f.type) \in SUBSET RingPort
    BY DEF ForwardPorts, BothPorts, Instance
  <2>. QED
    BY <2>1, SendKeeps DEF mrp_check_and_forward, Same
<1>4. r = m \/ r = sent \/ r = mrp_process(sent, f)
  BY Zenon DEF mrp_recv, mrp_process_frame
<1> HIDE DEF r, sent
<1>5. /\ sent.no_tc = FALSE /\ sent.mrm_state = m.mrm_state
      /\ Even(sent, sent) /\ sent.ring_role \in RingRole
  BY SMTT(30), <1>2, <1>3 DEF Even, Instance
<1>6. ASSUME NEW x, Announces(x, sent) PROVE Announces(x, m)
  BY Zenon, <1>5, <1>6 DEF Announces
<1>7. ASSUME NEW x, Even(x, sent) PROVE Announces(x, m)
  BY Zenon, <1>5, <1>6, <1>7, EvenAnnounces
<1>8. CASE f.type = "RING_TEST"
  <2>1. mrp_process(sent, f) = mrp_recv_ring_test(sent, f)
    BY <1>8 DEF mrp_process
  <2>2. \/ mrp_process(sent, f) = mrp_mrm_recv_ring_test(sent)
        \/ mrp_process(sent, f) = mrp_mra_recv_ring_test(sent, f)
        \/ mrp_process(sent, f) = sent
    BY Zenon, <2>1 DEF mrp_recv_ring_test
  <2>3. Announces(mrp_mrm_recv_ring_test(sent), sent)
    BY Zenon, <1>3, <1>5, TestAnnounces
  <2>4. Even(mrp_mra_recv_ring_test(sent, f), sent)
    BY <1>5, AutoEven
  <2>5. Announces(mrp_process(sent, f), m)
    BY Zenon, <1>5, <1>6, <1>7, <2>2, <2>3, <2>4
  <2>. QED
    BY Zenon, <1>1, <1>2, <1>4, <2>5, EvenAnnounces DEF r
<1>9. CASE f.type = "RING_TOPO"
  <2>1. mrp_process(sent, f) = mrp_recv_ring_topo(sent, f)
    BY <1>9 DEF mrp_process
  <2> DEFINE k == f.interval * 1000
  <2>2. \/ mrp_process(sent, f) = mrp_mra_recv_ring_topo(sent, f)
        \/ mrp_process(sent, f) = mrp_mrc_recv_ring_topo(sent, k)
    BY Zenon, <2>1 DEF mrp_recv_ring_topo
  <2> HIDE DEF k
  <2>3. Even(mrp_mra_recv_ring_topo(sent, f), sent) /\ Even(mrp_mrc_recv_ring_topo(sent, k), sent)
    BY Zenon, <1>5, AutoEven, ClientEven
  <2>. QED
    BY Zenon, <1>1, <1>2, <1>4, <1>7, <2>2, <2>3, EvenAnnounces DEF r
<1>10. CASE f.type \in {"RING_LINK_UP", "RING_LINK_DOWN"}
  <2>1. mrp_process(sent, f) = mrp_recv_ring_link(sent, f.type)
    BY <1>10 DEF mrp_process
  <2>2. Announces(mrp_recv_ring_link(sent, f.type), sent)
    BY Zenon, <1>3, <1>5, <1>10, LinkAnnounces
  <2>. QED
    BY Zenon, <1>1, <1>2, <1>4, <1>6, <2>1, <2>2, EvenAnnounces DEF r
<1>11. CASE f.type = "OPTION"
  <2>1. mrp_process(sent, f) = mrp_recv_option(sent, f)
    BY <1>11 DEF mrp_process
  <2>2. Even(mrp_recv_option(sent, f), sent)
    BY <1>5, AutoEven
  <2>. QED
    BY Zenon, <1>1, <1>2, <1>4, <1>7, <2>1, <2>2, EvenAnnounces DEF r
<1>. QED
  BY <1>8, <1>9, <1>10, <1>11, FrameTypes DEF RingFrameType

\* A link change of a port.
LEMMA LinkChangeAnnounces ==
    ASSUME NEW m, Fields(m), m.no_tc = FALSE, NEW p \in RingPort, NEW up \in BOOLEAN
    PROVE  Announces(mrp_port_link_change(m, p, up), m)
<1> DEFINE s == [m.operstate EXCEPT ![p] = IF up THEN "UP" ELSE "DOWN"]
           seen == [m EXCEPT !.operstate = s]
<1>0. Even(m, m)
  BY DEF Even
<1>1. mrp_port_link_change(m, p, up) \in {mrp_mrm_port_link(seen, p, up), mrp_mrc_port_link(seen, p, up)}
  BY Zenon DEF mrp_port_link_change
<1>2. Even(seen, m)
  <2> HIDE DEF s
  <2>. QED
    BY Zenon, <1>0, EvenFields
<1> HIDE DEF seen
<1>3. Announces(mrp_mrm_port_link(seen, p, up), m)
  BY Zenon, <1>2, PortLinkAnnounces
<1>4. Even(mrp_mrc_port_link(seen, p, up), m)
  BY <1>2, ClientEven
<1>. QED
  BY Zenon, <1>1, <1>3, <1>4, EvenAnnounces

\* The expiry of a timer.
LEMMA ExpiryAnnounces ==
    ASSUME NEW m \in Instance, m.no_tc = FALSE
    PROVE  /\ m.ring_role = "MRM" => Announces(mrp_ring_test_expired(m), m)
           /\ mrp_ring_test_expired(m).no_tc = FALSE
           /\ Announces(mrp_ring_topo_expired(m), m)
           /\ Announces(mrp_clear_fdb_expired(m), m)
           /\ Announces(mrp_ring_link_up_expired(m), m)
           /\ Announces(mrp_ring_link_down_expired(m), m)
<1>1. Even(m, m)
  BY InstanceFields
<1>2. m.ring_role = "MRM" => mrp_ring_test_expired(m) = mrp_mrm_ring_test_expired(m)
  BY DEF mrp_ring_test_expired
<1>3. mrp_ring_test_expired(m) \in {m, mrp_mrm_ring_test_expired(m), mrp_mrc_ring_test_expired(m)}
  BY Zenon DEF mrp_ring_test_expired
<1>4. Announces(mrp_mrm_ring_test_expired(m), m) /\ mrp_mrc_ring_test_expired(m).no_tc = FALSE
  BY Zenon, TimerAnnounces, TakeOverEnds
<1>5. mrp_ring_test_expired(m).no_tc = FALSE
  BY Zenon, <1>3, <1>4 DEF Announces
<1>6. /\ Even(mrp_ring_topo_expired(m), m) /\ Even(mrp_clear_fdb_expired(m), m)
      /\ Even(mrp_ring_link_up_expired(m), m) /\ Even(mrp_ring_link_down_expired(m), m)
  BY Zenon, <1>1, TopoEven, ClientEven
<1>. QED
  BY Zenon, <1>2, <1>4, <1>5, <1>6, EvenAnnounces

\* addmrp: nothing is suppressed in a new instance.
LEMMA AddedUnsuppressed ==
    ASSUME NEW c \in ConfigRecord, NEW up \in SUBSET RingPort
    PROVE  mrp_add(c, up).no_tc = FALSE
<1> DEFINE Free(m) == Fields(m) /\ m.no_tc = FALSE
<1>1. ASSUME NEW m, Free(m), NEW role, NEW s
      PROVE  /\ Free(mrp_reset_ring_state(m)) /\ Free(mrp_set_mrm_init(m))
             /\ Free(mrp_set_mrc_init(m)) /\ Free(mrp_set_mrc_state(m, s))
             /\ Free(mrp_set_mrm_state(m, s)) /\ Free([m EXCEPT !.mra_support = TRUE])
  <2>1. /\ Free(mrp_set_mrm_init(m)) /\ Free(mrp_set_mrc_init(m))
        /\ Free(mrp_set_mrc_state(m, s)) /\ Free([m EXCEPT !.mra_support = TRUE])
    BY ZenonT(40), <1>1 DEF mrp_set_mrm_init, mrp_set_mrc_init, mrp_set_mrc_state, Fields
  <2>2. Free(mrp_set_mrm_state(m, s)) /\ Free(mrp_reset_ring_state(m))
    BY ZenonT(40), <1>1 DEF mrp_set_mrm_state, mrp_reset_ring_state, mrp_timer_stop, Fields
  <2>. QED
    BY Zenon, <2>1, <2>2
<1>2. ASSUME NEW m, Free(m), NEW role
      PROVE  StartRole(m, role, up).no_tc = FALSE
  <2> DEFINE s == [p \in RingPort |-> "BLOCKED"]
             shut == [m EXCEPT !.state = s, !.ring_role = role]
             first == IF m.p_port \in up THEN mrp_port_link_change(shut, m.p_port, TRUE) ELSE shut
             r == IF first.s_port \in up THEN mrp_port_link_change(first, first.s_port, TRUE)
                                         ELSE first
  <2>1. StartRole(m, role, up) = r
    BY Zenon DEF StartRole
  <2>2. Free(shut)
    <3> HIDE DEF s
    <3>. QED
      BY Zenon, <1>2 DEF Fields
  <2> HIDE DEF shut
  <2>3. ASSUME NEW a, Free(a), NEW p \in up PROVE Free(mrp_port_link_change(a, p, TRUE))
    <3>1. p \in RingPort /\ TRUE \in BOOLEAN
      OBVIOUS
    <3>. QED
      BY Zenon, <2>3, <3>1, LinkChangeAnnounces DEF Announces
  <2> HIDE DEF Free
  <2>4. Free(first)
    BY Zenon, <2>2, <2>3
  <2> HIDE DEF first
  <2>5. Free(r)
    BY Zenon, <2>3, <2>4
  <2>. QED
    BY Zenon, <2>1, <2>5 DEF Free
<1> DEFINE m == mrp_create(c)
<1>3. Free(m)
  <2>1. m \in Instance
    BY Created
  <2>2. m.no_tc = FALSE
    BY SMTT(30) DEF mrp_create
  <2>. QED
    BY <2>1, <2>2, InstanceFields
<1> HIDE DEF m, Free
<1>4. CASE c.ring_role = "MRM"
  <2> DEFINE a == mrp_set_mrm_state(mrp_set_mrm_init(mrp_reset_ring_state(m)), "AC_STAT1")
  <2>1. mrp_add(c, up) = StartRole(a, "MRM", up)
    BY <1>4 DEF mrp_add, mrp_set_mrm_role, m
  <2>2. Free(a)
    BY Zenon, <1>1, <1>3
  <2>. QED
    BY Zenon, <1>2, <2>1, <2>2
<1>5. CASE c.ring_role = "MRC"
  <2> DEFINE a == mrp_set_mrc_state(mrp_set_mrc_init(mrp_reset_ring_state(m)), "AC_STAT1")
  <2>1. mrp_add(c, up) = StartRole(a, "MRC", up)
    BY <1>5 DEF mrp_add, mrp_set_mrc_role, m
  <2>2. Free(a)
    BY Zenon, <1>1, <1>3
  <2>. QED
    BY Zenon, <1>2, <2>1, <2>2
<1>6. CASE c.ring_role = "MRA"
  <2> DEFINE b == mrp_reset_ring_state([m EXCEPT !.mra_support = TRUE])
             a == mrp_set_mrm_state(mrp_set_mrc_init(mrp_set_mrm_init(b)), "AC_STAT1")
  <2>1. mrp_add(c, up) = StartRole(a, "MRM", up)
    BY <1>6 DEF mrp_add, mrp_set_mra_role, m
  <2>2. Free(a)
    BY Zenon, <1>1, <1>3
  <2>. QED
    BY Zenon, <1>2, <2>1, <2>2
<1>. QED
  BY Zenon, <1>4, <1>5, <1>6 DEF ConfigRecord

\* Between two callbacks no announcement is suppressed: mrp_set_mrm_state clears no_tc in
\* the callback that sets it.
Unsuppressed == mrp.no_tc = FALSE

\* One callback of the event loop.
LEMMA NextAnnounces ==
    ASSUME IndInv, Unsuppressed, Next
    PROVE  /\ Unsuppressed'
           /\ mrp.ring_role = "MRM" => Announces(mrp', mrp)
<1> DEFINE m == Idle(mrp)
<1>1. mrp \in Instance
  BY CoreTypes DEF IndInv, Good
<1>2. m \in Instance /\ m.ring_role = mrp.ring_role
  BY <1>1, IdleKeeps DEF Same, KeepsRole
<1>3. m.no_tc = FALSE /\ m.mrm_state = mrp.mrm_state
  BY Zenon, <1>1, InstanceFields DEF Idle, Unsuppressed, Fields
<1> HIDE DEF m
<1>4. ASSUME NEW r, Announces(r, m), NEW event, Callback(r, event)
      PROVE  Unsuppressed' /\ Announces(mrp', mrp)
  BY <1>3, <1>4 DEF Callback, Unsuppressed, Announces
<1>5. CASE packet_rcv
  <2>1. PICK p \in RingPort, f \in Rx :
          Callback(mrp_recv(m, p, f),
                   IF f.type = "RING_TEST" /\ f.sa = mrp.macaddr THEN "own_test" ELSE "frame")
    BY <1>5 DEF packet_rcv, m
  <2>2. Announces(mrp_recv(m, p, f), m)
    BY Zenon, <1>2, <1>3, RxFrames, ReceiveAnnounces
  <2>. QED
    BY Zenon, <1>4, <2>1, <2>2
<1>6. CASE netlink_listen
  <2>1. PICK p \in RingPort, s \in OperState \cup {"OTHER"} :
          Callback(mrp_port_link_change(m, p, s \in {"UNKNOWN", "UP"}), "link")
    BY <1>6 DEF netlink_listen, m
  <2> DEFINE up == s \in {"UNKNOWN", "UP"}
  <2>2. up \in BOOLEAN /\ Callback(mrp_port_link_change(m, p, up), "link")
    BY <2>1
  <2> HIDE DEF up
  <2>3. Announces(mrp_port_link_change(m, p, up), m)
    BY Zenon, <1>2, <1>3, <2>2, InstanceFields, LinkChangeAnnounces
  <2>. QED
    BY Zenon, <1>4, <2>2, <2>3
<1>7. CASE mrp_mac_change
  <2>1. PICK mac \in NewMac : Callback([m EXCEPT !.macaddr = mac], "mac")
    BY SMTT(30), <1>7 DEF mrp_mac_change, m
  <2>2. Announces([m EXCEPT !.macaddr = mac], m)
    BY Zenon, <1>2, <1>3, InstanceFields, EvenFields, EvenAnnounces
  <2>. QED
    BY Zenon, <1>4, <2>1, <2>2
<1>8. CASE ring_test_work
  <2>1. Callback(mrp_ring_test_expired(m), "ring_test")
    BY <1>8 DEF ring_test_work, m
  <2>2. /\ m.ring_role = "MRM" => Announces(mrp_ring_test_expired(m), m)
        /\ mrp_ring_test_expired(m).no_tc = FALSE
    BY Zenon, <1>2, <1>3, ExpiryAnnounces
  <2>3. Unsuppressed'
    BY <2>1, <2>2 DEF Callback, Unsuppressed
  <2>. QED
    BY Zenon, <1>2, <1>4, <2>1, <2>2, <2>3
<1>9. CASE ring_topo_work \/ clear_fdb_work \/ ring_link_up_work \/ ring_link_down_work
  <2>1. \/ Callback(mrp_ring_topo_expired(m), "ring_topo")
        \/ Callback(mrp_clear_fdb_expired(m), "clear_fdb")
        \/ Callback(mrp_ring_link_up_expired(m), "ring_link_up")
        \/ Callback(mrp_ring_link_down_expired(m), "ring_link_down")
    BY Zenon, <1>9 DEF ring_topo_work, clear_fdb_work, ring_link_up_work, ring_link_down_work, m
  <2>2. /\ Announces(mrp_ring_topo_expired(m), m) /\ Announces(mrp_clear_fdb_expired(m), m)
        /\ Announces(mrp_ring_link_up_expired(m), m)
        /\ Announces(mrp_ring_link_down_expired(m), m)
    BY Zenon, <1>2, <1>3, ExpiryAnnounces
  <2>. QED
    BY Zenon, <1>4, <2>1, <2>2
<1>. QED
  BY <1>5, <1>6, <1>7, <1>8, <1>9 DEF Next

\* A manager, an automanager included, that opens or closes its ring flushes in the same
\* callback or has an announcement cycle running that ends in a flush.
THEOREM Announcement == Spec => ChangeAnnounced
<1> DEFINE Property == (/\ {mrp.mrm_state, mrp'.mrm_state} = {"CHK_RO", "CHK_RC"}
                        /\ mrp.ring_role = "MRM" /\ mrp'.ring_role = "MRM")
                       => mrp'.flushed \/ "ring_topo" \in mrp'.timers
<1>1. Init => Unsuppressed
  BY Zenon, NodeAssumption, AddedUnsuppressed DEF Init, Unsuppressed
<1>2. IndInv /\ Unsuppressed /\ [Next]_vars => Unsuppressed'
  BY Zenon, NextAnnounces DEF vars, Unsuppressed
<1>3. IndInv /\ Unsuppressed /\ Next => Property
  BY NextAnnounces DEF Announces, Told
<1>4. IndInv /\ Unsuppressed /\ [Next]_vars => [Property]_vars
  BY <1>3
<1>. QED
  BY <1>1, <1>2, <1>4, Invariance, PTL DEF Spec, ChangeAnnounced

=============================================================================
