---------------------------- MODULE InNodeProofs ----------------------------
(***************************************************************************)
(* The invariants of an instance with an interconnection role, proved for  *)
(* all frames, limits and configurations.  First what each operator of     *)
(* Interconnect does to the fields the invariants look at; then one lemma  *)
(* per handler; then the steps of InNode.                                  *)
(***************************************************************************)
EXTENDS InNode, TLAPS

\* What the invariants look at, in five groups.  To the role belongs what never changes, and
\* that an announced interval stays within its bound.
KeepsRole(r, x) ==
    /\ r.in_role = x.in_role /\ r.in_mode = x.in_mode /\ r.in_id = x.in_id
    /\ x.in_topo_curr_max <= in_topo_conf_max => r.in_topo_curr_max <= in_topo_conf_max

KeepsPort(r, x) == r.state[i_port] = x.state[i_port]
KeepsMic(r, x) == r.mic_state = x.mic_state
KeepsTimers(r, x) == r.timers = x.timers
KeepsMim(r, x) ==
    /\ r.mim_state = x.mim_state
    /\ r.in_test_curr = x.in_test_curr /\ r.in_test_curr_max = x.in_test_curr_max

Same(r, x) ==
    /\ r \in InInstance /\ KeepsRole(r, x) /\ KeepsPort(r, x)
    /\ KeepsMim(r, x) /\ KeepsMic(r, x) /\ KeepsTimers(r, x)

\* The timers are those of x and t, or without t.
TimersSet(r, x, T) ==
    /\ r \in InInstance /\ KeepsRole(r, x) /\ KeepsPort(r, x)
    /\ KeepsMim(r, x) /\ KeepsMic(r, x) /\ r.timers = T

Armed(r, x, t) == TimersSet(r, x, x.timers \cup {t})
Disarmed(r, x, t) == TimersSet(r, x, x.timers \ {t})

PortSet(r, x, s) ==
    /\ r \in InInstance /\ KeepsRole(r, x) /\ r.state[i_port] = s
    /\ KeepsMim(r, x) /\ KeepsMic(r, x) /\ KeepsTimers(r, x)

MimSet(r, x, s) ==
    /\ r \in InInstance /\ KeepsRole(r, x) /\ KeepsPort(r, x)
    /\ r.mim_state = s
    /\ r.in_test_curr = x.in_test_curr /\ r.in_test_curr_max = x.in_test_curr_max
    /\ KeepsMic(r, x) /\ KeepsTimers(r, x)

MicSet(r, x, s) ==
    /\ r \in InInstance /\ KeepsRole(r, x) /\ KeepsPort(r, x)
    /\ KeepsMim(r, x) /\ r.mic_state = s /\ KeepsTimers(r, x)

CountSet(r, x, n, max) ==
    /\ r \in InInstance /\ KeepsRole(r, x) /\ KeepsPort(r, x)
    /\ r.mim_state = x.mim_state /\ r.in_test_curr = n /\ r.in_test_curr_max = max
    /\ KeepsMic(r, x) /\ KeepsTimers(r, x)

USE DEF Same, TimersSet, Armed, Disarmed, PortSet, MimSet, MicSet, CountSet,
        KeepsRole, KeepsPort, KeepsMim, KeepsMic, KeepsTimers

Timer == RcTimer \cup LcTimer \cup {"clear_fdb"}

-----------------------------------------------------------------------------
\* The types of the fields that the proofs below look at.
LEMMA CoreTypes ==
    ASSUME NEW x \in InInstance
    PROVE  /\ x.macaddr \in Mac /\ x.in_id \in InId
           /\ x.in_role \in {"DISABLED", "MIM", "MIC"} /\ x.in_mode \in {"RC", "LC"}
           /\ x.state \in [Port -> PortState] /\ x.up \subseteq Port
           /\ x.mim_state \in MimState /\ x.mic_state \in MicState
           /\ x.in_test_curr \in Nat /\ x.in_test_curr_max \in Nat
           /\ x.in_topo_curr_max \in Nat /\ x.in_link_curr_max \in Nat
           /\ x.in_link_status_curr_max \in Nat /\ x.timers \subseteq Timer
BY DEF InInstance, Timer

\* mrp_send only adds to tx.
LEMMA SendKeeps ==
    ASSUME NEW x \in InInstance, NEW P \in SUBSET Port, NEW f \in InFrame \cup RingTopoFrame
    PROVE  Same(mrp_send(x, P, f), x) /\ mrp_send(x, P, f).in_topo_curr_max = x.in_topo_curr_max
BY DEF mrp_send, InInstance

\* ifdriver_flush only sets flushed.
LEMMA FlushKeeps ==
    ASSUME NEW x \in InInstance
    PROVE  Same(ifdriver_flush(x), x)
BY ZenonT(40) DEF ifdriver_flush, InInstance

\* Forgetting the outputs changes nothing else.
LEMMA IdleKeeps ==
    ASSUME NEW x \in InInstance
    PROVE  Same(Idle(x), x) /\ Idle(x).state = x.state
BY ZenonT(40) DEF Idle, InInstance

\* The countdown of announcements is in no invariant but for its bound.
LEMMA TopoCountKeeps ==
    ASSUME NEW x \in InInstance, NEW k \in Nat, k <= in_topo_conf_max
    PROVE  Same([x EXCEPT !.in_topo_curr_max = k], x)
BY DEF InInstance

\* Nor is the countdown of link announcements.
LEMMA LinkCountKeeps ==
    ASSUME NEW x \in InInstance, NEW k \in Nat
    PROVE  Same([x EXCEPT !.in_link_curr_max = k], x)
BY DEF InInstance

\* Nor is the countdown of polls.
LEMMA StatusCountKeeps ==
    ASSUME NEW x \in InInstance, NEW k \in Nat
    PROVE  Same([x EXCEPT !.in_link_status_curr_max = k], x)
BY DEF InInstance

\* Recording which links are up changes no state machine.
LEMMA UpKeeps ==
    ASSUME NEW x \in InInstance, NEW u \in SUBSET Port
    PROVE  Same([x EXCEPT !.up = u], x)
BY DEF InInstance

\* ev_timer_again arms one timer.
LEMMA TimerAgain ==
    ASSUME NEW x \in InInstance, NEW t \in Timer
    PROVE  Armed(ev_timer_again(x, t), x, t)
BY DEF ev_timer_again, Timer, InInstance

\* ev_timer_stop disarms one timer.
LEMMA TimerStop ==
    ASSUME NEW x \in InInstance, NEW t \in Timer
    PROVE  Disarmed(ev_timer_stop(x, t), x, t)
BY DEF ev_timer_stop, Timer, InInstance

\* Setting the interconnection port changes the state of that port.
LEMMA SetPort ==
    ASSUME NEW x \in InInstance, NEW s \in PortState
    PROVE  PortSet(SetInPort(x, s), x, s)
BY DEF SetInPort, InInstance, Port

\* mrp_set_mim_state changes the manager's state.
LEMMA SetMim ==
    ASSUME NEW x \in InInstance, NEW s \in MimState
    PROVE  MimSet(mrp_set_mim_state(x, s), x, s)
BY DEF mrp_set_mim_state, InInstance

\* mrp_set_mic_state changes the client's state.
LEMMA SetMic ==
    ASSUME NEW x \in InInstance, NEW s \in MicState
    PROVE  MicSet(mrp_set_mic_state(x, s), x, s)
BY DEF mrp_set_mic_state, InInstance

\* The count of unanswered tests starts again.
LEMMA Restarted ==
    ASSUME NEW x \in InInstance
    PROVE  CountSet(RestartCount(x), x, 0, in_test_conf_max - 1)
<1>1. in_test_conf_max - 1 \in Nat
  BY InConfAssumption
<1> DEFINE k == in_test_conf_max - 1
<1> HIDE DEF k
<1>2. k \in Nat
  BY <1>1 DEF k
<1>3. CountSet([x EXCEPT !.in_test_curr_max = k, !.in_test_curr = 0], x, 0, k)
  BY <1>2, ZenonT(40) DEF InInstance
<1>. QED
  BY <1>3 DEF RestartCount, k

\* One more test is unanswered.
LEMMA Counted ==
    ASSUME NEW x \in InInstance, NEW k \in Nat
    PROVE  CountSet([x EXCEPT !.in_test_curr = k], x, k, x.in_test_curr_max)
BY DEF InInstance

\* The limit is raised, the count stays.
LEMMA LimitRaised ==
    ASSUME NEW x \in InInstance, NEW k \in Nat
    PROVE  CountSet([x EXCEPT !.in_test_curr_max = k], x, x.in_test_curr, k)
BY DEF InInstance

-----------------------------------------------------------------------------
(***************************************************************************)
(* Requests.                                                               *)
(***************************************************************************)
\* Sending a test frame keeps everything.
LEMMA TestSendKeeps ==
    ASSUME NEW x \in InInstance
    PROVE  Same(mrp_in_test_send(x), x)
<1>1. [type |-> "IN_TEST", sa |-> x.macaddr, id |-> x.in_id] \in InFrame
  BY CoreTypes DEF InFrame, InTestFrame
<1>. QED
  BY <1>1, SendKeeps DEF mrp_in_test_send

\* mrp_in_test_req arms the test timer.
LEMMA TestReq ==
    ASSUME NEW x \in InInstance
    PROVE  Armed(mrp_in_test_req(x), x, "in_test")
<1> DEFINE y == mrp_in_test_send(x)
<1>1. Same(y, x)
  BY TestSendKeeps
<1>2. Armed(ev_timer_again(y, "in_test"), y, "in_test")
  BY <1>1, TimerAgain DEF Timer, RcTimer
<1>. QED
  BY <1>1, <1>2 DEF mrp_in_test_req

\* Sending an announcement keeps everything.
LEMMA TopoSendKeeps ==
    ASSUME NEW x \in InInstance, NEW i \in 0 .. in_topo_conf_max
    PROVE  /\ Same(mrp_in_topo_send(x, i), x)
           /\ mrp_in_topo_send(x, i).in_topo_curr_max = x.in_topo_curr_max
<1>1. [type |-> "IN_TOPO", sa |-> x.macaddr, id |-> x.in_id, interval |-> i] \in InFrame
  BY CoreTypes DEF InFrame, InTopoFrame
<1>. QED
  BY <1>1, SendKeeps DEF mrp_in_topo_send

\* mrp_in_topo_req arms the announcement timer.
LEMMA TopoReq ==
    ASSUME NEW x \in InInstance
    PROVE  Armed(mrp_in_topo_req(x), x, "in_topo")
<1> DEFINE y == mrp_in_topo_send(x, in_topo_conf_max)
<1>1. Same(y, x)
  BY TopoSendKeeps, InConfAssumption
<1>2. Armed(ev_timer_again(y, "in_topo"), y, "in_topo")
  BY <1>1, TimerAgain DEF Timer, RcTimer
<1>. QED
  BY <1>1, <1>2 DEF mrp_in_topo_req

\* Announcing a link change keeps everything.
LEMMA LinkReqKeeps ==
    ASSUME NEW x \in InInstance, NEW up \in BOOLEAN
    PROVE  Same(mrp_in_link_req(x, up), x)
<1>1. [type |-> IF up THEN "IN_LINK_UP" ELSE "IN_LINK_DOWN", sa |-> x.macaddr, id |-> x.in_id]
        \in InFrame
  BY CoreTypes DEF InFrame, InLinkFrame
<1>. QED
  BY <1>1, SendKeeps DEF mrp_in_link_req

\* A poll arms at most the timer of the next one.
LEMMA StatusReq ==
    ASSUME NEW x \in InInstance, NEW i \in Nat
    PROVE  \/ Same(mrp_in_link_status_req(x, i), x)
           \/ Armed(mrp_in_link_status_req(x, i), x, "in_link_status")
<1> DEFINE f == [type |-> "IN_LINK_STATUS", sa |-> x.macaddr, id |-> x.in_id]
           y == mrp_send(x, RingPort, f)
<1>1. f \in InFrame
  BY CoreTypes DEF InFrame, InStatusFrame
<1>2. Same(y, x)
  BY <1>1, SendKeeps DEF Port
<1>3. Armed(ev_timer_again(y, "in_link_status"), y, "in_link_status")
  BY <1>2, TimerAgain DEF Timer, LcTimer
<1>. QED
  BY <1>2, <1>3 DEF mrp_in_link_status_req

\* The announcement in the ring is not the interconnection's.
LEMMA RingTopoKeeps ==
    ASSUME NEW x \in InInstance, NEW i \in 0 .. in_topo_conf_max
    PROVE  Same(mrp_ring_topo_req(x, i), x)
<1> DEFINE f == [type |-> "RING_TOPO", sa |-> x.macaddr, interval |-> i]
           y == mrp_send(x, RingPort, f)
<1>1. f \in RingTopoFrame
  BY CoreTypes DEF RingTopoFrame
<1>2. Same(y, x)
  BY <1>1, SendKeeps DEF Port
<1>3. Same(ifdriver_flush(y), y)
  BY <1>2, FlushKeeps
<1>4. Same([y EXCEPT !.ring_topo_running = TRUE], y)
  <2> HIDE DEF y
  <2>. QED
    BY <1>2, ZenonT(40) DEF InInstance
<1>. QED
  BY <1>2, <1>3, <1>4 DEF mrp_ring_topo_req

\* Clearing the forwarding database concerns one timer.
LEMMA ClearFdb ==
    ASSUME NEW x \in InInstance, NEW i \in Nat
    PROVE  \/ Armed(mrp_clear_fdb_start(x, i), x, "clear_fdb")
           \/ Disarmed(mrp_clear_fdb_start(x, i), x, "clear_fdb")
<1> DEFINE y == ev_timer_stop(x, "clear_fdb")
<1>1. Disarmed(y, x, "clear_fdb")
  BY TimerStop DEF Timer
<1>2. Same(ifdriver_flush(y), y)
  BY <1>1, FlushKeeps
<1>3. Armed(ev_timer_again(x, "clear_fdb"), x, "clear_fdb")
  BY TimerAgain DEF Timer
<1>. QED
  BY <1>1, <1>2, <1>3 DEF mrp_clear_fdb_start

-----------------------------------------------------------------------------
(***************************************************************************)
(* What holds of an instance between callbacks, and what a callback does.  *)
(***************************************************************************)
\* A manager: its port, its probes; and it never announces a link.
MimOK(x) ==
    x.in_role = "MIM" =>
        /\ x.state[i_port] = "FORWARDING" <=> x.mim_state = "CHK_IO"
        /\ "in_link_up" \notin x.timers
        /\ x.in_mode = "RC" /\ x.mim_state # "AC_STAT1" => "in_test" \in x.timers

\* A client: its port, its timers; and it is never a manager.
MicOK(x) ==
    x.in_role = "MIC" =>
        /\ x.state[i_port] = "FORWARDING" <=> x.mic_state = "IP_IDLE"
        /\ "in_link_up" \in x.timers <=> x.mic_state = "PT"
        /\ "in_link_down" \in x.timers => x.mic_state = "AC_STAT1"
        /\ x.mim_state = "AC_STAT1"

\* The timers of the other mode, or without a role, are not armed.
TimersOK(x) ==
    /\ x.in_mode = "RC" => "in_link_status" \notin x.timers /\ "cfm_ccm" \notin x.timers
    /\ x.in_role = "DISABLED" => x.timers \subseteq {"cfm_ccm"}

Good(x) ==
    /\ x \in InInstance
    /\ x.in_test_curr_max >= in_test_conf_max - 1 /\ x.in_topo_curr_max <= in_topo_conf_max
    /\ MimOK(x) /\ MicOK(x) /\ TimersOK(x)

\* The count of unanswered tests grows in no handler but one, and starts at zero.
Tally(r, x) ==
    x.in_mode = "RC" /\ Watching(r) =>
        r.in_test_curr = 0 \/ (Watching(x) /\ r.in_test_curr <= x.in_test_curr)

\* An interconnection that is opened or closed is announced.
Announces(r, x) ==
    \/ x.mim_state = "CHK_IO" /\ r.mim_state = "CHK_IC"
    \/ x.mim_state = "CHK_IC" /\ r.mim_state = "CHK_IO"
    => "in_topo" \in r.timers

Step(r, x) == Good(r) /\ KeepsRole(r, x) /\ Tally(r, x) /\ Announces(r, x)

-----------------------------------------------------------------------------
\* Operators that keep what the invariants look at keep the invariants.
LEMMA SameIsStep ==
    ASSUME NEW x, Good(x), NEW r, Same(r, x)
    PROVE  Step(r, x)
BY CoreTypes DEF Step, Good, MimOK, MicOK, TimersOK, Tally, Announces, Watching

\* Such operators before a handler make no difference.
LEMMA AfterSame ==
    ASSUME NEW x, Good(x), NEW y, Same(y, x), NEW r, Step(r, y)
    PROVE  Step(r, x)
BY DEF Step, Tally, Announces, Watching

\* The timer that clears the database is in no invariant of an instance with a role.
LEMMA ClearIsStep ==
    ASSUME NEW x, Good(x), x.in_role # "DISABLED", NEW r,
           Armed(r, x, "clear_fdb") \/ Disarmed(r, x, "clear_fdb")
    PROVE  Step(r, x)
BY CoreTypes DEF Step, Good, MimOK, MicOK, TimersOK, Tally, Announces, Watching

-----------------------------------------------------------------------------
(***************************************************************************)
(* The manager.                                                            *)
(***************************************************************************)
\* A test frame closes the interconnection, and starts the count again.
LEMMA ManagerTest ==
    ASSUME NEW x, Good(x), x.in_role = "MIM"
    PROVE  /\ Step(mrp_mim_recv_in_test(x), x)
           /\ mrp_mim_recv_in_test(x).in_test_curr = 0
<1> DEFINE a == SetInPort(x, "BLOCKED")
           b == RestartCount(a)
           c == mrp_in_topo_req(b)
           d == mrp_in_test_req(b)
           e == mrp_in_test_req(c)
           f == mrp_set_mim_state(d, "CHK_IC")
           g == mrp_set_mim_state(e, "CHK_IC")
           h == RestartCount(x)
           r == mrp_mim_recv_in_test(x)
<1>1. x \in InInstance /\ PortSet(a, x, "BLOCKED")
  BY SetPort DEF PortState, Good
<1>2. CountSet(b, a, 0, in_test_conf_max - 1) /\ CountSet(h, x, 0, in_test_conf_max - 1)
  BY <1>1, Restarted
<1>3. Armed(c, b, "in_topo") /\ Armed(d, b, "in_test")
  BY <1>2, TopoReq, TestReq
<1>4. Armed(e, c, "in_test")
  BY <1>3, TestReq
<1>5. MimSet(f, d, "CHK_IC") /\ MimSet(g, e, "CHK_IC")
  BY Zenon, <1>3, <1>4, SetMim DEF MimState
<1>6. /\ x.mim_state = "AC_STAT1" => r = f
      /\ x.mim_state = "CHK_IO" => r = g
      /\ x.mim_state = "CHK_IC" => r = h
  BY DEF mrp_mim_recv_in_test
<1>7. x.mim_state \in {"AC_STAT1", "CHK_IO", "CHK_IC"}
  BY <1>1, CoreTypes DEF MimState
<1> HIDE DEF a, b, c, d, e, f, g, h, r
<1>8. CASE x.mim_state = "AC_STAT1"
  BY <1>1, <1>2, <1>3, <1>5, <1>6, <1>8, InConfAssumption
     DEF Step, Good, MimOK, MicOK, TimersOK, Tally, Announces, Watching, r
<1>9. CASE x.mim_state = "CHK_IO"
  BY <1>1, <1>2, <1>3, <1>4, <1>5, <1>6, <1>9, InConfAssumption
     DEF Step, Good, MimOK, MicOK, TimersOK, Tally, Announces, Watching, r
<1>10. CASE x.mim_state = "CHK_IC"
  BY <1>1, <1>2, <1>6, <1>10, InConfAssumption
     DEF Step, Good, MimOK, MicOK, TimersOK, Tally, Announces, Watching, r
<1>. QED
  BY <1>7, <1>8, <1>9, <1>10 DEF r

\* A link announced by a client makes the manager test, wait or open.
LEMMA ManagerLink ==
    ASSUME NEW x, Good(x), x.in_role = "MIM", NEW f
    PROVE  Step(mrp_recv_in_link(x, f), x)
<1> DEFINE a == mrp_in_test_req(x)
           b == [x EXCEPT !.in_test_curr_max = in_test_conf_max]
           c == mrp_in_topo_req(b)
           d == SetInPort(x, "FORWARDING")
           e == mrp_in_topo_req(d)
           g == mrp_set_mim_state(e, "CHK_IO")
           r == mrp_recv_in_link(x, f)
<1>1. x \in InInstance /\ Armed(a, x, "in_test")
  BY TestReq DEF Good
<1>2. CountSet(b, x, x.in_test_curr, in_test_conf_max)
  BY <1>1, LimitRaised, InConfAssumption
<1>3. Armed(c, b, "in_topo")
  BY Zenon, <1>2, TopoReq
<1>4. PortSet(d, x, "FORWARDING")
  BY <1>1, SetPort DEF PortState
<1>5. Armed(e, d, "in_topo")
  BY <1>4, TopoReq
<1>6. MimSet(g, e, "CHK_IO")
  BY <1>5, SetMim DEF MimState
<1>7. \/ r = x
      \/ x.mim_state = "CHK_IO" /\ r = a
      \/ x.mim_state = "CHK_IC" /\ r = c
      \/ x.mim_state = "CHK_IC" /\ r = g
  <2>1. x.mim_state \in {"AC_STAT1", "CHK_IO", "CHK_IC"}
    BY <1>1, CoreTypes DEF MimState
  <2>. QED
    BY <2>1 DEF mrp_recv_in_link
<1> HIDE DEF a, b, c, d, e, g, r
<1>8. CASE r = x
  BY <1>1, <1>8, SameIsStep DEF r
<1>9. CASE x.mim_state = "CHK_IO" /\ r = a
  BY <1>1, <1>9, CoreTypes DEF Step, Good, MimOK, MicOK, TimersOK, Tally, Announces, Watching, r
<1>10. CASE x.mim_state = "CHK_IC" /\ r = c
  BY <1>1, <1>2, <1>3, <1>10, CoreTypes, InConfAssumption
     DEF Step, Good, MimOK, MicOK, TimersOK, Tally, Announces, Watching, r
<1>11. CASE x.mim_state = "CHK_IC" /\ r = g
  BY <1>1, <1>4, <1>5, <1>6, <1>11
     DEF Step, Good, MimOK, MicOK, TimersOK, Tally, Announces, Watching, r
<1>. QED
  BY <1>7, <1>8, <1>9, <1>10, <1>11 DEF r

\* A link change of the manager's own port.
LEMMA ManagerPortLink ==
    ASSUME NEW x, Good(x), x.in_role = "MIM", NEW up \in BOOLEAN
    PROVE  Step(mrp_mim_port_link(x, up), x)
<1> DEFINE a == SetInPort(x, "BLOCKED")
           b == RestartCount(a)
           c == mrp_in_test_req(b)
           d == mrp_set_mim_state(c, "CHK_IC")
           e == [a EXCEPT !.in_link_status_curr_max = in_link_status_conf_max]
           f == mrp_in_link_status_req(e, 1)
           g == mrp_set_mim_state(f, "CHK_IC")
           h == mrp_in_topo_req(a)
           i == mrp_in_test_req(h)
           j == mrp_set_mim_state(i, "AC_STAT1")
           k == ev_timer_stop(a, "in_link_status")
           l == mrp_set_mim_state(k, "AC_STAT1")
           m == mrp_set_mim_state(a, "AC_STAT1")
           r == mrp_mim_port_link(x, up)
<1>1. x \in InInstance /\ PortSet(a, x, "BLOCKED")
  BY SetPort DEF PortState, Good
<1>2. CountSet(b, a, 0, in_test_conf_max - 1)
  BY <1>1, Restarted
<1>3. Armed(c, b, "in_test")
  BY <1>2, TestReq
<1>4. MimSet(d, c, "CHK_IC")
  BY <1>3, SetMim DEF MimState
<1>5. Same(e, a)
  <2> HIDE DEF a
  <2>. QED
    BY <1>1, StatusCountKeeps, InConfAssumption
<1>6. Same(f, e) \/ Armed(f, e, "in_link_status")
  <2> HIDE DEF e
  <2>. QED
    BY <1>5, StatusReq
<1>7. MimSet(g, f, "CHK_IC")
  <2> HIDE DEF f
  <2>. QED
    BY <1>6, SetMim DEF MimState
<1>8. Armed(h, a, "in_topo") /\ Disarmed(k, a, "in_link_status") /\ MimSet(m, a, "AC_STAT1")
  <2> HIDE DEF a
  <2>. QED
    BY <1>1, TopoReq, TimerStop, SetMim DEF MimState, Timer, LcTimer
<1>9. Armed(i, h, "in_test")
  <2> HIDE DEF h
  <2>. QED
    BY <1>8, TestReq
<1>10. MimSet(j, i, "AC_STAT1") /\ MimSet(l, k, "AC_STAT1")
  <2> HIDE DEF i, k
  <2>. QED
    BY <1>8, <1>9, SetMim DEF MimState
<1>11. \/ r = x
       \/ x.mim_state = "AC_STAT1" /\ x.in_mode = "RC" /\ r = d
       \/ x.mim_state = "AC_STAT1" /\ x.in_mode = "LC" /\ r = g
       \/ r = j
       \/ x.in_mode = "LC" /\ r = l
       \/ x.in_mode = "LC" /\ r = m
  <2>1. x.mim_state \in {"AC_STAT1", "CHK_IO", "CHK_IC"} /\ x.in_mode \in {"RC", "LC"}
    BY <1>1, CoreTypes DEF MimState
  <2> HIDE DEF a, d, g, j, l, m
  <2>2. r = CASE up /\ x.mim_state = "AC_STAT1" /\ x.in_mode = "RC" -> d
              [] up /\ x.mim_state = "AC_STAT1" /\ x.in_mode = "LC" -> g
              [] ~up /\ x.mim_state # "AC_STAT1" /\ x.in_mode = "RC" -> j
              [] ~up /\ x.mim_state = "CHK_IO" /\ x.in_mode = "LC" -> l
              [] ~up /\ x.mim_state = "CHK_IC" /\ x.in_mode = "LC" -> m
              [] OTHER -> x
    BY Zenon DEF mrp_mim_port_link, a, d, g, j, l, m
  <2> HIDE DEF r
  <2>. QED
    BY <2>1, <2>2
<1> HIDE DEF a, b, c, d, e, f, g, h, i, j, k, l, m, r
<1>12. CASE r = x
  BY <1>1, <1>12, SameIsStep DEF r
<1>13. CASE x.mim_state = "AC_STAT1" /\ x.in_mode = "RC" /\ r = d
  BY <1>1, <1>2, <1>3, <1>4, <1>13, InConfAssumption
     DEF Step, Good, MimOK, MicOK, TimersOK, Tally, Announces, Watching, r
<1>14. CASE x.mim_state = "AC_STAT1" /\ x.in_mode = "LC" /\ r = g
  BY <1>1, <1>5, <1>6, <1>7, <1>14
     DEF Step, Good, MimOK, MicOK, TimersOK, Tally, Announces, Watching, r
<1>15. CASE r = j
  BY <1>1, <1>8, <1>9, <1>10, <1>15
     DEF Step, Good, MimOK, MicOK, TimersOK, Tally, Announces, Watching, r
<1>16. CASE x.in_mode = "LC" /\ (r = l \/ r = m)
  BY <1>1, <1>8, <1>10, <1>16
     DEF Step, Good, MimOK, MicOK, TimersOK, Tally, Announces, Watching, r
<1>. QED
  BY <1>11, <1>12, <1>13, <1>14, <1>15, <1>16 DEF r

\* What an expired test timer may do to the count: one more test is unanswered, and the
\* manager gives up only when the limit has been reached.
Expires(r, x) ==
    /\ Good(r) /\ KeepsRole(r, x) /\ Announces(r, x)
    /\ Watching(r) => Watching(x) /\ r.in_test_curr <= x.in_test_curr + 1
    /\ Watching(x) /\ ~Watching(r) => x.in_test_curr >= x.in_test_curr_max

\* mrp_in_test_expired, in either role.
LEMMA ManagerExpiry ==
    ASSUME NEW x, Good(x), "in_test" \in x.timers
    PROVE  Expires(mrp_in_test_expired(x), x)
<1> DEFINE a == mrp_in_test_req(x)
           b == SetInPort(x, "FORWARDING")
           c == RestartCount(b)
           d == mrp_in_topo_req(c)
           e == mrp_in_test_req(d)
           f == mrp_set_mim_state(e, "CHK_IO")
           g == [x EXCEPT !.in_test_curr = x.in_test_curr + 1]
           h == mrp_in_test_req(g)
           r == mrp_in_test_expired(x)
<1>1. x \in InInstance /\ x.in_test_curr \in Nat /\ x.in_test_curr_max \in Nat
  BY CoreTypes DEF Good
<1>2. Armed(a, x, "in_test") /\ PortSet(b, x, "FORWARDING")
  BY <1>1, TestReq, SetPort DEF PortState
<1>3. CountSet(c, b, 0, in_test_conf_max - 1)
  BY <1>2, Restarted
<1>4. Armed(d, c, "in_topo")
  BY <1>3, TopoReq
<1>5. Armed(e, d, "in_test")
  BY <1>4, TestReq
<1>6. MimSet(f, e, "CHK_IO")
  BY <1>5, SetMim DEF MimState
<1>7. CountSet(g, x, x.in_test_curr + 1, x.in_test_curr_max)
  BY <1>1, Counted
<1>8. Armed(h, g, "in_test")
  <2> HIDE DEF g
  <2>. QED
    BY <1>7, TestReq
<1>9. x.mim_state \in {"AC_STAT1", "CHK_IO", "CHK_IC"}
  BY <1>1, CoreTypes DEF MimState
<1>10. /\ x.mim_state = "AC_STAT1" => r = x
       /\ x.mim_state = "CHK_IO" => r = a
       /\ x.mim_state = "CHK_IC" /\ x.in_test_curr >= x.in_test_curr_max => r = f
       /\ x.mim_state = "CHK_IC" /\ x.in_test_curr < x.in_test_curr_max => r = h
  <2> HIDE DEF a, f, h
  <2>1. r = CASE x.mim_state = "AC_STAT1" -> x
              [] x.mim_state = "CHK_IO" -> a
              [] x.mim_state = "CHK_IC" /\ x.in_test_curr >= x.in_test_curr_max -> f
              [] x.mim_state = "CHK_IC" /\ x.in_test_curr < x.in_test_curr_max -> h
    BY Zenon DEF mrp_in_test_expired, a, f, h
  <2> HIDE DEF r
  <2>. QED
    BY <1>1, <2>1
<1> HIDE DEF a, b, c, d, e, f, g, h, r
<1>11. CASE x.mim_state = "AC_STAT1"
  BY <1>1, <1>10, <1>11 DEF Expires, Good, Announces, Watching, r
<1>12. CASE x.mim_state = "CHK_IO"
  BY <1>1, <1>2, <1>10, <1>12
     DEF Expires, Good, MimOK, MicOK, TimersOK, Announces, Watching, r
<1>13. CASE x.mim_state = "CHK_IC" /\ x.in_test_curr >= x.in_test_curr_max
  BY <1>1, <1>2, <1>3, <1>4, <1>5, <1>6, <1>10, <1>13, InConfAssumption
     DEF Expires, Good, MimOK, MicOK, TimersOK, Announces, Watching, r
<1>14. CASE x.mim_state = "CHK_IC" /\ x.in_test_curr < x.in_test_curr_max
  BY <1>1, <1>7, <1>8, <1>10, <1>14
     DEF Expires, Good, MimOK, MicOK, TimersOK, Announces, Watching, r
<1>. QED
  BY <1>1, <1>9, <1>11, <1>12, <1>13, <1>14

\* The announcements of a topology change end.
LEMMA TopoExpiry ==
    ASSUME NEW x, Good(x), "in_topo" \in x.timers
    PROVE  Step(mrp_in_topo_expired(x), x)
<1> DEFINE n == x.in_topo_curr_max
           a == mrp_in_topo_send(x, n)
           b == [a EXCEPT !.in_topo_curr_max = n - 1]
           c == [x EXCEPT !.in_topo_curr_max = in_topo_conf_max - 1]
           d == ifdriver_flush(c)
           e == mrp_in_topo_send(d, 0)
           f == ev_timer_stop(e, "in_topo")
           r == mrp_in_topo_expired(x)
<1>1. x \in InInstance /\ n \in 0 .. in_topo_conf_max
  BY CoreTypes, InConfAssumption DEF Good
<1>2. Same(a, x) /\ a.in_topo_curr_max = n
  BY <1>1, TopoSendKeeps
<1>3. n > 0 => Same(b, a)
  <2> HIDE DEF a, n
  <2>. QED
    BY <1>1, <1>2, TopoCountKeeps, InConfAssumption
<1>4. Same(c, x)
  BY <1>1, TopoCountKeeps, InConfAssumption
<1>5. Same(d, c)
  <2> HIDE DEF c
  <2>. QED
    BY <1>4, FlushKeeps
<1>6. Same(e, d)
  <2> HIDE DEF d
  <2>. QED
    BY <1>5, TopoSendKeeps, InConfAssumption
<1>7. Disarmed(f, e, "in_topo")
  <2> HIDE DEF e
  <2>. QED
    BY <1>6, TimerStop DEF Timer, RcTimer
<1>8. r = IF n > 0 THEN b ELSE f
  <2> HIDE DEF a, f
  <2>. QED
    BY <1>2 DEF mrp_in_topo_expired, a, f
<1> HIDE DEF a, b, c, d, e, f, r, n
<1>9. CASE n > 0
  <2>1. Same(r, x)
    BY <1>2, <1>3, <1>8, <1>9
  <2>. QED
    BY <2>1, SameIsStep DEF r
<1>10. CASE ~(n > 0)
  <2>1. Same(e, x)
    BY <1>4, <1>5, <1>6
  <2>2. Disarmed(f, x, "in_topo")
    BY <1>7, <2>1
  <2>3. Step(f, x)
    BY <1>1, <2>2, CoreTypes
       DEF Step, Good, MimOK, MicOK, TimersOK, Tally, Announces, Watching
  <2>. QED
    BY <1>8, <1>10, <2>3 DEF r
<1>. QED
  BY <1>9, <1>10

\* The polls of a manager in LC mode.
LEMMA StatusExpiry ==
    ASSUME NEW x, Good(x), "in_link_status" \in x.timers
    PROVE  Step(mrp_in_link_status_expired(x), x)
<1> DEFINE k == x.in_link_status_curr_max - 1
           a == [x EXCEPT !.in_link_status_curr_max = k]
           b == mrp_in_link_status_req(a, k)
           c == [x EXCEPT !.in_link_status_curr_max = in_link_status_conf_max]
           d == ev_timer_stop(c, "in_link_status")
           r == mrp_in_link_status_expired(x)
<1>1. x \in InInstance /\ x.in_link_status_curr_max \in Nat /\ x.in_mode = "LC"
      /\ x.in_role # "DISABLED"
  BY CoreTypes DEF Good, TimersOK
<1>2. CASE x.in_link_status_curr_max > 0
  <2>1. k \in Nat /\ r = b
    BY <1>1, <1>2 DEF mrp_in_link_status_expired
  <2>2. Same(a, x)
    <3> HIDE DEF k
    <3>. QED
      BY <1>1, <2>1, StatusCountKeeps
  <2>3. Same(b, a) \/ Armed(b, a, "in_link_status")
    <3> HIDE DEF k, a
    <3>. QED
      BY <2>1, <2>2, StatusReq
  <2> HIDE DEF a, b, r, k
  <2>. QED
    BY <1>1, <2>1, <2>2, <2>3
       DEF Step, Good, MimOK, MicOK, TimersOK, Tally, Announces, Watching, r
<1>3. CASE ~(x.in_link_status_curr_max > 0)
  <2>1. r = d
    BY <1>3 DEF mrp_in_link_status_expired
  <2>2. Same(c, x)
    BY <1>1, StatusCountKeeps, InConfAssumption
  <2>3. Disarmed(d, c, "in_link_status")
    <3> HIDE DEF c
    <3>. QED
      BY <2>2, TimerStop DEF Timer, LcTimer
  <2> HIDE DEF c, d, r
  <2>. QED
    BY <1>1, <2>1, <2>2, <2>3
       DEF Step, Good, MimOK, MicOK, TimersOK, Tally, Announces, Watching, r
<1>. QED
  BY <1>2, <1>3

-----------------------------------------------------------------------------
(***************************************************************************)
(* The client.                                                             *)
(***************************************************************************)
\* A link of the client came up.
LEMMA ClientUp ==
    ASSUME NEW x, Good(x), x.in_role = "MIC", x.mic_state = "AC_STAT1"
    PROVE  Step(LinkCameUp(x), x)
<1> DEFINE a == [x EXCEPT !.in_link_curr_max = in_link_conf_max]
           b == ev_timer_stop(a, "in_link_down")
           c == ev_timer_again(b, "in_link_up")
           d == mrp_in_link_req(c, TRUE)
           r == mrp_set_mic_state(d, "PT")
<1>1. x \in InInstance /\ Same(a, x)
  BY LinkCountKeeps, InConfAssumption DEF Good
<1>2. Disarmed(b, a, "in_link_down")
  <2> HIDE DEF a
  <2>. QED
    BY <1>1, TimerStop DEF Timer, RcTimer
<1>3. Armed(c, b, "in_link_up")
  <2> HIDE DEF b
  <2>. QED
    BY <1>2, TimerAgain DEF Timer, RcTimer
<1>4. Same(d, c)
  <2> HIDE DEF c
  <2>. QED
    BY Zenon, <1>3, LinkReqKeeps
<1>5. MicSet(r, d, "PT")
  <2> HIDE DEF d
  <2>. QED
    BY <1>4, SetMic DEF MicState
<1>6. LinkCameUp(x) = r
  BY Zenon DEF LinkCameUp
<1> HIDE DEF a, b, c, d, r
<1>7. Step(r, x)
  BY <1>1, <1>2, <1>3, <1>4, <1>5
     DEF Step, Good, MimOK, MicOK, TimersOK, Tally, Announces, Watching
<1>. QED
  BY <1>6, <1>7

\* A link of the client went down.
LEMMA ClientDown ==
    ASSUME NEW x, Good(x), x.in_role = "MIC", x.mic_state # "AC_STAT1"
    PROVE  Step(LinkWentDown(x), x)
<1> DEFINE a == [x EXCEPT !.in_link_curr_max = in_link_conf_max]
           b == IF x.in_mode = "LC" \/ x.mic_state = "PT" THEN ev_timer_stop(a, "in_link_up") ELSE a
           c == SetInPort(b, "BLOCKED")
           d == ev_timer_again(c, "in_link_down")
           e == mrp_in_link_req(d, FALSE)
           r == mrp_set_mic_state(e, "AC_STAT1")
<1>1. x \in InInstance /\ Same(a, x)
  BY LinkCountKeeps, InConfAssumption DEF Good
<1>2. Disarmed(b, a, "in_link_up")
  <2>1. Disarmed(ev_timer_stop(a, "in_link_up"), a, "in_link_up")
    <3> HIDE DEF a
    <3>. QED
      BY <1>1, TimerStop DEF Timer, RcTimer
  <2>2. x.mic_state # "PT" => "in_link_up" \notin a.timers
    <3> HIDE DEF a
    <3>. QED
      BY <1>1 DEF Good, MicOK
  <2> HIDE DEF a
  <2>. QED
    BY <1>1, <2>1, <2>2
<1>3. PortSet(c, b, "BLOCKED")
  <2> HIDE DEF b
  <2>. QED
    BY <1>2, SetPort DEF PortState
<1>4. Armed(d, c, "in_link_down")
  <2> HIDE DEF c
  <2>. QED
    BY <1>3, TimerAgain DEF Timer, RcTimer
<1>5. Same(e, d)
  <2> HIDE DEF d
  <2>. QED
    BY Zenon, <1>4, LinkReqKeeps
<1>6. MicSet(r, e, "AC_STAT1")
  <2> HIDE DEF e
  <2>. QED
    BY <1>5, SetMic DEF MicState
<1>7. LinkWentDown(x) = r
  BY Zenon DEF LinkWentDown
<1> HIDE DEF a, b, c, d, e, r
<1>8. Step(r, x)
  BY <1>1, <1>2, <1>3, <1>4, <1>5, <1>6
     DEF Step, Good, MimOK, MicOK, TimersOK, Tally, Announces, Watching
<1>. QED
  BY <1>7, <1>8

\* A link change of the client's own port.
LEMMA ClientPortLink ==
    ASSUME NEW x, Good(x), x.in_role = "MIC", NEW up \in BOOLEAN
    PROVE  Step(mrp_mic_port_link(x, up), x)
<1>1. Step(x, x)
  BY SameIsStep DEF Good
<1>. QED
  BY <1>1, ClientUp, ClientDown DEF mrp_mic_port_link

\* The link-up timer, which looks at no state, opens the port.
LEMMA LinkUpExpiry ==
    ASSUME NEW x, Good(x), "in_link_up" \in x.timers
    PROVE  Step(mrp_in_link_up_expired(x), x)
<1> DEFINE k == x.in_link_curr_max - 1
           a == [x EXCEPT !.in_link_curr_max = k]
           b == ev_timer_again(a, "in_link_up")
           c == mrp_in_link_req(b, TRUE)
           d == [x EXCEPT !.in_link_curr_max = in_link_conf_max]
           e == SetInPort(d, "FORWARDING")
           f == mrp_set_mic_state(e, "IP_IDLE")
           g == ev_timer_stop(f, "in_link_up")
           r == mrp_in_link_up_expired(x)
<1>1. x \in InInstance /\ x.in_link_curr_max \in Nat /\ x.in_role = "MIC"
  BY CoreTypes DEF Good, TimersOK, MimOK
<1>2. CASE x.in_link_curr_max > 0
  <2>1. k \in Nat
    BY <1>1, <1>2
  <2>2. r = c
    BY <1>2, Zenon DEF mrp_in_link_up_expired
  <2>3. Same(a, x)
    <3> HIDE DEF k
    <3>. QED
      BY <1>1, <2>1, LinkCountKeeps
  <2>4. Armed(b, a, "in_link_up")
    <3> HIDE DEF a
    <3>. QED
      BY <2>3, TimerAgain DEF Timer, RcTimer
  <2>5. Same(c, b)
    <3> HIDE DEF b
    <3>. QED
      BY Zenon, <2>4, LinkReqKeeps
  <2> HIDE DEF a, b, c, r, k
  <2>6. Step(r, x)
    BY <1>1, <2>2, <2>3, <2>4, <2>5
       DEF Step, Good, MimOK, MicOK, TimersOK, Tally, Announces, Watching
  <2>. QED
    BY <2>6 DEF r
<1>3. CASE ~(x.in_link_curr_max > 0)
  <2>1. r = g
    BY <1>3, Zenon DEF mrp_in_link_up_expired
  <2>2. Same(d, x)
    BY <1>1, LinkCountKeeps, InConfAssumption
  <2>3. PortSet(e, d, "FORWARDING")
    <3> HIDE DEF d
    <3>. QED
      BY <2>2, SetPort DEF PortState
  <2>4. MicSet(f, e, "IP_IDLE")
    <3> HIDE DEF e
    <3>. QED
      BY <2>3, SetMic DEF MicState
  <2>5. Disarmed(g, f, "in_link_up")
    <3> HIDE DEF f
    <3>. QED
      BY <2>4, TimerStop DEF Timer, RcTimer
  <2> HIDE DEF d, e, f, g, r
  <2>6. Step(r, x)
    BY <1>1, <2>1, <2>2, <2>3, <2>4, <2>5
       DEF Step, Good, MimOK, MicOK, TimersOK, Tally, Announces, Watching
  <2>. QED
    BY <2>6 DEF r
<1>. QED
  BY <1>2, <1>3

\* The link-down timer changes no state.
LEMMA LinkDownExpiry ==
    ASSUME NEW x, Good(x), "in_link_down" \in x.timers
    PROVE  Step(mrp_in_link_down_expired(x), x)
<1> DEFINE k == x.in_link_curr_max - 1
           a == [x EXCEPT !.in_link_curr_max = k]
           b == ev_timer_again(a, "in_link_down")
           c == mrp_in_link_req(b, FALSE)
           d == [x EXCEPT !.in_link_curr_max = in_link_conf_max]
           e == ev_timer_stop(d, "in_link_down")
           r == mrp_in_link_down_expired(x)
<1>1. x \in InInstance /\ x.in_link_curr_max \in Nat /\ x.in_role # "DISABLED"
  BY CoreTypes DEF Good, TimersOK
<1>2. CASE x.in_link_curr_max > 0
  <2>1. k \in Nat
    BY <1>1, <1>2
  <2>2. r = c
    BY <1>2, Zenon DEF mrp_in_link_down_expired
  <2>3. Same(a, x)
    <3> HIDE DEF k
    <3>. QED
      BY <1>1, <2>1, LinkCountKeeps
  <2>4. Armed(b, a, "in_link_down")
    <3> HIDE DEF a
    <3>. QED
      BY <2>3, TimerAgain DEF Timer, RcTimer
  <2>5. Same(c, b)
    <3> HIDE DEF b
    <3>. QED
      BY Zenon, <2>4, LinkReqKeeps
  <2> HIDE DEF a, b, c, r, k
  <2>6. Step(r, x)
    BY <1>1, <2>2, <2>3, <2>4, <2>5, CoreTypes
       DEF Step, Good, MimOK, MicOK, TimersOK, Tally, Announces, Watching
  <2>. QED
    BY <2>6 DEF r
<1>3. CASE ~(x.in_link_curr_max > 0)
  <2>1. r = e
    BY <1>3, Zenon DEF mrp_in_link_down_expired
  <2>2. Same(d, x)
    BY <1>1, LinkCountKeeps, InConfAssumption
  <2>3. Disarmed(e, d, "in_link_down")
    <3> HIDE DEF d
    <3>. QED
      BY <2>2, TimerStop DEF Timer, RcTimer
  <2> HIDE DEF d, e, r
  <2>4. Step(r, x)
    BY <1>1, <2>1, <2>2, <2>3, CoreTypes
       DEF Step, Good, MimOK, MicOK, TimersOK, Tally, Announces, Watching
  <2>. QED
    BY <2>4 DEF r
<1>. QED
  BY <1>2, <1>3

\* An announcement of the manager opens a client that waits, and silences one that is down.
LEMMA ClientTopo ==
    ASSUME NEW x, Good(x), x.in_role = "MIC", NEW f
    PROVE  Step(MicTopo(x, f), x)
<1> DEFINE a == ev_timer_stop(x, "in_link_down")
           b == [x EXCEPT !.in_link_curr_max = in_link_conf_max]
           c == ev_timer_stop(b, "in_link_up")
           d == SetInPort(c, "FORWARDING")
           e == mrp_set_mic_state(d, "IP_IDLE")
           r == MicTopo(x, f)
<1>1. x \in InInstance /\ Disarmed(a, x, "in_link_down")
  BY TimerStop DEF Good, Timer, RcTimer
<1>2. Same(b, x)
  BY <1>1, LinkCountKeeps, InConfAssumption
<1>3. Disarmed(c, b, "in_link_up")
  <2> HIDE DEF b
  <2>. QED
    BY <1>2, TimerStop DEF Timer, RcTimer
<1>4. PortSet(d, c, "FORWARDING")
  <2> HIDE DEF c
  <2>. QED
    BY <1>3, SetPort DEF PortState
<1>5. MicSet(e, d, "IP_IDLE")
  <2> HIDE DEF d
  <2>. QED
    BY <1>4, SetMic DEF MicState
<1>6. x.mic_state \in {"AC_STAT1", "PT", "IP_IDLE"}
  BY <1>1, CoreTypes DEF MicState
<1> HIDE DEF a, b, c, d, e
<1>7. r = CASE x.mic_state = "AC_STAT1" -> IF f.id = x.in_id THEN a ELSE x
            [] x.mic_state = "PT" -> e
            [] x.mic_state = "IP_IDLE" -> x
  BY Zenon DEF MicTopo, a, b, c, d, e
<1> HIDE DEF r
<1>8. \/ r = x
      \/ x.mic_state = "AC_STAT1" /\ r = a
      \/ x.mic_state = "PT" /\ r = e
  BY <1>6, <1>7
<1>9. CASE r = x
  BY <1>1, <1>9, SameIsStep DEF r
<1>10. CASE x.mic_state = "AC_STAT1" /\ r = a
  BY <1>1, <1>10 DEF Step, Good, MimOK, MicOK, TimersOK, Tally, Announces, Watching, r
<1>11. CASE x.mic_state = "PT" /\ r = e
  BY SMTT(30), <1>2, <1>3, <1>4, <1>5, <1>11
     DEF Step, Good, MimOK, MicOK, TimersOK, Tally, Announces, Watching, r
<1>. QED
  BY <1>8, <1>9, <1>10, <1>11

-----------------------------------------------------------------------------
(***************************************************************************)
(* Entry points.                                                           *)
(***************************************************************************)
\* mrp_recv_in_topo, in any role.
LEMMA TopoReceived ==
    ASSUME NEW x, Good(x), NEW f \in InTopoFrame
    PROVE  Step(mrp_recv_in_topo(x, f), x)
<1> DEFINE y == IF x.ring_role = "MRM" /\ ~x.ring_topo_running
                THEN mrp_ring_topo_req(x, f.interval) ELSE x
           c == mrp_clear_fdb_start(y, f.interval)
           t == MicTopo(y, f)
           r == mrp_recv_in_topo(x, f)
<1>1. x \in InInstance /\ f.interval \in 0 .. in_topo_conf_max /\ f.interval \in Nat
  BY InConfAssumption DEF Good, InTopoFrame
<1>2. Same(y, x)
  BY <1>1, RingTopoKeeps
<1> HIDE DEF y
<1>3. Step(y, x) /\ Good(y)
  BY <1>2, SameIsStep DEF Step
<1>4. x.in_role = "MIM" => Step(c, x)
  <2>1. Armed(c, y, "clear_fdb") \/ Disarmed(c, y, "clear_fdb")
    BY <1>1, <1>2, ClearFdb
  <2> HIDE DEF c
  <2>2. x.in_role = "MIM" => Step(c, y)
    BY <1>2, <1>3, <2>1, ClearIsStep
  <2>. QED
    BY <1>2, <2>2, AfterSame
<1>5. x.in_role = "MIC" => Step(t, x)
  <2>1. x.in_role = "MIC" => Step(t, y)
    BY <1>2, <1>3, ClientTopo
  <2> HIDE DEF t
  <2>. QED
    BY <1>2, <2>1, AfterSame
<1>6. x.in_role \in {"DISABLED", "MIM", "MIC"}
  BY <1>1, CoreTypes
<1>7. r = CASE x.in_role = "MIM" -> IF f.sa = x.macaddr THEN y ELSE c
            [] x.in_role = "MIC" -> t
            [] x.in_role = "DISABLED" -> y
  BY Zenon DEF mrp_recv_in_topo, y
<1> HIDE DEF r, c, t
<1>8. r = y \/ (x.in_role = "MIM" /\ r = c) \/ (x.in_role = "MIC" /\ r = t)
  BY <1>6, <1>7
<1>9. Step(r, x)
  BY <1>3, <1>4, <1>5, <1>8
<1>. QED
  BY <1>9 DEF r

\* A link change of the interconnection port, in any role.
LEMMA PortLink ==
    ASSUME NEW x, Good(x), NEW up \in BOOLEAN
    PROVE  Step(InPortLink(x, up), x)
<1> DEFINE u == IF up THEN x.up \cup {i_port} ELSE x.up \ {i_port}
           y == [x EXCEPT !.up = u]
           m == mrp_mim_port_link(y, up)
           c == mrp_mic_port_link(y, up)
           r == InPortLink(x, up)
<1>1. x \in InInstance /\ u \in SUBSET Port
  BY CoreTypes DEF Good, Port, i_port
<1>2. Same(y, x)
  <2> HIDE DEF u
  <2>. QED
    BY <1>1, UpKeeps
<1>3. r = CASE x.in_role = "MIM" -> m [] x.in_role = "MIC" -> c [] x.in_role = "DISABLED" -> y
  BY Zenon DEF InPortLink
<1> HIDE DEF y, r, u
<1>4. Step(y, x) /\ Good(y)
  BY <1>2, SameIsStep DEF Step
<1>5. x.in_role = "MIM" => Step(m, y)
  BY <1>2, <1>4, ManagerPortLink
<1>6. x.in_role = "MIC" => Step(c, y)
  BY <1>2, <1>4, ClientPortLink
<1> HIDE DEF m, c
<1>7. (x.in_role = "MIM" => Step(m, x)) /\ (x.in_role = "MIC" => Step(c, x))
  BY <1>2, <1>5, <1>6, AfterSame
<1>8. x.in_role \in {"DISABLED", "MIM", "MIC"}
  BY <1>1, CoreTypes
<1>9. Step(r, x)
  BY <1>3, <1>4, <1>7, <1>8
<1>. QED
  BY <1>9 DEF r

\* The same after netlink has stored the operational state.
LEMMA OperState ==
    ASSUME NEW x, Good(x), NEW up \in BOOLEAN
    PROVE  Step(netlink_operstate(x, up), x)
<1> DEFINE u == IF up THEN x.up \cup {i_port} ELSE x.up \ {i_port}
           y == [x EXCEPT !.up = u]
<1>1. x \in InInstance /\ u \in SUBSET Port
  BY CoreTypes DEF Good, Port, i_port
<1>2. Same(y, x)
  <2> HIDE DEF u
  <2>. QED
    BY <1>1, UpKeeps
<1>3. netlink_operstate(x, up) = IF y.in_mode = "LC" THEN y ELSE InPortLink(y, up)
  BY Zenon DEF netlink_operstate, mrp_port_link_change
<1> HIDE DEF y, u
<1>4. Step(y, x) /\ Good(y)
  BY <1>2, SameIsStep DEF Step
<1>5. Step(InPortLink(y, up), x)
  BY <1>2, <1>4, PortLink, AfterSame
<1>. QED
  BY <1>3, <1>4, <1>5

\* A received frame is forwarded before it is processed; forwarding keeps everything.
LEMMA ForwardKeeps ==
    ASSUME NEW x \in InInstance, NEW p \in Port, NEW f \in InFrame
    PROVE  Same(mrp_check_and_forward(x, p, f), x)
<1>1. RingRolePorts(x, p, f) \in SUBSET Port
  BY DEF RingRolePorts
<1>2. x.in_role \in {"DISABLED", "MIM", "MIC"}
  BY CoreTypes
<1> DEFINE ports == RingRolePorts(x, p, f)
<1>3. ForwardPorts(x, p, f) \in SUBSET Port
  <2> HIDE DEF ports
  <2>1. ports \in SUBSET Port
    BY <1>1 DEF ports
  <2>2. ForwardPorts(x, p, f) \in SUBSET ports
    BY <1>2 DEF ForwardPorts, ports
  <2>. QED
    BY <2>1, <2>2
<1>. QED
  BY <1>3, SendKeeps DEF mrp_check_and_forward

\* Own test frames start the count again.
Heard(r, x, f) == f.type = "IN_TEST" /\ f.id = x.in_id /\ Watching(r) => r.in_test_curr = 0

\* mrp_process, for the frames that mrp_should_process lets through.
LEMMA Processed ==
    ASSUME NEW x, Good(x), NEW f \in InFrame, f.type # "IN_LINK_STATUS",
           f.type # "IN_TOPO" => x.in_role = "MIM"
    PROVE  Step(mrp_process(x, f), x) /\ Heard(mrp_process(x, f), x, f)
<1> DEFINE r == mrp_process(x, f)
<1>1. /\ f.type \in {"IN_TEST", "IN_TOPO", "IN_LINK_UP", "IN_LINK_DOWN"}
      /\ f.type = "IN_TOPO" => f \in InTopoFrame
  BY DEF InFrame, InTestFrame, InTopoFrame, InLinkFrame, InStatusFrame
<1>2. CASE f.type = "IN_TEST"
  <2>1. r = mrp_recv_in_test(x, f)
    BY <1>2 DEF mrp_process
  <2>2. Step(x, x)
    BY SameIsStep DEF Good
  <2>. QED
    BY <1>2, <2>1, <2>2, ManagerTest DEF mrp_recv_in_test, Heard
<1>3. CASE f.type = "IN_TOPO"
  <2>1. r = mrp_recv_in_topo(x, f)
    BY <1>3 DEF mrp_process
  <2>. QED
    BY <1>1, <1>3, <2>1, TopoReceived DEF Heard
<1>4. CASE f.type \in {"IN_LINK_UP", "IN_LINK_DOWN"}
  <2>1. r = mrp_recv_in_link(x, f)
    BY <1>4 DEF mrp_process
  <2>. QED
    BY <1>4, <2>1, ManagerLink DEF Heard
<1>. QED
  BY <1>1, <1>2, <1>3, <1>4

\* mrp_recv.
LEMMA Received ==
    ASSUME NEW x, Good(x), NEW p \in Port, NEW f \in InFrame
    PROVE  /\ Step(mrp_recv(x, p, f), x)
           /\ ~mrp_should_drop(x, p, f.type) => Heard(mrp_recv(x, p, f), x, f)
<1> DEFINE y == mrp_check_and_forward(x, p, f)
           z == mrp_process(y, f)
           r == mrp_recv(x, p, f)
           process == mrp_should_process(x, f.type)
<1>1. x \in InInstance /\ x.in_role \in {"DISABLED", "MIM", "MIC"} /\ Step(x, x)
  BY CoreTypes, SameIsStep DEF Good
<1>2. Same(y, x)
  BY <1>1, ForwardKeeps
<1>3. f.type \in {"IN_TEST", "IN_TOPO", "IN_LINK_UP", "IN_LINK_DOWN", "IN_LINK_STATUS"}
  BY DEF InFrame, InTestFrame, InTopoFrame, InLinkFrame, InStatusFrame
<1>4. /\ process => f.type # "IN_LINK_STATUS" /\ (f.type # "IN_TOPO" => x.in_role = "MIM")
      /\ ~process /\ f.type = "IN_TEST" => x.in_role # "MIM"
  BY Zenon, <1>3 DEF mrp_should_process
<1>5. r = IF mrp_should_drop(x, p, f.type) THEN x ELSE IF process THEN z ELSE y
  BY Zenon DEF mrp_recv, mrp_process_frame
<1> HIDE DEF y, r, process
<1>6. Step(y, x) /\ Good(y)
  BY <1>2, SameIsStep DEF Step
<1>7. process => Step(z, y) /\ Heard(z, y, f)
  BY <1>2, <1>4, <1>6, Processed
<1> HIDE DEF z
<1>8. process => Step(z, x) /\ Heard(z, x, f)
  BY <1>2, <1>7, AfterSame DEF Heard
<1>9. ~process => Heard(y, x, f)
  BY <1>2, <1>4 DEF Heard, Watching
<1>10. Step(r, x) /\ (~mrp_should_drop(x, p, f.type) => Heard(r, x, f))
  BY <1>1, <1>5, <1>6, <1>8, <1>9
<1>. QED
  BY <1>10 DEF r

\* The timer that clears the database.
LEMMA ClearExpiry ==
    ASSUME NEW x, Good(x), "clear_fdb" \in x.timers
    PROVE  Step(mrp_clear_fdb_expired(x), x)
<1> DEFINE a == ifdriver_flush(x)
           r == ev_timer_stop(a, "clear_fdb")
<1>1. Same(a, x) /\ x.in_role # "DISABLED"
  BY FlushKeeps DEF Good, TimersOK
<1>2. Disarmed(r, a, "clear_fdb")
  <2> HIDE DEF a
  <2>. QED
    BY <1>1, TimerStop DEF Timer
<1>3. mrp_clear_fdb_expired(x) = r
  BY Zenon DEF mrp_clear_fdb_expired
<1> HIDE DEF a, r
<1>4. Disarmed(r, x, "clear_fdb")
  BY <1>1, <1>2
<1>. QED
  BY <1>1, <1>3, <1>4, ClearIsStep

\* The timer of the continuity check messages.
LEMMA CcmExpiry ==
    ASSUME NEW x, Good(x), "cfm_ccm" \in x.timers
    PROVE  Step(mrp_cfm_ccm_expired(x), x)
<1> DEFINE r == ev_timer_again(x, "cfm_ccm")
<1>1. Armed(r, x, "cfm_ccm")
  BY TimerAgain DEF Good, Timer, LcTimer
<1>2. Same(r, x)
  <2> HIDE DEF r
  <2>. QED
    BY <1>1
<1>. QED
  BY <1>2, SameIsStep DEF mrp_cfm_ccm_expired

\* Whatever the ring half does, the interconnection half is as before.
LEMMA RingKeeps ==
    ASSUME NEW x \in InInstance, NEW role \in {"MRC", "MRM"}, NEW b \in BOOLEAN,
           NEW S \in [Port -> PortState], S[i_port] = x.state[i_port], NEW U \in SUBSET Port
    PROVE  Same([x EXCEPT !.ring_role = role, !.ring_topo_running = b, !.state = S, !.up = U], x)
<1>1. Same([x EXCEPT !.ring_role = role], x) /\ [x EXCEPT !.ring_role = role].state = x.state
  BY DEF InInstance
<1> DEFINE y == [x EXCEPT !.ring_role = role]
           z == [y EXCEPT !.ring_topo_running = b]
           w == [z EXCEPT !.state = S]
<1> HIDE DEF y
<1>2. Same(y, x) /\ y.state = x.state
  BY <1>1 DEF y
<1>3. Same(z, y) /\ z.state = y.state
  BY <1>2, ZenonT(40) DEF InInstance
<1> HIDE DEF z
<1>4. Same(w, z)
  BY <1>2, <1>3 DEF InInstance
<1> HIDE DEF w
<1>5. Same([w EXCEPT !.up = U], w)
  BY <1>4, UpKeeps
<1>. QED
  BY <1>2, <1>3, <1>4, <1>5 DEF y, z, w

-----------------------------------------------------------------------------
(***************************************************************************)
(* addmrp and delmrp.                                                      *)
(***************************************************************************)
\* A role is taken up with the port blocked and both state machines at their start.
LEMMA Added ==
    ASSUME NEW c \in InConfig, NEW up \in SUBSET Port
    PROVE  /\ Good(mrp_add(c, up))
           /\ Watching(mrp_add(c, up)) /\ mrp_add(c, up).in_mode = "RC" =>
                 mrp_add(c, up).in_test_curr = 0
<1> DEFINE x == Created(c, up)
           y == mrp_set_in_role(x, c.in_role)
           z == SetInPort(y, "BLOCKED")
           l == InPortLink(z, TRUE)
           r == mrp_add(c, up)
<1>1. /\ c.macaddr \in Mac /\ c.in_id \in InId /\ c.in_mode \in {"RC", "LC"}
      /\ c.in_role \in {"DISABLED", "MIM", "MIC"} /\ c.ring_role \in {"MRC", "MRM"}
  BY DEF InConfig
<1>2. x \in InInstance
  <2>1. /\ in_test_conf_max \in Nat /\ in_topo_conf_max - 1 \in Nat
        /\ up \ {i_port} \in SUBSET Port
    BY InConfAssumption
  <2>2. [p \in Port |-> IF p = i_port THEN "DISABLED"
                        ELSE IF p \in c.blocked THEN "BLOCKED" ELSE "FORWARDING"]
          \in [Port -> PortState]
    BY DEF PortState
  <2>3. (IF c.in_mode = "LC" THEN {"cfm_ccm"} ELSE {})
          \in SUBSET (RcTimer \cup LcTimer \cup {"clear_fdb"})
    BY DEF LcTimer
  <2>4. "AC_STAT1" \in MimState /\ "AC_STAT1" \in MicState
    BY DEF MimState, MicState
  <2>5. {} \in SUBSET (Port \X (InFrame \cup RingTopoFrame)) /\ 0 \in Nat
    OBVIOUS
  <2>. QED
    BY <1>1, <2>1, <2>2, <2>3, <2>4, <2>5, ZenonT(60) DEF Created, InInstance
<1>3. /\ x.in_role = "DISABLED" /\ x.in_mode = c.in_mode
      /\ x.mim_state = "AC_STAT1" /\ x.mic_state = "AC_STAT1"
      /\ x.timers = IF c.in_mode = "LC" THEN {"cfm_ccm"} ELSE {}
      /\ x.in_test_curr_max = in_test_conf_max /\ x.in_topo_curr_max = in_topo_conf_max - 1
  BY Zenon DEF Created
<1>4. r = IF c.in_role = "DISABLED" THEN x ELSE IF i_port \in up THEN l ELSE z
  BY Zenon DEF mrp_add, TakeRole
<1> HIDE DEF x, r
<1>5. Good(x)
  BY SMTT(30), <1>1, <1>2, <1>3, InConfAssumption DEF Good, MimOK, MicOK, TimersOK
<1>6. /\ y \in InInstance /\ y.in_role = c.in_role /\ y.in_mode = x.in_mode
      /\ y.timers = x.timers /\ y.mim_state = x.mim_state /\ y.mic_state = x.mic_state
      /\ y.in_test_curr_max = x.in_test_curr_max /\ y.in_topo_curr_max = x.in_topo_curr_max
  BY <1>1, <1>2 DEF mrp_set_in_role, InInstance
<1> HIDE DEF y
<1>7. PortSet(z, y, "BLOCKED")
  BY <1>6, SetPort DEF PortState
<1> HIDE DEF z
<1>8. c.in_role # "DISABLED" => Good(z) /\ ~Watching(z)
  BY <1>1, <1>3, <1>6, <1>7, InConfAssumption DEF Good, MimOK, MicOK, TimersOK, Watching
<1>9. c.in_role # "DISABLED" => Step(l, z)
  BY Zenon, <1>8, PortLink
<1> HIDE DEF l
<1>10. Good(r) /\ (Watching(r) /\ r.in_mode = "RC" => r.in_test_curr = 0)
  BY <1>3, <1>4, <1>5, <1>8, <1>9 DEF Step, Tally, Watching
<1>. QED
  BY <1>10 DEF r

\* mrp_timer_stop.
LEMMA Destroyed ==
    ASSUME NEW x, Good(x)
    PROVE  LET r == mrp_destroy(x)
           IN  /\ r \in InInstance /\ KeepsRole(r, x) /\ KeepsPort(r, x) /\ KeepsMim(r, x)
               /\ r.timers \subseteq IF x.in_mode = "RC" THEN {}
                                     ELSE IF x.in_role # "DISABLED" THEN {"in_test"} ELSE {"cfm_ccm"}
<1> DEFINE inter == IF x.in_role = "DISABLED" THEN {}
                    ELSE {"in_topo", "in_link_up", "in_link_down"}
                           \cup IF x.in_mode = "RC" THEN {"in_test"} ELSE LcTimer
           T == x.timers \ (inter \cup {"clear_fdb"})
           y == [x EXCEPT !.timers = T]
           r == [y EXCEPT !.ring_topo_running = FALSE]
<1>1. x \in InInstance /\ x.timers \subseteq Timer /\ x.in_mode \in {"RC", "LC"}
  BY CoreTypes DEF Good
<1>2. T \subseteq Timer
  BY <1>1
<1>3. T \subseteq IF x.in_mode = "RC" THEN {}
                  ELSE IF x.in_role # "DISABLED" THEN {"in_test"} ELSE {"cfm_ccm"}
  BY <1>1 DEF Good, TimersOK, Timer, RcTimer, LcTimer
<1>4. mrp_destroy(x) = r
  BY Zenon DEF mrp_destroy, mrp_timer_stop
<1> HIDE DEF T
<1>5. TimersSet(y, x, T)
  BY <1>1, <1>2 DEF InInstance, Timer
<1> HIDE DEF y
<1>6. Same(r, y)
  BY <1>5, ZenonT(40) DEF InInstance
<1> HIDE DEF r
<1>. QED
  BY <1>3, <1>4, <1>5, <1>6

-----------------------------------------------------------------------------
(***************************************************************************)
(* The specification.                                                      *)
(***************************************************************************)
\* While a manager in RC mode watches, no test is counted that was not waited for.
CountOK == mrp.in_mode = "RC" /\ Watching(mrp) => mrp.in_test_curr <= silence

InInv == TypeOK /\ (alive => Good(mrp) /\ CountOK) /\ MimPort /\ NothingElseOutlives

\* A callback that is a step of the instance keeps the invariant.
LEMMA CallbackKeeps ==
    ASSUME InInv, alive, NEW r, NEW e, Callback(r, e),
           \/ /\ Step(r, mrp) /\ e # "in_test"
              /\ e = "own_test" /\ Watching(r) => r.in_test_curr = 0
           \/ Expires(r, mrp) /\ e = "in_test"
    PROVE  InInv' /\ Announces(mrp', mrp)
<1>1. mrp' = r /\ alive' = alive /\ silence \in Nat /\ alive \in BOOLEAN
  BY DEF Callback, InInv, TypeOK
<1>2. mrp \in InInstance /\ Good(mrp) /\ Good(r) /\ KeepsRole(r, mrp) /\ Announces(r, mrp)
  BY DEF InInv, Step, Expires, Good
<1>3. /\ silence' \in Nat
      /\ r.in_mode = "RC" /\ Watching(r) => r.in_test_curr <= silence'
  <2>1. silence' = CASE ~(Watching(mrp) /\ Watching(r)) \/ e = "own_test" -> 0
                     [] Watching(mrp) /\ Watching(r) /\ e = "in_test" -> silence + 1
                     [] OTHER -> silence
    BY DEF Callback
  <2>2. mrp.in_test_curr \in Nat /\ r.in_test_curr \in Nat
    BY <1>2, CoreTypes DEF Good
  <2>3. mrp.in_mode = "RC" /\ Watching(mrp) => mrp.in_test_curr <= silence
    BY DEF InInv, CountOK
  <2>4. CASE ~(Watching(mrp) /\ Watching(r)) \/ e = "own_test"
    BY <1>2, <2>1, <2>2, <2>4 DEF Step, Expires, Tally
  <2>5. CASE Watching(mrp) /\ Watching(r) /\ e = "in_test"
    BY <1>1, <1>2, <2>1, <2>2, <2>3, <2>5 DEF Step, Expires, Tally
  <2>6. CASE Watching(mrp) /\ Watching(r) /\ e # "in_test" /\ e # "own_test"
    BY <1>1, <1>2, <2>1, <2>2, <2>3, <2>6 DEF Step, Tally
  <2>. QED
    BY <2>4, <2>5, <2>6
<1>4. TypeOK'
  BY <1>1, <1>2, <1>3 DEF TypeOK, Good
<1>5. Good(mrp)' /\ CountOK'
  BY <1>1, <1>2, <1>3 DEF CountOK
<1>6. MimPort' /\ NothingElseOutlives'
  BY <1>1, <1>2 DEF MimPort, NothingElseOutlives, Good, MimOK
<1>. QED
  BY <1>1, <1>2, <1>4, <1>5, <1>6 DEF InInv

\* Every step keeps the invariant, and announces what it opens or closes.
LEMMA NextKeeps ==
    ASSUME InInv, Next
    PROVE  InInv' /\ Announces(mrp', mrp)
<1> DEFINE x == Idle(mrp)
<1>1. mrp \in InInstance /\ alive /\ Good(mrp)
  BY Zenon DEF InInv, TypeOK, Next, packet_rcv, netlink_listen, cfm_status, RingStep, in_test_work,
         in_topo_work, in_link_up_work, in_link_down_work, in_link_status_work, cfm_ccm_work,
         clear_fdb_work, Destroy, Expiry, Callback
<1>2. Same(x, mrp) /\ x.state = mrp.state
  BY <1>1, IdleKeeps
<1> HIDE DEF x
<1>3. Good(x)
  BY <1>1, <1>2, SameIsStep DEF Step
<1>4. ASSUME NEW r, Step(r, x)
      PROVE  Step(r, mrp)
  BY <1>1, <1>2, <1>4, AfterSame
<1>5. CASE packet_rcv
  <2>1. PICK p \in Port, f \in InFrame :
          Callback(mrp_recv(x, p, f),
                   IF /\ f.type = "IN_TEST" /\ f.id = mrp.in_id
                      /\ ~mrp_should_drop(mrp, p, f.type)
                   THEN "own_test" ELSE "frame")
    BY <1>5 DEF packet_rcv, x
  <2>2. mrp_should_drop(mrp, p, f.type) <=> mrp_should_drop(x, p, f.type)
    BY <1>2, Zenon DEF mrp_should_drop
  <2> DEFINE r == mrp_recv(x, p, f)
             e == IF /\ f.type = "IN_TEST" /\ f.id = mrp.in_id
                     /\ ~mrp_should_drop(mrp, p, f.type)
                  THEN "own_test" ELSE "frame"
  <2>3. Step(r, x) /\ (~mrp_should_drop(x, p, f.type) => Heard(r, x, f))
    BY <1>3, Received
  <2>4. e = "own_test" => /\ f.type = "IN_TEST" /\ f.id = mrp.in_id
                          /\ ~mrp_should_drop(mrp, p, f.type)
    OBVIOUS
  <2>5. e # "in_test"
    OBVIOUS
  <2>6. Callback(r, e)
    BY <2>1
  <2> HIDE DEF r, e
  <2>7. e = "own_test" /\ Watching(r) => r.in_test_curr = 0
    BY <1>2, <2>2, <2>3, <2>4 DEF Heard
  <2>. QED
    BY <1>1, <1>4, <2>3, <2>5, <2>6, <2>7, CallbackKeeps
<1>6. CASE netlink_listen
  <2>1. PICK up \in BOOLEAN : Callback(netlink_operstate(x, up), "link")
    BY <1>6 DEF netlink_listen, x
  <2>2. Step(netlink_operstate(x, up), mrp)
    BY <1>3, <1>4, OperState
  <2>. QED
    BY <1>1, <2>1, <2>2, CallbackKeeps
<1>7. CASE cfm_status
  <2>1. PICK defect \in BOOLEAN : Callback(mrp_cfm_link_change(x, defect), "link")
    BY <1>7 DEF cfm_status, x
  <2>2. Step(mrp_cfm_link_change(x, defect), mrp)
    BY Zenon, <1>3, <1>4, PortLink DEF mrp_cfm_link_change
  <2>. QED
    BY <1>1, <2>1, <2>2, CallbackKeeps
<1>8. CASE RingStep
  <2>1. PICK role \in {"MRC", "MRM"}, b \in BOOLEAN, B \in SUBSET RingPort, u \in SUBSET RingPort :
          Callback([x EXCEPT
                      !.ring_role = role, !.ring_topo_running = b,
                      !.state = [p \in Port |-> IF p = i_port THEN @[p]
                                   ELSE IF p \in B THEN "BLOCKED" ELSE "FORWARDING"],
                      !.up = (@ \cap {i_port}) \cup u],
                   "ring")
    BY Zenon, <1>8 DEF RingStep, x
  <2> DEFINE S == [p \in Port |-> IF p = i_port THEN x.state[p]
                                  ELSE IF p \in B THEN "BLOCKED" ELSE "FORWARDING"]
             U == (x.up \cap {i_port}) \cup u
             r == [x EXCEPT !.ring_role = role, !.ring_topo_running = b, !.state = S, !.up = U]
  <2>2. x \in InInstance /\ x.state \in [Port -> PortState] /\ x.up \subseteq Port
    BY <1>2, CoreTypes
  <2>3. S \in [Port -> PortState] /\ S[i_port] = x.state[i_port] /\ U \in SUBSET Port
    BY <2>2 DEF PortState, Port
  <2>4. Callback(r, "ring")
    BY <2>1, <2>2, Zenon DEF InInstance
  <2>5. Same(r, x)
    <3> HIDE DEF S, U, Same
    <3>. QED
      BY <2>2, <2>3, RingKeeps, Zenon
  <2> HIDE DEF r
  <2>6. Step(r, mrp)
    BY <1>3, <1>4, <2>5, SameIsStep
  <2>. QED
    BY <1>1, <2>4, <2>6, CallbackKeeps
<1>9. CASE in_test_work
  <2>1. Callback(mrp_in_test_expired(x), "in_test") /\ "in_test" \in x.timers
    BY <1>2, <1>9 DEF in_test_work, Expiry, x
  <2> DEFINE r == mrp_in_test_expired(x)
  <2>2. Expires(r, x)
    BY <1>3, <2>1, ManagerExpiry
  <2> HIDE DEF r
  <2>3. Expires(r, mrp)
    BY <1>2, <2>2 DEF Expires, Announces, Watching
  <2>4. Callback(r, "in_test")
    BY <2>1 DEF r
  <2>. QED
    BY <1>1, <2>3, <2>4, CallbackKeeps
<1>10. CASE in_topo_work
  <2>1. Callback(mrp_in_topo_expired(x), "in_topo") /\ "in_topo" \in x.timers
    BY <1>2, <1>10 DEF in_topo_work, Expiry, x
  <2>2. Step(mrp_in_topo_expired(x), mrp)
    BY <1>3, <1>4, <2>1, TopoExpiry
  <2>. QED
    BY <1>1, <2>1, <2>2, CallbackKeeps
<1>11. CASE in_link_up_work
  <2>1. Callback(mrp_in_link_up_expired(x), "in_link_up") /\ "in_link_up" \in x.timers
    BY <1>2, <1>11 DEF in_link_up_work, Expiry, x
  <2>2. Step(mrp_in_link_up_expired(x), mrp)
    BY <1>3, <1>4, <2>1, LinkUpExpiry
  <2>. QED
    BY <1>1, <2>1, <2>2, CallbackKeeps
<1>12. CASE in_link_down_work
  <2>1. Callback(mrp_in_link_down_expired(x), "in_link_down") /\ "in_link_down" \in x.timers
    BY <1>2, <1>12 DEF in_link_down_work, Expiry, x
  <2>2. Step(mrp_in_link_down_expired(x), mrp)
    BY <1>3, <1>4, <2>1, LinkDownExpiry
  <2>. QED
    BY <1>1, <2>1, <2>2, CallbackKeeps
<1>13. CASE in_link_status_work
  <2>1. /\ Callback(mrp_in_link_status_expired(x), "in_link_status")
        /\ "in_link_status" \in x.timers
    BY <1>2, <1>13 DEF in_link_status_work, Expiry, x
  <2>2. Step(mrp_in_link_status_expired(x), mrp)
    BY <1>3, <1>4, <2>1, StatusExpiry
  <2>. QED
    BY <1>1, <2>1, <2>2, CallbackKeeps
<1>14. CASE cfm_ccm_work
  <2>1. Callback(mrp_cfm_ccm_expired(x), "cfm_ccm") /\ "cfm_ccm" \in x.timers
    BY <1>2, <1>14 DEF cfm_ccm_work, Expiry, x
  <2>2. Step(mrp_cfm_ccm_expired(x), mrp)
    BY <1>3, <1>4, <2>1, CcmExpiry
  <2>. QED
    BY <1>1, <2>1, <2>2, CallbackKeeps
<1>15. CASE clear_fdb_work
  <2>1. Callback(mrp_clear_fdb_expired(x), "clear_fdb") /\ "clear_fdb" \in x.timers
    BY <1>2, <1>15 DEF clear_fdb_work, Expiry, x
  <2>2. Step(mrp_clear_fdb_expired(x), mrp)
    BY <1>3, <1>4, <2>1, ClearExpiry
  <2>. QED
    BY <1>1, <2>1, <2>2, CallbackKeeps
<1>16. CASE Destroy
  <2> DEFINE r == mrp_destroy(x)
  <2>1. /\ r \in InInstance /\ KeepsRole(r, x) /\ KeepsPort(r, x) /\ KeepsMim(r, x)
        /\ r.timers \subseteq IF x.in_mode = "RC" THEN {}
                              ELSE IF x.in_role # "DISABLED" THEN {"in_test"} ELSE {"cfm_ccm"}
    BY <1>3, Destroyed
  <2>2. mrp' = r /\ alive' = FALSE /\ silence' = silence
    BY <1>16 DEF Destroy, x
  <2>3. x.in_mode \in {"RC", "LC"}
    BY <1>2, CoreTypes
  <2> HIDE DEF r
  <2>4. TypeOK' /\ MimPort'
    <3>1. MimPort
      BY DEF InInv
    <3>2. MimPort'
      BY <1>2, <2>1, <2>2, <3>1 DEF MimPort
    <3>3. silence \in Nat
      BY DEF InInv, TypeOK
    <3>. QED
      BY <2>1, <2>2, <3>2, <3>3, Zenon DEF TypeOK
  <2>5. NothingElseOutlives'
    BY <2>1, <2>2, <2>3 DEF NothingElseOutlives
  <2>6. Announces(mrp', mrp)
    BY <1>2, <2>1, <2>2 DEF Announces
  <2>. QED
    BY <2>2, <2>4, <2>5, <2>6 DEF InInv
<1>. QED
  BY <1>5, <1>6, <1>7, <1>8, <1>9, <1>10, <1>11, <1>12, <1>13, <1>14, <1>15, <1>16 DEF Next

\* The inductive invariant: what Good says of a living instance, and the count of
\* unanswered tests, hold for every configuration and every frame that arrives.
THEOREM InInvariance == Spec => []InInv
<1>1. Init => InInv
  <2> SUFFICES ASSUME Init PROVE InInv
    OBVIOUS
  <2>1. PICK c \in Config, up \in SUBSET Port : mrp = mrp_add(c, up)
    BY DEF Init
  <2>2. /\ Good(mrp) /\ (Watching(mrp) /\ mrp.in_mode = "RC" => mrp.in_test_curr = 0)
    BY <2>1, Added, InNodeAssumption
  <2>3. alive = TRUE /\ silence = 0
    BY DEF Init
  <2>4. CountOK /\ MimPort /\ NothingElseOutlives
    BY <2>2, <2>3 DEF CountOK, MimPort, NothingElseOutlives, Good, MimOK
  <2>5. TypeOK
    BY <2>2, <2>3 DEF TypeOK, Good
  <2>. QED
    BY <2>2, <2>4, <2>5 DEF InInv
<1>2. InInv /\ [Next]_vars => InInv'
  <2>1. InInv /\ UNCHANGED vars => InInv'
    <3> SUFFICES ASSUME InInv, UNCHANGED vars PROVE InInv'
      OBVIOUS
    <3>1. mrp' = mrp /\ alive' = alive /\ silence' = silence
      BY DEF vars
    <3>2. TypeOK' /\ MimPort' /\ NothingElseOutlives'
      BY <3>1, Zenon DEF InInv, TypeOK, MimPort, NothingElseOutlives
    <3>3. alive' => Good(mrp)' /\ CountOK'
      BY <3>1, Zenon DEF InInv, CountOK
    <3>. QED
      BY <3>2, <3>3 DEF InInv
  <2>. QED
    BY <2>1, NextKeeps
<1>. QED
  BY <1>1, <1>2, PTL DEF Spec

\* Every field of an instance keeps its C type, and only frames of the protocol are sent.
THEOREM InTypeCorrect == Spec => []TypeOK
<1>1. InInv => TypeOK
  BY DEF InInv
<1>. QED
  BY <1>1, InInvariance, PTL

\* The port of a manager forwards exactly in CHK_IO, in both modes.
THEOREM MimPortHolds == Spec => []MimPort
<1>1. InInv => MimPort
  BY DEF InInv
<1>. QED
  BY <1>1, InInvariance, PTL

\* The port and the link timers of a client are those of its state, although the timer
\* handlers look at no state.
THEOREM MicPortHolds == Spec => []MicPort
<1>1. InInv => MicPort
  BY DEF InInv, MicPort, Good, MicOK
<1>. QED
  BY <1>1, InInvariance, PTL

\* A manager in RC mode with a link never stops probing.
THEOREM MimProbesHold == Spec => []MimProbes
<1>1. InInv => MimProbes
  BY DEF InInv, MimProbes, Good, MimOK
<1>. QED
  BY <1>1, InInvariance, PTL

\* mrp_timer_stop leaves no timer armed but the two named by the property.
THEOREM OutlivesHolds == Spec => []NothingElseOutlives
<1>1. InInv => NothingElseOutlives
  BY DEF InInv
<1>. QED
  BY <1>1, InInvariance, PTL

\* A manager in RC mode opens by timeout only after in_test_conf_max silent intervals,
\* whether its count was restarted or its limit raised meanwhile.
THEOREM InPatience == Spec => InOpensAfterSilence
<1> DEFINE A == mrp.in_mode = "RC" /\ Watching(mrp) /\ in_test_work /\ ~Watching(mrp') =>
                  silence + 1 >= in_test_conf_max
<1>1. InInv => A
  <2> SUFFICES ASSUME InInv, mrp.in_mode = "RC", Watching(mrp), in_test_work, ~Watching(mrp')
               PROVE  silence + 1 >= in_test_conf_max
    OBVIOUS
  <2> DEFINE x == Idle(mrp)
             r == mrp_in_test_expired(x)
  <2>1. mrp' = r /\ alive /\ "in_test" \in mrp.timers
    BY DEF in_test_work, Expiry, Callback
  <2>2. Good(mrp) /\ mrp \in InInstance /\ mrp.in_test_curr <= silence /\ silence \in Nat
    BY <2>1 DEF InInv, CountOK, TypeOK
  <2>3. Same(x, mrp)
    BY <2>2, IdleKeeps
  <2> HIDE DEF x
  <2>4. Good(x)
    BY <2>2, <2>3, SameIsStep DEF Step
  <2>5. Expires(r, x)
    BY <2>1, <2>3, <2>4, ManagerExpiry
  <2> HIDE DEF r
  <2>6. mrp.in_test_curr >= mrp.in_test_curr_max
    BY <2>1, <2>3, <2>5 DEF Expires, Watching
  <2>7. mrp.in_test_curr_max >= in_test_conf_max - 1
    BY <2>2 DEF Good
  <2>. QED
    BY SMTT(30), <2>2, <2>6, <2>7, CoreTypes, InConfAssumption
<1>2. InInv /\ [Next]_vars => [A]_vars
  BY <1>1
<1>. QED
  BY <1>2, InInvariance, PTL DEF Spec, InOpensAfterSilence

\* No callback opens or closes an interconnection without starting the announcement.
THEOREM InAnnounced == Spec => InChangeAnnounced
<1> DEFINE A == /\ mrp.in_role = "MIM"
                /\ {mrp.mim_state, mrp'.mim_state} = {"CHK_IO", "CHK_IC"}
                => "in_topo" \in mrp'.timers
<1>1. InInv /\ Next => A
  <2> SUFFICES ASSUME InInv, Next, {mrp.mim_state, mrp'.mim_state} = {"CHK_IO", "CHK_IC"}
               PROVE  "in_topo" \in mrp'.timers
    OBVIOUS
  <2>1. \/ mrp.mim_state = "CHK_IO" /\ mrp'.mim_state = "CHK_IC"
        \/ mrp.mim_state = "CHK_IC" /\ mrp'.mim_state = "CHK_IO"
    OBVIOUS
  <2>. QED
    BY <2>1, NextKeeps DEF Announces
<1>2. InInv /\ [Next]_vars => [A]_vars
  BY <1>1
<1>. QED
  BY <1>2, InInvariance, PTL DEF Spec, InChangeAnnounced

=============================================================================
