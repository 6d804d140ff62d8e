-------------------------- MODULE RingTimingProofs --------------------------
(***************************************************************************)
(* The recovery time of a ring, proved for every profile, any resolution   *)
(* of time that divides its intervals, and any number of link changes      *)
(* announced meanwhile.                                                    *)
(***************************************************************************)
EXTENDS RingTiming, TLAPS

\* A length of time that a clock of resolution Quantum measures.
Measured(t) == \E i \in Nat : t = i * Quantum

Short == ring_test_conf_short(ring_recv)

\* The profile is one of those that there are, and the clock measures its intervals.
ProfileInUse ==
    /\ ring_recv \in RingRecv
    /\ ring_test_conf_max = Conf.test_max /\ ring_topo_conf_max = Conf.topo_max
    /\ ring_topo_conf_interval = Conf.topo_interval
    /\ Quantum \in Nat \ {0}
    /\ Measured(Conf.test_interval) /\ Measured(Short) /\ Measured(Conf.topo_interval)

-----------------------------------------------------------------------------
(***************************************************************************)
(* Arithmetic.                                                             *)
(***************************************************************************)
\* The latest time at which the count of silent intervals reaches c.
Latest(c) == c * (Conf.test_interval + Short)

\* The profiles leave room for one postponed test in every interval.
LEMMA Profiles ==
    ASSUME ring_recv \in RingRecv
    PROVE  /\ Conf.test_interval \in Nat /\ Short \in Nat
           /\ Conf.topo_interval \in Nat \ {0} /\ Conf.test_max \in Nat \ {0}
           /\ Conf.topo_max = 3 /\ ring_recv \in Nat
           /\ Latest(0) = 0
           /\ \A c \in Nat : /\ Latest(c) \in Nat
                             /\ Latest(c + 1) = Latest(c) + Conf.test_interval + Short
                             /\ c <= Conf.test_max => Latest(c) <= Latest(Conf.test_max)
           /\ Latest(Conf.test_max) + 3 * Conf.topo_interval <= ring_recv * 1000
           /\ 3 * Conf.topo_interval < 1000 * 65536
<1>1. CASE ring_recv = 500
  BY <1>1 DEF Conf, Short, Latest, ring_recovery, ring_test_conf_short, Profile
<1>2. CASE ring_recv = 200
  BY <1>2 DEF Conf, Short, Latest, ring_recovery, ring_test_conf_short, Profile
<1>3. CASE ring_recv = 30
  BY <1>3 DEF Conf, Short, Latest, ring_recovery, ring_test_conf_short, Profile
<1>4. CASE ring_recv = 10
  BY <1>4 DEF Conf, Short, Latest, ring_recovery, ring_test_conf_short, Profile
<1>. QED
  BY <1>1, <1>2, <1>3, <1>4 DEF RingRecv

\* What the resolution of time is assumed to be.
LEMMA InUse ==
    ASSUME ring_recv \in RingRecv
    PROVE  ProfileInUse
<1>1. \A t \in Nat : Multiple(t, Quantum) => Measured(t)
  BY DEF Multiple, Measured
<1>2. /\ Multiple(Conf.test_interval, Quantum) /\ Multiple(Short, Quantum)
      /\ Multiple(Conf.topo_interval, Quantum) /\ Quantum \in Nat \ {0}
  BY ResolutionAssumption, Zenon DEF Conf, Short, Quantum
<1>3. Conf.test_interval \in Nat /\ Short \in Nat /\ Conf.topo_interval \in Nat
  BY Profiles
<1>4. /\ ring_test_conf_max = Conf.test_max /\ ring_topo_conf_max = Conf.topo_max
      /\ ring_topo_conf_interval = Conf.topo_interval
  BY Zenon DEF ring_test_conf_max, ring_topo_conf_max, ring_topo_conf_interval
<1>. QED
  BY <1>1, <1>2, <1>3, <1>4, Zenon DEF ProfileInUse

\* The limits that the handlers use are numbers.
LEMMA Limits ==
    ASSUME ring_recv \in RingRecv
    PROVE  ring_test_conf_max \in Nat \ {0} /\ ring_topo_conf_interval \in Nat \ {0}
BY Profiles DEF ring_test_conf_max, ring_topo_conf_interval

\* The clock does not step over an expiry.
LEMMA MeasuredStep ==
    ASSUME Quantum \in Nat \ {0}, NEW t, Measured(t)
    PROVE  t \in Nat /\ (t > 0 => t - Quantum \in Nat /\ Measured(t - Quantum))
<1>1. PICK i \in Nat : t = i * Quantum
  BY DEF Measured
<1>2. t \in Nat
  BY <1>1
<1>3. ASSUME t > 0 PROVE t - Quantum \in Nat /\ Measured(t - Quantum)
  <2>1. i # 0
    BY <1>1, <1>3
  <2>2. i - 1 \in Nat /\ t - Quantum = (i - 1) * Quantum
    BY <1>1, <2>1
  <2>3. (i - 1) * Quantum \in Nat
    BY <2>2
  <2>. QED
    BY <2>2, <2>3 DEF Measured
<1>. QED
  BY <1>2, <1>3

\* The interval that an announcement carries counts whole milliseconds.
LEMMA Milliseconds ==
    ASSUME NEW t \in Nat, t < 1000 * 65536
    PROVE  LET v == ToUInt16(t \div 1000) IN v \in Nat /\ 1000 * v <= t /\ 1000 * v + 1000 > t
<1>. DEFINE n == t \div 1000
<1>1. n \in Nat /\ 1000 * n <= t /\ 1000 * n + 1000 > t
  OBVIOUS
<1>. HIDE DEF n
<1>2. n < 65536 /\ Size16 = 65536
  BY <1>1 DEF Size16
<1>3. n % 65536 = n
  BY <1>1, <1>2
<1>4. ToUInt16(n) = n
  BY <1>2, <1>3 DEF ToUInt16
<1>. QED
  BY <1>1, <1>4 DEF n

-----------------------------------------------------------------------------
(***************************************************************************)
(* The manager, as far as time depends on it.                              *)
(***************************************************************************)
Field == {"ring_role", "mra_support", "blocked", "react_on_link_change", "operstate",
          "p_port", "s_port", "macaddr", "prio", "state", "mrm_state", "add_test", "no_tc",
          "ring_test_curr", "ring_test_curr_max", "ring_topo_curr_max", "ring_topo_running",
          "timers", "tx", "flushed"}

\* An EXCEPT on any of these fields takes effect.
HasFields(m) == Field \subseteq DOMAIN m

\* r and m differ at most in their timers, in what they emit and in their port states.
Alike(r, m) ==
    /\ HasFields(r)
    /\ r.ring_role = m.ring_role /\ r.mra_support = m.mra_support /\ r.blocked = m.blocked
    /\ r.react_on_link_change = m.react_on_link_change
    /\ r.operstate = m.operstate /\ r.p_port = m.p_port /\ r.s_port = m.s_port
    /\ r.mrm_state = m.mrm_state /\ r.add_test = m.add_test /\ r.no_tc = m.no_tc
    /\ r.ring_test_curr = m.ring_test_curr /\ r.ring_test_curr_max = m.ring_test_curr_max
    /\ r.ring_topo_curr_max = m.ring_topo_curr_max

\* The manager of an unbroken pair of links, probing.
Manager(m) ==
    /\ HasFields(m)
    /\ m.ring_role = "MRM" /\ m.mra_support = FALSE /\ m.blocked = TRUE /\ m.no_tc = FALSE
    /\ m.react_on_link_change \in BOOLEAN /\ m.add_test \in BOOLEAN
    /\ m.operstate[m.p_port] = "UP"
    /\ m.ring_test_curr_max = ring_test_conf_max - 1 /\ m.ring_test_curr \in Nat
    /\ "ring_test" \in m.timers

\* It considers the ring closed, has announced it, or has opened it and flushed.
Silent(m) ==
    /\ m.mrm_state = "CHK_RC" /\ "ring_topo" \notin m.timers
    /\ m.ring_test_curr <= m.ring_test_curr_max
    /\ m.ring_topo_curr_max = ring_topo_conf_max - 1
Announcing(m) ==
    m.mrm_state = "CHK_RO" /\ "ring_topo" \in m.timers /\ m.ring_topo_curr_max \in Nat
Done(m) == m.mrm_state = "CHK_RO" /\ "ring_topo" \notin m.timers

\* The time that is left: a silent interval may be prolonged once, by Short, and the
\* announcements follow each other at their interval.
SilentInTime ==
    clock + due.test <= Latest(mrp.ring_test_curr + 1) - (IF mrp.add_test THEN 0 ELSE Short)
AnnouncingInTime ==
    /\ opened <= Latest(Conf.test_max) /\ opened <= clock
    /\ clock + due.topo + mrp.ring_topo_curr_max * Conf.topo_interval
          = opened + 3 * Conf.topo_interval

\* The inductive invariant of a ring that recovers.
TimeInv ==
    /\ ring_recv \in RingRecv
    /\ Measured(due.test) /\ Measured(due.topo) /\ clock \in Nat /\ opened \in Nat
    /\ Manager(mrp)
    /\ \/ Silent(mrp) /\ recovered = FALSE /\ SilentInTime
       \/ Announcing(mrp) /\ recovered = FALSE /\ AnnouncingInTime
       \/ Done(mrp) /\ recovered = TRUE

-----------------------------------------------------------------------------
(***************************************************************************)
(* The requests.                                                           *)
(***************************************************************************)
\* A test is sent to the ring port that has a link, and its timer runs.
LEMMA TestRequest ==
    ASSUME NEW m, HasFields(m), m.operstate[m.p_port] = "UP"
    PROVE  LET r == mrp_ring_test_req(m)
           IN  /\ Alike(r, m) /\ r.timers = m.timers \cup {"ring_test"}
               /\ r.flushed = m.flushed /\ Sends(r, "RING_TEST")
               /\ \A e \in r.tx : e \in m.tx \/ e[2].type = "RING_TEST"
<1>. DEFINE f == [type |-> "RING_TEST", sa |-> m.macaddr, prio |-> m.prio]
            new == {<<p, f>> : p \in {q \in BothPorts(m) : m.operstate[q] = "UP"}}
            s == mrp_send(m, BothPorts(m), f)
            r == ev_timer_again(s, "ring_test")
<1>. SUFFICES /\ Alike(r, m) /\ r.timers = m.timers \cup {"ring_test"}
              /\ r.flushed = m.flushed /\ Sends(r, "RING_TEST")
              /\ \A e \in r.tx : e \in m.tx \/ e[2].type = "RING_TEST"
  BY Zenon DEF mrp_ring_test_req
<1>1. f.type = "RING_TEST"
  OBVIOUS
<1>2. <<m.p_port, f>> \in new
  BY Zenon DEF BothPorts
<1>3. \A e \in new : e[2] = f
  OBVIOUS
<1>. HIDE DEF f
<1>4. s = [m EXCEPT !.tx = @ \cup new]
  BY Zenon DEF mrp_send
<1>. HIDE DEF new, s
<1>5. Alike(s, m) /\ s.timers = m.timers /\ s.flushed = m.flushed /\ s.tx = m.tx \cup new
  BY <1>4, Zenon DEF Alike, HasFields, Field
<1>6. Alike(r, m) /\ r.timers = m.timers \cup {"ring_test"} /\ r.flushed = m.flushed /\ r.tx = s.tx
  BY <1>5, Zenon DEF Alike, HasFields, Field, ev_timer_again
<1>7. \A e \in r.tx : e \in m.tx \/ e[2].type = "RING_TEST"
  BY <1>1, <1>3, <1>5, <1>6, Zenon
<1>8. <<m.p_port, f>> \in r.tx /\ <<m.p_port, f>>[2].type = "RING_TEST"
  BY <1>1, <1>2, <1>3, <1>5, <1>6, Zenon
<1>9. Sends(r, "RING_TEST")
  BY <1>8, Zenon DEF Sends
<1>. QED
  BY <1>6, <1>7, <1>9, Zenon

\* An announcement carries its time.
LEMMA TopoSent ==
    ASSUME NEW m, HasFields(m), NEW time
    PROVE  LET r == mrp_ring_topo_send(m, time)
           IN  /\ Alike(r, m) /\ r.timers = m.timers /\ r.flushed = m.flushed
               /\ \A e \in r.tx : \/ e \in m.tx
                                  \/ /\ e[2].type = "RING_TOPO"
                                     /\ e[2].interval = ToUInt16(time \div 1000)
<1>. DEFINE v == ToUInt16(time \div 1000)
            f == [type |-> "RING_TOPO", sa |-> m.macaddr, interval |-> v]
            new == {<<p, f>> : p \in {q \in BothPorts(m) : m.operstate[q] = "UP"}}
            r == mrp_send(m, BothPorts(m), f)
<1>. SUFFICES /\ Alike(r, m) /\ r.timers = m.timers /\ r.flushed = m.flushed
              /\ \A e \in r.tx : e \in m.tx \/ (e[2].type = "RING_TOPO" /\ e[2].interval = v)
  BY DEF mrp_ring_topo_send
<1>. HIDE DEF v
<1>1. f.type = "RING_TOPO" /\ f.interval = v
  OBVIOUS
<1>2. \A e \in new : e[2] = f
  OBVIOUS
<1>. HIDE DEF f
<1>3. r = [m EXCEPT !.tx = @ \cup new]
  BY Zenon DEF mrp_send
<1>. HIDE DEF new, r
<1>4. Alike(r, m) /\ r.timers = m.timers /\ r.flushed = m.flushed /\ r.tx = m.tx \cup new
  BY <1>3, Zenon DEF Alike, HasFields, Field
<1>5. \A e \in r.tx : e \in m.tx \/ (e[2].type = "RING_TOPO" /\ e[2].interval = v)
  BY <1>1, <1>2, <1>4, Zenon
<1>. QED
  BY <1>4, <1>5, Zenon

\* A client's announcement makes the manager probe, once per interval.
LEMMA Probed ==
    ASSUME NEW m, HasFields(m), m.operstate[m.p_port] = "UP", m.add_test \in BOOLEAN, m.tx = {}
    PROVE  LET r == ProbeOnce(m)
           IN  /\ Alike(r, [m EXCEPT !.add_test = TRUE])
               /\ r.timers \in {m.timers, m.timers \cup {"ring_test"}} /\ r.flushed = m.flushed
               /\ Sends(r, "RING_TEST") <=> ~m.add_test
               /\ \A e \in r.tx : e[2].type = "RING_TEST"
<1>. DEFINE a == [m EXCEPT !.add_test = TRUE]
            q == mrp_ring_test_req(a)
            r == ProbeOnce(m)
<1>. SUFFICES /\ Alike(r, a)
              /\ r.timers \in {m.timers, m.timers \cup {"ring_test"}} /\ r.flushed = m.flushed
              /\ Sends(r, "RING_TEST") <=> ~m.add_test
              /\ \A e \in r.tx : e[2].type = "RING_TEST"
  BY Zenon
<1>1. /\ HasFields(a) /\ a.operstate[a.p_port] = "UP" /\ a.add_test = TRUE
      /\ a.timers = m.timers /\ a.flushed = m.flushed /\ a.tx = m.tx
  BY Zenon DEF HasFields, Field
<1>2. CASE m.add_test
  <2>1. r = m
    BY <1>2, Zenon DEF ProbeOnce
  <2>2. Alike(m, a)
    BY <1>2, Zenon DEF HasFields, Field, Alike
  <2>3. ~Sends(m, "RING_TEST")
    BY DEF Sends
  <2>. QED
    BY <1>2, <2>1, <2>2, <2>3, Zenon
<1>3. CASE ~m.add_test
  <2>1. r = q
    BY <1>3, Zenon DEF ProbeOnce
  <2>. HIDE DEF a
  <2>2. /\ Alike(q, a) /\ q.timers = a.timers \cup {"ring_test"}
        /\ q.flushed = a.flushed /\ Sends(q, "RING_TEST")
        /\ \A e \in q.tx : e \in a.tx \/ e[2].type = "RING_TEST"
    BY <1>1, TestRequest, Zenon
  <2>. HIDE DEF q, r
  <2>. QED
    BY <1>1, <1>3, <2>1, <2>2, Zenon
<1>. QED
  BY <1>2, <1>3

-----------------------------------------------------------------------------
(***************************************************************************)
(* The callbacks.                                                          *)
(***************************************************************************)
\* A manager without new limits stays one.
LEMMA StaysManager ==
    ASSUME NEW m, NEW r, Manager(m), Alike(r, m), "ring_test" \in r.timers
    PROVE  Manager(r)
BY Zenon DEF Manager, Alike

\* An interval passes in silence.
LEMMA Counted ==
    ASSUME ring_recv \in RingRecv, NEW m, Manager(m), m.tx = {}, m.mrm_state = "CHK_RC",
           m.ring_test_curr < m.ring_test_curr_max
    PROVE  LET r == mrp_ring_test_expired(m)
           IN  /\ Manager(r) /\ r.timers = m.timers /\ r.mrm_state = "CHK_RC"
               /\ r.add_test = FALSE /\ r.ring_test_curr = m.ring_test_curr + 1
               /\ r.ring_topo_curr_max = m.ring_topo_curr_max
               /\ Sends(r, "RING_TEST")
<1>. DEFINE n == m.ring_test_curr + 1
            a == [m EXCEPT !.ring_test_curr = n, !.add_test = FALSE]
            r == mrp_ring_test_req(a)
<1>1. n \in Nat /\ ~(m.ring_test_curr >= m.ring_test_curr_max)
  BY Limits DEF Manager
<1>2. mrp_ring_test_expired(m) = r
  <2>1. mrp_ring_test_expired(m) = mrp_mrm_ring_test_expired(m)
    BY Zenon DEF mrp_ring_test_expired, Manager
  <2>2. mrp_mrm_ring_test_expired(m) = r
    BY <1>1, Zenon DEF mrp_mrm_ring_test_expired
  <2>. QED
    BY <2>1, <2>2, Zenon
<1>. HIDE DEF n
<1>3. /\ Manager(a) /\ a.timers = m.timers /\ a.mrm_state = "CHK_RC"
      /\ a.add_test = FALSE /\ a.ring_test_curr = n
      /\ a.ring_topo_curr_max = m.ring_topo_curr_max
  BY <1>1, Zenon DEF Manager, HasFields, Field
<1>. HIDE DEF a
<1>4. Alike(r, a) /\ r.timers = a.timers \cup {"ring_test"} /\ Sends(r, "RING_TEST")
  BY <1>3, TestRequest, Zenon DEF Manager
<1>. HIDE DEF r
<1>5. "ring_test" \in a.timers /\ "ring_test" \in r.timers
  BY <1>3, <1>4, Zenon DEF Manager
<1>6. r.timers = m.timers
  BY <1>3, <1>4, <1>5
<1>7. Manager(r)
  BY <1>3, <1>4, <1>5, StaysManager, Zenon
<1>8. /\ r.mrm_state = "CHK_RC" /\ r.add_test = FALSE /\ r.ring_test_curr = n
      /\ r.ring_topo_curr_max = m.ring_topo_curr_max
  BY <1>3, <1>4, Zenon DEF Alike
<1>. QED
  BY <1>2, <1>4, <1>6, <1>7, <1>8, Zenon DEF n

\* The manager of an open ring goes on probing.
LEMMA ProbedOpen ==
    ASSUME NEW m, Manager(m), m.tx = {}, m.mrm_state = "CHK_RO"
    PROVE  LET r == mrp_ring_test_expired(m)
           IN  /\ Manager(r) /\ r.timers = m.timers /\ r.mrm_state = "CHK_RO"
               /\ r.ring_topo_curr_max = m.ring_topo_curr_max /\ r.flushed = m.flushed
               /\ \A e \in r.tx : e[2].type = "RING_TEST"
<1>. DEFINE a == [m EXCEPT !.add_test = FALSE]
            r == mrp_ring_test_req(a)
<1>1. mrp_ring_test_expired(m) = r
  <2>1. mrp_ring_test_expired(m) = mrp_mrm_ring_test_expired(m)
    BY Zenon DEF mrp_ring_test_expired, Manager
  <2>2. mrp_mrm_ring_test_expired(m) = r
    BY Zenon DEF mrp_mrm_ring_test_expired
  <2>. QED
    BY <2>1, <2>2, Zenon
<1>2. /\ Manager(a) /\ a.timers = m.timers /\ a.mrm_state = "CHK_RO"
      /\ a.ring_topo_curr_max = m.ring_topo_curr_max /\ a.flushed = m.flushed /\ a.tx = {}
  BY Zenon DEF Manager, HasFields, Field
<1>. HIDE DEF a
<1>3. /\ Alike(r, a) /\ r.timers = a.timers \cup {"ring_test"} /\ r.flushed = a.flushed
      /\ \A e \in r.tx : e \in a.tx \/ e[2].type = "RING_TEST"
  BY <1>2, TestRequest, Zenon DEF Manager
<1>. HIDE DEF r
<1>4. "ring_test" \in a.timers /\ "ring_test" \in r.timers
  BY <1>2, <1>3, Zenon DEF Manager
<1>5. r.timers = m.timers
  BY <1>2, <1>3, <1>4
<1>6. Manager(r)
  BY <1>2, <1>3, <1>4, StaysManager, Zenon
<1>7. /\ r.mrm_state = "CHK_RO" /\ r.ring_topo_curr_max = m.ring_topo_curr_max
      /\ r.flushed = m.flushed /\ \A e \in r.tx : e[2].type = "RING_TEST"
  BY <1>2, <1>3, Zenon DEF Alike
<1>. QED
  BY <1>1, <1>5, <1>6, <1>7, Zenon

\* The last interval passes: the ring is opened, and the opening is announced.
LEMMA Opened ==
    ASSUME ring_recv \in RingRecv, NEW m, Manager(m), m.tx = {}, m.mrm_state = "CHK_RC",
           m.ring_test_curr >= m.ring_test_curr_max
    PROVE  LET r == mrp_ring_test_expired(m)
           IN  /\ Manager(r) /\ r.mrm_state = "CHK_RO" /\ "ring_topo" \in r.timers
               /\ r.ring_topo_curr_max = m.ring_topo_curr_max /\ r.flushed = m.flushed
               /\ \A e \in r.tx : e[2].type = "RING_TOPO" => e[2].interval
                     = ToUInt16((ring_topo_conf_interval * ring_topo_conf_max) \div 1000)
<1>. DEFINE v == ToUInt16((ring_topo_conf_interval * ring_topo_conf_max) \div 1000)
            p == mrp_port_set_state(m, m.s_port, "FORWARDING")
            c == RestartCount(p)
            a == [c EXCEPT !.add_test = FALSE]
            time == ring_topo_conf_interval * ring_topo_conf_max
            t == mrp_ring_topo_send(a, time)
            s == mrp_ring_topo_start(t)
            q == mrp_ring_test_req(s)
            r == mrp_set_mrm_state(q, "CHK_RO")
<1>1. mrp_ring_test_expired(m) = r
  <2>1. mrp_ring_test_expired(m) = mrp_mrm_ring_test_expired(m)
    BY Zenon DEF mrp_ring_test_expired, Manager
  <2>2. ~(m.ring_test_curr < m.ring_test_curr_max)
    BY Limits DEF Manager
  <2>3. mrp_mrm_ring_test_expired(m) = OpenRing(m)
    BY <2>2, Zenon DEF mrp_mrm_ring_test_expired
  <2>4. ring_topo_conf_interval # 0
    BY Limits
  <2>5. m.no_tc = FALSE
    BY Zenon DEF Manager
  <2>6. mrp_ring_topo_req(a, ring_topo_conf_interval) = s
    <3>. HIDE DEF a, time
    <3>. QED
      BY <2>4, Zenon DEF mrp_ring_topo_req, time
  <2>7. OpenRing(m) = r
    <3>. HIDE DEF s
    <3>. QED
      BY <2>5, <2>6, Zenon DEF OpenRing
  <2>. QED
    BY <2>1, <2>3, <2>7, Zenon
<1>. HIDE DEF r
<1>. SUFFICES /\ Manager(r) /\ r.mrm_state = "CHK_RO" /\ "ring_topo" \in r.timers
              /\ r.ring_topo_curr_max = m.ring_topo_curr_max /\ r.flushed = m.flushed
              /\ \A e \in r.tx : e[2].type = "RING_TOPO" => e[2].interval = v
  BY <1>1
<1>. USE DEF r
<1>2. Manager(p) /\ Alike(p, m) /\ p.tx = {} /\ p.flushed = m.flushed /\ p.timers = m.timers
  BY Zenon DEF Manager, Alike, HasFields, Field, mrp_port_set_state
<1>. HIDE DEF p
<1>3. /\ Manager(c) /\ c.tx = {} /\ c.flushed = m.flushed
      /\ c.ring_topo_curr_max = m.ring_topo_curr_max
  <2>1. 0 \in Nat
    OBVIOUS
  <2>. DEFINE limit == ring_test_conf_max - 1
  <2>2. c = [p EXCEPT !.ring_test_curr_max = limit, !.ring_test_curr = 0]
    BY Zenon DEF RestartCount
  <2>3. m.ring_test_curr_max = limit
    BY Zenon DEF Manager
  <2>. HIDE DEF c, limit
  <2>4. /\ HasFields(c) /\ c.ring_role = p.ring_role /\ c.mra_support = p.mra_support
        /\ c.blocked = p.blocked /\ c.react_on_link_change = p.react_on_link_change
        /\ c.operstate = p.operstate /\ c.p_port = p.p_port
        /\ c.mrm_state = p.mrm_state /\ c.add_test = p.add_test /\ c.no_tc = p.no_tc
        /\ c.ring_test_curr = 0 /\ c.ring_test_curr_max = limit
        /\ c.ring_topo_curr_max = p.ring_topo_curr_max /\ c.timers = p.timers
        /\ c.tx = p.tx /\ c.flushed = p.flushed
    BY <1>2, <2>2, Zenon DEF Alike, HasFields, Field
  <2>. QED
    BY <1>2, <2>1, <2>4, Zenon DEF Manager, Alike, limit
<1>. HIDE DEF c
<1>4. /\ Manager(a) /\ a.tx = {} /\ a.flushed = m.flushed
      /\ a.ring_topo_curr_max = m.ring_topo_curr_max
  BY <1>3, Zenon DEF Manager, HasFields, Field
<1>. HIDE DEF a, time
<1>5. /\ Alike(t, a) /\ t.timers = a.timers /\ t.flushed = a.flushed
      /\ \A e \in t.tx : e[2].type = "RING_TOPO" => e[2].interval = v
  <2>. DEFINE w == ToUInt16(time \div 1000)
  <2>1. w = v
    BY DEF time
  <2>2. HasFields(a)
    BY <1>4, Zenon DEF Manager
  <2>3. /\ Alike(t, a) /\ t.timers = a.timers /\ t.flushed = a.flushed
        /\ \A e \in t.tx : e \in a.tx \/ (e[2].type = "RING_TOPO" /\ e[2].interval = w)
    BY <2>2, TopoSent
  <2>. HIDE DEF v, w, t
  <2>. QED
    BY <1>4, <2>1, <2>3, Zenon
<1>. HIDE DEF v, t
<1>6. /\ Alike(s, t) /\ s.timers = t.timers \cup {"ring_topo"} /\ s.flushed = t.flushed
      /\ s.tx = t.tx
  BY <1>5, Zenon DEF Alike, HasFields, Field, mrp_ring_topo_start, ev_timer_again
<1>. HIDE DEF s
<1>7. Alike(s, a) /\ Manager(s) /\ "ring_topo" \in s.timers
  <2>1. Alike(s, a)
    BY <1>5, <1>6, Zenon DEF Alike
  <2>2. "ring_test" \in s.timers /\ "ring_topo" \in s.timers
    BY <1>4, <1>5, <1>6, Zenon DEF Manager
  <2>. QED
    BY <1>4, <2>1, <2>2, StaysManager, Zenon
<1>8. /\ Alike(q, s) /\ q.timers = s.timers \cup {"ring_test"} /\ q.flushed = s.flushed
      /\ \A e \in q.tx : e \in s.tx \/ e[2].type = "RING_TEST"
  BY <1>7, TestRequest, Zenon DEF Manager
<1>. HIDE DEF q
<1>9. "ring_test" \in q.timers /\ "ring_topo" \in q.timers
  BY <1>7, <1>8, Zenon
<1>10. Manager(q)
  BY <1>7, <1>8, <1>9, StaysManager, Zenon
<1>11. /\ Manager(r) /\ r.mrm_state = "CHK_RO" /\ r.timers = q.timers /\ r.flushed = q.flushed
       /\ r.tx = q.tx /\ r.ring_topo_curr_max = q.ring_topo_curr_max
  BY <1>10, Zenon DEF Manager, HasFields, Field, mrp_set_mrm_state
<1>. HIDE DEF r
<1>12. r.flushed = m.flushed /\ r.ring_topo_curr_max = m.ring_topo_curr_max
  <2>1. r.ring_topo_curr_max = s.ring_topo_curr_max /\ r.flushed = s.flushed
    BY <1>8, <1>11, Zenon DEF Alike
  <2>2. s.ring_topo_curr_max = a.ring_topo_curr_max /\ s.flushed = a.flushed
    BY <1>5, <1>6, <1>7, Zenon DEF Alike
  <2>. QED
    BY <1>4, <2>1, <2>2, Zenon
<1>13. "RING_TEST" # "RING_TOPO"
  OBVIOUS
<1>14. \A e \in r.tx : e[2].type = "RING_TOPO" => e[2].interval = v
  BY <1>5, <1>6, <1>8, <1>11, <1>13, Zenon
<1>. QED
  <2>1. "ring_topo" \in r.timers
    BY <1>9, <1>11, Zenon
  <2>. QED
    BY <2>1, <1>11, <1>12, <1>14, Zenon

\* The opening is announced once more, with the time that is left.
LEMMA AnnouncedAgain ==
    ASSUME NEW m, Manager(m), m.tx = {}, m.ring_topo_curr_max \in Nat, m.ring_topo_curr_max > 0
    PROVE  LET r == mrp_ring_topo_expired(m)
           IN  /\ Manager(r) /\ r.timers = m.timers /\ r.mrm_state = m.mrm_state
               /\ r.ring_topo_curr_max = m.ring_topo_curr_max - 1 /\ r.flushed = m.flushed
               /\ \A e \in r.tx : e[2].type = "RING_TOPO" => e[2].interval
                     = ToUInt16((m.ring_topo_curr_max * ring_topo_conf_interval) \div 1000)
<1>. DEFINE time == m.ring_topo_curr_max * ring_topo_conf_interval
            v == ToUInt16(time \div 1000)
            t == mrp_ring_topo_send(m, time)
            n == t.ring_topo_curr_max - 1
            r == [t EXCEPT !.ring_topo_curr_max = n]
<1>1. mrp_ring_topo_expired(m) = r
  BY DEF mrp_ring_topo_expired
<1>. HIDE DEF r
<1>. SUFFICES /\ Manager(r) /\ r.timers = m.timers /\ r.mrm_state = m.mrm_state
              /\ r.ring_topo_curr_max = m.ring_topo_curr_max - 1 /\ r.flushed = m.flushed
              /\ \A e \in r.tx : e[2].type = "RING_TOPO" => e[2].interval = v
  BY <1>1
<1>. USE DEF r
<1>2. HasFields(m)
  BY Zenon DEF Manager
<1>. HIDE DEF time
<1>3. /\ Alike(t, m) /\ t.timers = m.timers /\ t.flushed = m.flushed
      /\ \A e \in t.tx : e \in m.tx \/ (e[2].type = "RING_TOPO" /\ e[2].interval = v)
  BY <1>2, TopoSent
<1>. HIDE DEF v, t
<1>4. n = m.ring_topo_curr_max - 1
  BY <1>3 DEF Alike
<1>. HIDE DEF n
<1>5. Manager(t)
  <2>1. "ring_test" \in t.timers
    BY <1>3, Zenon DEF Manager
  <2>. QED
    BY <1>3, <2>1, StaysManager, Zenon
<1>6. /\ Manager(r) /\ r.timers = t.timers /\ r.mrm_state = t.mrm_state
      /\ r.ring_topo_curr_max = n /\ r.flushed = t.flushed /\ r.tx = t.tx
  BY <1>5, Zenon DEF Manager, HasFields, Field
<1>. HIDE DEF r
<1>7. r.timers = m.timers /\ r.mrm_state = m.mrm_state /\ r.flushed = m.flushed
  BY <1>3, <1>6, Zenon DEF Alike
<1>8. \A e \in r.tx : e[2].type = "RING_TOPO" => e[2].interval = v
  BY <1>3, <1>6, Zenon
<1>9. r.ring_topo_curr_max = m.ring_topo_curr_max - 1
  BY <1>4, <1>6
<1>. QED
  BY <1>6, <1>7, <1>8, <1>9, Zenon

\* The last announcement comes with the flush.
LEMMA Flushed ==
    ASSUME NEW m, Manager(m), m.tx = {}, m.ring_topo_curr_max = 0
    PROVE  LET r == mrp_ring_topo_expired(m)
           IN  /\ Manager(r) /\ r.mrm_state = m.mrm_state /\ "ring_topo" \notin r.timers
               /\ r.flushed = TRUE
<1>. DEFINE n == ring_topo_conf_max - 1
            a == [m EXCEPT !.ring_topo_curr_max = n]
            b == ifdriver_flush(a)
            t == mrp_ring_topo_send(b, 0)
            s == ev_timer_stop(t, "ring_topo")
            r == [s EXCEPT !.ring_topo_running = FALSE]
<1>1. mrp_ring_topo_expired(m) = r
  <2>1. ~(m.ring_topo_curr_max > 0)
    OBVIOUS
  <2>2. mrp_ring_topo_expired(m) = mrp_ring_topo_stop(t)
    <3>. HIDE DEF t
    <3>. QED
      BY <2>1, Zenon DEF mrp_ring_topo_expired, t
  <2>. QED
    BY <2>2, Zenon DEF mrp_ring_topo_stop
<1>. HIDE DEF n
<1>2. Manager(a) /\ a.mrm_state = m.mrm_state /\ a.timers = m.timers
  BY Zenon DEF Manager, HasFields, Field
<1>. HIDE DEF a
<1>3. Manager(b) /\ b.mrm_state = m.mrm_state /\ b.timers = m.timers /\ b.flushed = TRUE
  BY <1>2, Zenon DEF Manager, HasFields, Field, ifdriver_flush
<1>. HIDE DEF b
<1>4. Alike(t, b) /\ t.timers = b.timers /\ t.flushed = b.flushed
  <2>1. HasFields(b)
    BY <1>3, Zenon DEF Manager
  <2>. QED
    BY <2>1, TopoSent
<1>. HIDE DEF t
<1>5. Alike(s, t) /\ s.timers = t.timers \ {"ring_topo"} /\ s.flushed = t.flushed
  BY <1>4, Zenon DEF Alike, HasFields, Field, ev_timer_stop
<1>. HIDE DEF s
<1>6. Alike(r, s) /\ r.timers = s.timers /\ r.flushed = s.flushed
  BY <1>5, Zenon DEF Alike, HasFields, Field
<1>. HIDE DEF r
<1>7. Alike(r, b) /\ r.timers = m.timers \ {"ring_topo"} /\ r.flushed = TRUE
  <2>1. Alike(r, t)
    BY <1>5, <1>6, Zenon DEF Alike
  <2>2. Alike(r, b)
    BY <1>4, <2>1, Zenon DEF Alike
  <2>. QED
    BY <1>3, <1>4, <1>5, <1>6, <2>2, Zenon
<1>8. "ring_test" \in r.timers /\ "ring_topo" \notin r.timers
  <2>1. "ring_test" \in m.timers
    BY Zenon DEF Manager
  <2>. QED
    BY <1>7, <2>1
<1>9. Manager(r)
  BY <1>3, <1>7, <1>8, StaysManager, Zenon
<1>10. r.mrm_state = m.mrm_state
  BY <1>3, <1>7, Zenon DEF Alike
<1>. QED
  BY <1>1, <1>7, <1>8, <1>9, <1>10, Zenon

\* A client's announcement is dropped at a disabled port, or acted on.
LEMMA LinkReceived ==
    ASSUME NEW m, Manager(m), m.tx = {}, NEW p, NEW f \in LinkFrame
    PROVE  \/ mrp_recv(m, p, f) = m
           \/ \E s : /\ Manager(s) /\ Alike(s, m) /\ s.tx = {}
                     /\ s.timers = m.timers /\ s.flushed = m.flushed
                     /\ mrp_recv(m, p, f) = mrp_recv_ring_link(s, f.type)
<1>. DEFINE s == mrp_check_and_forward(m, p, f)
<1>1. f.type \in {"RING_LINK_UP", "RING_LINK_DOWN"}
  BY DEF LinkFrame
<1>2. mrp_should_process(m, f.type) = TRUE
  BY Zenon, <1>1 DEF mrp_should_process, Manager
<1>3. Alike(s, m) /\ s.timers = m.timers /\ s.flushed = m.flushed /\ s.tx = {}
  <2>1. ForwardPorts(m, p, f.type) = {}
    BY Zenon DEF ForwardPorts, Manager
  <2>. DEFINE new == {<<q, f>> : q \in {q \in {} : m.operstate[q] = "UP"}}
  <2>2. new = {} /\ m.tx \cup {} = {}
    OBVIOUS
  <2>3. s = [m EXCEPT !.tx = m.tx \cup new]
    BY <2>1, Zenon DEF mrp_check_and_forward, mrp_send
  <2>. HIDE DEF new, s
  <2>4. s = [m EXCEPT !.tx = {}]
    BY <2>2, <2>3, Zenon
  <2>. QED
    BY <2>4, Zenon DEF Manager, Alike, HasFields, Field
<1>4. Manager(s)
  <2>. HIDE DEF s
  <2>1. "ring_test" \in s.timers
    BY <1>3, Zenon DEF Manager
  <2>. QED
    BY <1>3, <2>1, StaysManager, Zenon
<1>5. mrp_process(s, f) = mrp_recv_ring_link(s, f.type)
  <2>. HIDE DEF s
  <2>. QED
    BY <1>1 DEF mrp_process
<1>6. mrp_recv(m, p, f) = m \/ mrp_recv(m, p, f) = mrp_process(s, f)
  <2>. HIDE DEF s
  <2>1. mrp_process_frame(m, p, f) = mrp_process(s, f)
    BY <1>2, Zenon DEF mrp_process_frame, s
  <2>. QED
    BY <2>1, Zenon DEF mrp_recv
<1>. QED
  <2>. HIDE DEF s
  <2>. QED
    BY <1>3, <1>4, <1>5, <1>6, Zenon

\* A probe on behalf of a client leaves the announcements and the counts alone.
LEMMA ProbedOnce ==
    ASSUME NEW m, Manager(m), m.tx = {}
    PROVE  LET r == ProbeOnce(m)
           IN  /\ Manager(r) /\ r.timers = m.timers /\ r.mrm_state = m.mrm_state
               /\ r.add_test = TRUE /\ (Sends(r, "RING_TEST") <=> ~m.add_test)
               /\ r.ring_test_curr = m.ring_test_curr
               /\ r.ring_topo_curr_max = m.ring_topo_curr_max /\ r.flushed = m.flushed
               /\ \A e \in r.tx : e[2].type = "RING_TEST"
<1>. DEFINE a == [m EXCEPT !.add_test = TRUE]
            r == ProbeOnce(m)
<1>1. /\ Alike(r, a)
      /\ r.timers \in {m.timers, m.timers \cup {"ring_test"}} /\ r.flushed = m.flushed
      /\ Sends(r, "RING_TEST") <=> ~m.add_test
      /\ \A e \in r.tx : e[2].type = "RING_TEST"
  BY Probed, Zenon DEF Manager
<1>2. /\ Manager(a) /\ a.mrm_state = m.mrm_state /\ a.add_test = TRUE
      /\ a.ring_test_curr = m.ring_test_curr /\ a.ring_topo_curr_max = m.ring_topo_curr_max
  BY Zenon DEF Manager, HasFields, Field
<1>. HIDE DEF a, r
<1>3. "ring_test" \in m.timers
  BY Zenon DEF Manager
<1>4. r.timers = m.timers
  BY Zenon, <1>1, <1>3
<1>5. Manager(r)
  BY <1>1, <1>2, <1>3, <1>4, StaysManager, Zenon
<1>6. /\ r.mrm_state = m.mrm_state /\ r.add_test = TRUE
      /\ r.ring_test_curr = m.ring_test_curr /\ r.ring_topo_curr_max = m.ring_topo_curr_max
  BY <1>1, <1>2, Zenon DEF Alike
<1>. QED
  BY <1>1, <1>4, <1>5, <1>6, Zenon DEF r

\* A link change announced to the manager of an open ring.
LEMMA LinkWhileOpen ==
    ASSUME NEW m, Manager(m), m.tx = {}, m.mrm_state = "CHK_RO", NEW p, NEW f \in LinkFrame
    PROVE  LET r == mrp_recv(m, p, f)
           IN  /\ Manager(r) /\ r.timers = m.timers /\ r.mrm_state = "CHK_RO"
               /\ r.ring_topo_curr_max = m.ring_topo_curr_max /\ r.flushed = m.flushed
               /\ \A e \in r.tx : e[2].type = "RING_TEST"
<1>. DEFINE r == mrp_recv(m, p, f)
<1>1. CASE r = m
  BY <1>1, Zenon
<1>2. CASE r # m
  <2>1. PICK s : /\ Manager(s) /\ Alike(s, m) /\ s.tx = {}
                 /\ s.timers = m.timers /\ s.flushed = m.flushed
                 /\ r = mrp_recv_ring_link(s, f.type)
    BY <1>2, LinkReceived, Zenon
  <2>. HIDE DEF r
  <2>2. s.mrm_state = "CHK_RO" /\ s.ring_topo_curr_max = m.ring_topo_curr_max /\ s.blocked
    BY <2>1, Zenon DEF Alike, Manager
  <2>3. r = ProbeOnce(s)
    <3>1. r = mrp_recv_ring_link_CHK_RO(s, f.type)
      BY <2>1, <2>2 DEF mrp_recv_ring_link
    <3>. QED
      BY <2>2, <3>1, Zenon DEF mrp_recv_ring_link_CHK_RO
  <2>4. /\ Manager(r) /\ r.timers = s.timers /\ r.mrm_state = s.mrm_state
        /\ r.ring_topo_curr_max = s.ring_topo_curr_max /\ r.flushed = s.flushed
        /\ \A e \in r.tx : e[2].type = "RING_TEST"
    <3>1. Manager(s) /\ s.tx = {}
      BY <2>1, Zenon
    <3>. QED
      BY <2>3, <3>1, ProbedOnce, ZenonT(30)
  <2>. QED
    BY <2>1, <2>2, <2>4, Zenon DEF r
<1>. QED
  BY <1>1, <1>2, Zenon

\* One announced to the manager of a ring it considers closed: it may probe, it may flush,
\* and if it reacts on link changes it opens the ring and flushes.
LEMMA LinkWhileSilent ==
    ASSUME NEW m, Manager(m), m.tx = {}, Silent(m), NEW p, NEW f \in LinkFrame
    PROVE  LET r == mrp_recv(m, p, f)
           IN  /\ Manager(r)
               /\ \/ /\ Silent(r) /\ r.ring_test_curr = m.ring_test_curr
                     /\ \/ r.add_test = m.add_test /\ ~Sends(r, "RING_TEST")
                        \/ m.add_test = FALSE /\ r.add_test = TRUE /\ Sends(r, "RING_TEST")
                  \/ Done(r) /\ r.flushed = TRUE
<1>. DEFINE r == mrp_recv(m, p, f)
<1>1. CASE r = m
  <2>1. ~Sends(m, "RING_TEST")
    BY DEF Sends
  <2>. QED
    BY <1>1, <2>1, Zenon
<1>2. CASE r # m
  <2>0. \/ r = m
        \/ \E s : /\ Manager(s) /\ Alike(s, m) /\ s.tx = {}
                  /\ s.timers = m.timers /\ s.flushed = m.flushed
                  /\ r = mrp_recv_ring_link(s, f.type)
    BY LinkReceived, Zenon
  <2>. HIDE DEF r
  <2>1. PICK s : /\ Manager(s) /\ Alike(s, m) /\ s.tx = {}
                 /\ s.timers = m.timers /\ s.flushed = m.flushed
                 /\ r = mrp_recv_ring_link(s, f.type)
    BY <1>2, <2>0, Zenon
  <2>. HIDE DEF r
  <2>2. Silent(s) /\ s.ring_test_curr = m.ring_test_curr /\ s.add_test = m.add_test
    BY <2>1, Zenon DEF Alike, Silent
  <2>3. r = mrp_recv_ring_link_CHK_RC(s, f.type)
    <3>1. s.mrm_state = "CHK_RC"
      BY <2>2, Zenon DEF Silent
    <3>. QED
      BY <2>1, <3>1 DEF mrp_recv_ring_link
  <2>4. HasFields(s) /\ s.blocked /\ s.react_on_link_change \in BOOLEAN /\ s.add_test \in BOOLEAN
    BY <2>1, Zenon DEF Manager
  <2>5. CASE ~s.react_on_link_change
    <3>1. r = ProbeOnce(s)
      BY <2>3, <2>4, <2>5, Zenon DEF mrp_recv_ring_link_CHK_RC
    <3>2. /\ Manager(r) /\ r.timers = s.timers /\ r.mrm_state = s.mrm_state
          /\ r.add_test = TRUE /\ (Sends(r, "RING_TEST") <=> ~s.add_test)
          /\ r.ring_test_curr = s.ring_test_curr
          /\ r.ring_topo_curr_max = s.ring_topo_curr_max
      <4>1. Manager(s) /\ s.tx = {}
        BY <2>1, Zenon
      <4>. QED
        BY <3>1, <4>1, ProbedOnce, Zenon
    <3>3. r.ring_test_curr_max = s.ring_test_curr_max
      BY <2>1, <3>2, Zenon DEF Manager
    <3>4. Silent(r)
      BY <2>2, <3>2, <3>3, Zenon DEF Silent
    <3>5. CASE s.add_test
      BY <2>2, <3>2, <3>4, <3>5, Zenon DEF r
    <3>6. CASE ~s.add_test
      BY <2>2, <2>4, <3>2, <3>4, <3>6, Zenon DEF r
    <3>. QED
      BY Zenon, <3>5, <3>6
  <2>6. CASE s.react_on_link_change /\ f.type = "RING_LINK_UP"
    <3>. DEFINE limit == ring_test_conf_max - 1
                a == [s EXCEPT !.ring_test_curr_max = limit]
                t == mrp_ring_topo_send(a, 0 * ring_topo_conf_max)
                u == ifdriver_flush(t)
    <3>1. r = u
      <4>1. r = mrp_ring_topo_req(a, 0)
        BY <2>3, <2>6 DEF mrp_recv_ring_link_CHK_RC
      <4>. HIDE DEF a
      <4>. QED
        BY <4>1 DEF mrp_ring_topo_req
    <3>2. s.ring_test_curr_max = limit
      BY <2>1, Zenon DEF Manager
    <3>. HIDE DEF limit
    <3>3. Alike(a, s) /\ a.timers = s.timers /\ a.tx = {}
      BY <2>1, <2>4, <3>2, Zenon DEF Alike, HasFields, Field
    <3>. HIDE DEF a
    <3>4. /\ Alike(t, a) /\ t.timers = a.timers
          /\ \A e \in t.tx : e \in a.tx \/ e[2].type = "RING_TOPO"
      <4>1. HasFields(a)
        BY <3>3, Zenon DEF Alike
      <4>. QED
        BY <4>1, TopoSent
    <3>. HIDE DEF t
    <3>5. Alike(u, t) /\ u.timers = t.timers /\ u.tx = t.tx
      BY <3>4, Zenon DEF Alike, HasFields, Field, ifdriver_flush
    <3>. HIDE DEF u
    <3>6. Alike(u, s)
      <4>1. Alike(u, a)
        BY <3>4, <3>5, Zenon DEF Alike
      <4>. QED
        BY <3>3, <4>1, Zenon DEF Alike
    <3>7. Manager(u)
      <4>1. "ring_test" \in u.timers
        BY <2>1, <3>3, <3>4, <3>5, Zenon DEF Manager
      <4>. QED
        BY <2>1, <3>6, <4>1, StaysManager, Zenon
    <3>8. Silent(u) /\ u.ring_test_curr = s.ring_test_curr /\ u.add_test = s.add_test
      BY <2>2, <3>3, <3>4, <3>5, <3>6, Zenon DEF Alike, Silent
    <3>9. ~Sends(u, "RING_TEST")
      <4>1. \A e \in u.tx : e[2].type = "RING_TOPO"
        BY <3>3, <3>4, <3>5, Zenon
      <4>. QED
        BY <4>1 DEF Sends
    <3>. QED
      BY <2>2, <3>1, <3>7, <3>8, <3>9, Zenon DEF r
  <2>7. CASE s.react_on_link_change /\ f.type = "RING_LINK_DOWN"
    <3>. DEFINE a == mrp_port_set_state(s, s.s_port, "FORWARDING")
                t == mrp_ring_topo_send(a, 0 * ring_topo_conf_max)
                u == ifdriver_flush(t)
                w == mrp_set_mrm_state(u, "CHK_RO")
    <3>1. r = w
      <4>1. r = mrp_set_mrm_state(mrp_ring_topo_req(a, 0), "CHK_RO")
        BY <2>3, <2>7 DEF mrp_recv_ring_link_CHK_RC
      <4>. HIDE DEF a
      <4>2. mrp_ring_topo_req(a, 0) = u
        BY DEF mrp_ring_topo_req
      <4>. QED
        BY <4>1, <4>2, Zenon
    <3>2. Alike(a, s) /\ a.timers = s.timers
      BY <2>4, Zenon DEF Alike, HasFields, Field, mrp_port_set_state
    <3>. HIDE DEF a
    <3>3. Alike(t, a) /\ t.timers = a.timers
      <4>1. HasFields(a)
        BY <3>2, Zenon DEF Alike
      <4>. QED
        BY <4>1, TopoSent
    <3>. HIDE DEF t
    <3>4. Alike(u, t) /\ u.timers = t.timers /\ u.flushed = TRUE
      BY <3>3, Zenon DEF Alike, HasFields, Field, ifdriver_flush
    <3>. HIDE DEF u
    <3>5. Manager(u)
      <4>1. Alike(u, a)
        BY <3>3, <3>4, Zenon DEF Alike
      <4>2. Alike(u, s)
        BY <3>2, <4>1, Zenon DEF Alike
      <4>3. "ring_test" \in u.timers
        BY <2>1, <3>2, <3>3, <3>4, Zenon DEF Manager
      <4>. QED
        BY <2>1, <4>2, <4>3, StaysManager, Zenon
    <3>6. Manager(w) /\ w.mrm_state = "CHK_RO" /\ w.timers = u.timers /\ w.flushed = u.flushed
      BY <3>5, Zenon DEF Manager, HasFields, Field, mrp_set_mrm_state
    <3>. HIDE DEF w
    <3>7. Done(w)
      BY <2>2, <3>2, <3>3, <3>4, <3>6, Zenon DEF Done, Silent
    <3>. QED
      BY <3>1, <3>4, <3>6, <3>7, Zenon DEF r
  <2>8. f.type \in {"RING_LINK_UP", "RING_LINK_DOWN"}
    BY DEF LinkFrame
  <2>. QED
    BY <2>5, <2>6, <2>7, <2>8, Zenon
<1>. QED
  BY <1>1, <1>2, Zenon

-----------------------------------------------------------------------------
(***************************************************************************)
(* The manager when the ring breaks.                                       *)
(***************************************************************************)
\* A manager that has announced nothing yet.
Fresh(m) ==
    /\ HasFields(m)
    /\ m.mra_support = FALSE /\ m.blocked = TRUE
    /\ m.react_on_link_change \in BOOLEAN /\ m.add_test = FALSE
    /\ m.p_port = 1 /\ m.s_port = 2
    /\ m.ring_topo_curr_max = ring_topo_conf_max - 1
    /\ "ring_topo" \notin m.timers

\* A request does not make it announce anything.
LEMMA StaysFresh ==
    ASSUME NEW m, NEW r, Fresh(m), Alike(r, m), "ring_topo" \notin r.timers
    PROVE  Fresh(r)
BY Zenon DEF Fresh, Alike

\* Its first link makes it probe.
LEMMA FirstLink ==
    ASSUME NEW m, Fresh(m), m.ring_role = "MRM", m.mrm_state = "AC_STAT1",
           m.operstate = [q \in RingPort |-> "UNKNOWN"]
    PROVE  LET r == mrp_port_link_change(m, 1, TRUE)
           IN  /\ Fresh(r) /\ r.ring_role = "MRM" /\ r.mrm_state = "PRM_UP"
               /\ r.operstate \in [RingPort -> {"UNKNOWN", "UP"}] /\ r.operstate[1] = "UP"
<1>. DEFINE o == [m.operstate EXCEPT ![1] = "UP"]
            a == [m EXCEPT !.operstate = o]
            b == mrp_port_set_state(a, 1, "FORWARDING")
            q == mrp_ring_test_req(b)
            r == mrp_set_mrm_state(q, "PRM_UP")
<1>1. o \in [RingPort -> {"UNKNOWN", "UP"}] /\ o[1] = "UP"
  BY DEF RingPort
<1>. HIDE DEF o
<1>2. /\ Fresh(a) /\ a.ring_role = "MRM" /\ a.mrm_state = "AC_STAT1" /\ a.operstate = o
      /\ a.p_port = 1
  BY Zenon DEF Fresh, HasFields, Field
<1>3. mrp_port_link_change(m, 1, TRUE) = r
  <2>1. mrp_port_link_change(m, 1, TRUE) = mrp_mrm_port_link(a, 1, TRUE)
    BY Zenon DEF mrp_port_link_change, o
  <2>. HIDE DEF a
  <2>2. Promote(a, 1) = a
    BY <1>2, Zenon DEF Promote
  <2>3. mrp_mrm_port_link(a, 1, TRUE)
          = mrp_set_mrm_state(
                mrp_ring_test_req(mrp_port_set_state(Promote(a, 1), 1, "FORWARDING")), "PRM_UP")
    BY <1>2 DEF mrp_mrm_port_link
  <2>. QED
    BY <2>1, <2>2, <2>3, Zenon
<1>. HIDE DEF a
<1>4. /\ Fresh(b) /\ b.ring_role = "MRM" /\ b.operstate = o
  BY <1>2, Zenon DEF Fresh, HasFields, Field, mrp_port_set_state
<1>. HIDE DEF b
<1>5. Alike(q, b) /\ q.timers = b.timers \cup {"ring_test"}
  <2>1. HasFields(b) /\ b.operstate[b.p_port] = "UP"
    BY <1>1, <1>4, Zenon DEF Fresh
  <2>. QED
    BY <2>1, TestRequest, Zenon
<1>. HIDE DEF q
<1>6. Fresh(q) /\ q.ring_role = "MRM" /\ q.operstate = o
  <2>1. "ring_topo" \notin q.timers
    <3>1. "ring_topo" \notin b.timers
      BY <1>4, Zenon DEF Fresh
    <3>. QED
      BY <1>5, <3>1
  <2>2. Fresh(q)
    BY <1>4, <1>5, <2>1, StaysFresh, Zenon
  <2>. QED
    BY <1>4, <1>5, <2>2, Zenon DEF Alike
<1>7. Fresh(r) /\ r.ring_role = "MRM" /\ r.operstate = o /\ r.mrm_state = "PRM_UP"
  BY <1>6, Zenon DEF Fresh, HasFields, Field, mrp_set_mrm_state
<1>. HIDE DEF r
<1>. QED
  BY <1>1, <1>3, <1>7, Zenon

\* Its second link makes it watch the ring.
LEMMA SecondLink ==
    ASSUME ring_recv \in RingRecv,
           NEW m, Fresh(m), m.ring_role = "MRM", m.mrm_state = "PRM_UP",
           m.operstate \in [RingPort -> {"UNKNOWN", "UP"}], m.operstate[1] = "UP"
    PROVE  LET r == mrp_port_link_change(m, 2, TRUE)
           IN  Manager(r) /\ Silent(r) /\ r.add_test = FALSE /\ r.ring_test_curr = 0
<1>. DEFINE o == [m.operstate EXCEPT ![2] = "UP"]
            a == [m EXCEPT !.operstate = o]
            limit == ring_test_conf_max - 1
            c == [a EXCEPT !.ring_test_curr_max = limit, !.ring_test_curr = 0]
            b == [c EXCEPT !.no_tc = TRUE]
            q == mrp_ring_test_req(b)
            r == mrp_set_mrm_state(q, "CHK_RC")
<1>1. o[1] = "UP" /\ 1 # 2 /\ 0 \in Nat /\ limit \in Nat /\ 0 <= limit
  BY Limits DEF RingPort
<1>. HIDE DEF o
<1>2. /\ Fresh(a) /\ a.ring_role = "MRM" /\ a.mrm_state = "PRM_UP" /\ a.operstate = o
      /\ a.p_port = 1
  BY Zenon DEF Fresh, HasFields, Field
<1>3. mrp_port_link_change(m, 2, TRUE) = r
  <2>1. mrp_port_link_change(m, 2, TRUE) = mrp_mrm_port_link(a, 2, TRUE)
    BY Zenon DEF mrp_port_link_change, o
  <2>. HIDE DEF a
  <2>2. mrp_mrm_port_link(a, 2, TRUE)
          = mrp_set_mrm_state(
                mrp_ring_test_req([RestartCount(a) EXCEPT !.no_tc = TRUE]), "CHK_RC")
    BY <1>2 DEF mrp_mrm_port_link
  <2>3. RestartCount(a) = c
    BY Zenon DEF RestartCount
  <2>. HIDE DEF c
  <2>. QED
    BY <2>1, <2>2, <2>3, Zenon
<1>. HIDE DEF a, limit
<1>4. /\ Fresh(c) /\ c.ring_role = "MRM" /\ c.operstate = o
      /\ c.ring_test_curr_max = limit /\ c.ring_test_curr = 0
  BY <1>2, Zenon DEF Fresh, HasFields, Field
<1>. HIDE DEF c
<1>5. /\ Fresh(b) /\ b.ring_role = "MRM" /\ b.operstate = o
      /\ b.ring_test_curr_max = limit /\ b.ring_test_curr = 0
  BY <1>4, Zenon DEF Fresh, HasFields, Field
<1>. HIDE DEF b
<1>6. Alike(q, b) /\ q.timers = b.timers \cup {"ring_test"}
  <2>1. HasFields(b) /\ b.operstate[b.p_port] = "UP"
    BY <1>1, <1>5, Zenon DEF Fresh
  <2>. QED
    BY <2>1, TestRequest, Zenon
<1>. HIDE DEF q
<1>7. Fresh(q) /\ "ring_test" \in q.timers
  <2>1. "ring_topo" \notin b.timers
    BY <1>5, Zenon DEF Fresh
  <2>2. "ring_topo" \notin q.timers /\ "ring_test" \in q.timers
    BY <1>6, <2>1
  <2>. QED
    BY <1>5, <1>6, <2>2, StaysFresh, Zenon
<1>8. /\ q.ring_role = "MRM" /\ q.operstate = o
      /\ q.ring_test_curr_max = limit /\ q.ring_test_curr = 0
  BY <1>5, <1>6, Zenon DEF Alike
<1>9. /\ Fresh(r) /\ r.ring_role = "MRM" /\ r.operstate = o /\ r.mrm_state = "CHK_RC"
      /\ r.no_tc = FALSE /\ r.ring_test_curr_max = limit /\ r.ring_test_curr = 0
      /\ "ring_test" \in r.timers
  BY <1>7, <1>8, Zenon DEF Fresh, HasFields, Field, mrp_set_mrm_state
<1>. HIDE DEF r
<1>10. Manager(r)
  <2>1. r.add_test \in BOOLEAN
    BY <1>9, Zenon DEF Fresh
  <2>. QED
    BY <1>1, <1>9, <2>1, Zenon DEF Fresh, Manager, limit
<1>11. Silent(r)
  BY <1>1, <1>9, Zenon DEF Fresh, Silent
<1>12. r.add_test = FALSE
  BY <1>9, Zenon DEF Fresh
<1>. QED
  BY <1>3, <1>9, <1>10, <1>11, <1>12, Zenon

\* addmrp with both links up.
LEMMA Added ==
    ASSUME ring_recv \in RingRecv, NEW react \in BOOLEAN
    PROVE  LET c == [ring_role |-> "MRM", macaddr |-> 1, prio |-> 128,
                     react_on_link_change |-> react, in_role |-> "DISABLED"]
               r == mrp_add(c, RingPort)
           IN  Manager(r) /\ Silent(r) /\ r.add_test = FALSE /\ r.ring_test_curr = 0
<1>. DEFINE c == [ring_role |-> "MRM", macaddr |-> 1, prio |-> 128,
                  react_on_link_change |-> react, in_role |-> "DISABLED"]
            o == [q \in RingPort |-> "UNKNOWN"]
            d == [q \in RingPort |-> "BLOCKED"]
            limit == ring_topo_conf_max - 1
            m == mrp_create(c)
            a == mrp_timer_stop(m)
            b == [a EXCEPT !.mrm_state = "AC_STAT1", !.mrc_state = "AC_STAT1"]
            e == mrp_set_mrm_init(b)
            g == mrp_set_mrm_state(e, "AC_STAT1")
            shut == [g EXCEPT !.state = d, !.ring_role = "MRM"]
            first == mrp_port_link_change(shut, 1, TRUE)
            r == mrp_port_link_change(first, 2, TRUE)
<1>1. /\ HasFields(m) /\ m.mra_support = FALSE /\ m.blocked = TRUE
      /\ m.react_on_link_change = react /\ m.p_port = 1 /\ m.s_port = 2
      /\ m.ring_topo_curr_max = limit /\ m.operstate = o
  <2>. HIDE DEF o, limit
  <2>. QED
    BY DEF mrp_create, HasFields, Field, o, limit
<1>2. c.ring_role = "MRM" /\ 1 \in RingPort /\ 2 \in RingPort
  BY DEF RingPort
<1>3. mrp_add(c, RingPort) = mrp_set_mrm_role(m, RingPort)
  <2>. HIDE DEF c
  <2>. QED
    BY <1>2 DEF mrp_add
<1>. HIDE DEF m, o, d, limit
<1>4. /\ HasFields(a) /\ a.mra_support = FALSE /\ a.blocked = TRUE
      /\ a.react_on_link_change = react /\ a.p_port = 1 /\ a.s_port = 2
      /\ a.ring_topo_curr_max = limit /\ a.operstate = o /\ a.timers = {}
  BY <1>1, Zenon DEF HasFields, Field, mrp_timer_stop
<1>5. mrp_reset_ring_state(m) = b
  BY Zenon DEF mrp_reset_ring_state
<1>. HIDE DEF a
<1>6. /\ HasFields(b) /\ b.mra_support = FALSE /\ b.blocked = TRUE
      /\ b.react_on_link_change = react /\ b.p_port = 1 /\ b.s_port = 2
      /\ b.ring_topo_curr_max = limit /\ b.operstate = o /\ b.timers = {}
  BY <1>4, Zenon DEF HasFields, Field
<1>. HIDE DEF b
<1>7. /\ HasFields(e) /\ e.mra_support = FALSE /\ e.blocked = TRUE /\ e.add_test = FALSE
      /\ e.react_on_link_change = react /\ e.p_port = 1 /\ e.s_port = 2
      /\ e.ring_topo_curr_max = limit /\ e.operstate = o /\ e.timers = {}
  BY <1>6, Zenon DEF HasFields, Field, mrp_set_mrm_init
<1>. HIDE DEF e
<1>8. Fresh(g) /\ g.operstate = o /\ g.mrm_state = "AC_STAT1"
  <2>1. /\ HasFields(g) /\ g.mra_support = FALSE /\ g.blocked = TRUE /\ g.add_test = FALSE
        /\ g.react_on_link_change = react /\ g.p_port = 1 /\ g.s_port = 2
        /\ g.ring_topo_curr_max = limit /\ g.operstate = o /\ g.timers = {}
        /\ g.mrm_state = "AC_STAT1"
    BY <1>7, Zenon DEF HasFields, Field, mrp_set_mrm_state
  <2>. HIDE DEF g
  <2>2. "ring_topo" \notin g.timers
    BY <2>1
  <2>. QED
    BY <2>1, <2>2, Zenon DEF Fresh, limit
<1>9. /\ Fresh(shut) /\ shut.operstate = o /\ shut.mrm_state = "AC_STAT1"
      /\ shut.ring_role = "MRM"
  <2>. HIDE DEF g
  <2>. QED
    BY <1>8, Zenon DEF Fresh, HasFields, Field
<1>10. /\ Fresh(first) /\ first.ring_role = "MRM" /\ first.mrm_state = "PRM_UP"
       /\ first.operstate \in [RingPort -> {"UNKNOWN", "UP"}] /\ first.operstate[1] = "UP"
  <2>. HIDE DEF shut
  <2>. QED
    BY <1>9, FirstLink, Zenon DEF o
<1>11. Manager(r) /\ Silent(r) /\ r.add_test = FALSE /\ r.ring_test_curr = 0
  <2>. HIDE DEF first
  <2>. QED
    BY <1>10, SecondLink, Zenon
<1>12. mrp_set_mrm_role(m, RingPort) = r
  <2>1. mrp_set_mrm_role(m, RingPort) = StartRole(g, "MRM", RingPort)
    BY <1>5, Zenon DEF mrp_set_mrm_role, e, g
  <2>2. g.p_port = 1 /\ first.s_port = 2
    BY <1>8, <1>10, Zenon DEF Fresh
  <2>. HIDE DEF g
  <2>3. StartRole(g, "MRM", RingPort) = r
    BY <1>2, <2>2, Zenon DEF StartRole, d
  <2>. QED
    BY <2>1, <2>3, Zenon
<1>. QED
  <2>. HIDE DEF r, c
  <2>. QED
    BY <1>3, <1>11, <1>12, Zenon DEF c

\* A test frame of its own starts the count again.
LEMMA SeenClosed ==
    ASSUME NEW m, Manager(m), Silent(m), m.add_test = FALSE, m.ring_test_curr = 0, NEW p,
           NEW f, f.type = "RING_TEST"
    PROVE  LET r == mrp_recv(m, p, f)
           IN  Manager(r) /\ Silent(r) /\ r.add_test = FALSE /\ r.ring_test_curr = 0
<1>. DEFINE s == mrp_check_and_forward(m, p, f)
            r == mrp_recv(m, p, f)
            limit == ring_test_conf_max - 1
            c == [s EXCEPT !.ring_test_curr_max = limit, !.ring_test_curr = 0]
            b == [c EXCEPT !.no_tc = FALSE]
<1>1. Alike(s, m) /\ s.timers = m.timers
  BY Zenon DEF Manager, Alike, HasFields, Field, mrp_check_and_forward, mrp_send
<1>2. r \in {m, s, b}
  <2>1. mrp_should_process(m, f.type) = TRUE
    BY DEF mrp_should_process, Manager
  <2>2. r = m \/ r = mrp_process(s, f)
    <3>. HIDE DEF s
    <3>1. mrp_process_frame(m, p, f) = mrp_process(s, f)
      BY <2>1, Zenon DEF mrp_process_frame, s
    <3>. QED
      BY <3>1, Zenon DEF mrp_recv
  <2>. HIDE DEF s
  <2>3. mrp_process(s, f) = mrp_recv_ring_test(s, f)
    BY DEF mrp_process
  <2>4. s.mra_support = FALSE /\ s.mrm_state = "CHK_RC"
    BY <1>1, Zenon DEF Alike, Manager, Silent
  <2>5. mrp_recv_ring_test(s, f) \in {s, mrp_mrm_recv_ring_test(s)}
    BY <2>4, Zenon DEF mrp_recv_ring_test
  <2>6. RestartCount(s) = c
    BY Zenon DEF RestartCount
  <2>. HIDE DEF c
  <2>7. mrp_mrm_recv_ring_test(s) = b
    BY <2>4, <2>6 DEF mrp_mrm_recv_ring_test
  <2>. HIDE DEF b, r
  <2>. QED
    BY <2>2, <2>3, <2>5, <2>7, Zenon
<1>. HIDE DEF s, r
<1>3. Manager(s) /\ Silent(s) /\ s.add_test = FALSE /\ s.ring_test_curr = 0
  <2>1. "ring_test" \in s.timers
    BY <1>1, Zenon DEF Manager
  <2>2. Manager(s)
    BY <1>1, <2>1, StaysManager, Zenon
  <2>. QED
    BY <1>1, <2>2, Zenon DEF Alike, Silent
<1>4. s.ring_test_curr_max = limit
  BY <1>3, Zenon DEF Manager
<1>. HIDE DEF limit
<1>5. Alike(c, s) /\ c.timers = s.timers
  BY <1>3, <1>4, Zenon DEF Alike, HasFields, Field, Manager
<1>. HIDE DEF c
<1>6. Alike(b, c) /\ b.timers = c.timers
  <2>1. c.no_tc = FALSE
    BY <1>3, <1>5, Zenon DEF Alike, Manager
  <2>. QED
    BY <1>5, <2>1, Zenon DEF Alike, HasFields, Field
<1>. HIDE DEF b
<1>7. Manager(b) /\ Silent(b) /\ b.add_test = FALSE /\ b.ring_test_curr = 0
  <2>1. Alike(b, s) /\ b.timers = s.timers
    BY <1>5, <1>6, Zenon DEF Alike
  <2>2. "ring_test" \in b.timers
    BY <1>3, <2>1, Zenon DEF Manager
  <2>3. Manager(b)
    BY <1>3, <2>1, <2>2, StaysManager, Zenon
  <2>. QED
    BY <1>3, <2>1, <2>3, Zenon DEF Alike, Silent
<1>. QED
  BY <1>2, <1>3, <1>7, Zenon DEF r

\* What Idle discards, the time left does not depend on.
LEMMA IdleManager ==
    ASSUME NEW m, Manager(m)
    PROVE  LET r == Idle(m)
           IN  Manager(r) /\ Alike(r, m) /\ r.timers = m.timers /\ r.tx = {} /\ r.flushed = FALSE
BY Zenon DEF Idle, Manager, Alike, HasFields, Field

-----------------------------------------------------------------------------
(***************************************************************************)
(* The invariant.                                                          *)
(***************************************************************************)
\* It holds when the ring breaks.
LEMMA TimeInit ==
    ASSUME ProfileInUse, Init
    PROVE  TimeInv /\ ClientsFlushInTime
<1>. DEFINE f == [type |-> "RING_TEST", sa |-> 1, prio |-> 128]
            c(react) == [ring_role |-> "MRM", macaddr |-> 1, prio |-> 128,
                         react_on_link_change |-> react, in_role |-> "DISABLED"]
<1>1. PICK react \in BOOLEAN : mrp = Idle(mrp_recv(mrp_add(c(react), RingPort), 1, f))
  BY Zenon DEF Init
<1>. DEFINE a == mrp_add(c(react), RingPort)
            m == mrp_recv(a, 1, f)
<1>2. Manager(a) /\ Silent(a) /\ a.add_test = FALSE /\ a.ring_test_curr = 0
  BY Added, Zenon DEF ProfileInUse
<1>. HIDE DEF a
<1>3. f.type = "RING_TEST"
  OBVIOUS
<1>. HIDE DEF f
<1>4. Manager(m) /\ Silent(m) /\ m.add_test = FALSE /\ m.ring_test_curr = 0
  BY <1>2, <1>3, SeenClosed, Zenon
<1>5. mrp = Idle(m)
  BY <1>1, Zenon DEF a
<1>. HIDE DEF m
<1>6. Manager(mrp) /\ Alike(mrp, m) /\ mrp.timers = m.timers /\ mrp.tx = {}
  BY <1>4, <1>5, IdleManager, Zenon
<1>7. Silent(mrp) /\ mrp.add_test = FALSE /\ mrp.ring_test_curr = 0
  BY <1>4, <1>6, Zenon DEF Alike, Silent
<1>8. /\ due.test = Conf.test_interval /\ due.topo = Conf.topo_interval
      /\ clock = 0 /\ opened = 0 /\ recovered = FALSE
  BY DEF Init
<1>9. SilentInTime
  <2>1. /\ Conf.test_interval \in Nat /\ Short \in Nat /\ Latest(0) = 0
        /\ Latest(0 + 1) = Latest(0) + Conf.test_interval + Short
    BY Profiles DEF ProfileInUse
  <2>. QED
    BY <1>7, <1>8, <2>1 DEF SilentInTime
<1>10. Measured(due.test) /\ Measured(due.topo)
  BY <1>8, Zenon DEF ProfileInUse
<1>11. clock \in Nat /\ opened \in Nat
  BY <1>8
<1>12. ClientsFlushInTime
  BY <1>6 DEF ClientsFlushInTime
<1>. QED
  BY <1>6, <1>7, <1>8, <1>9, <1>10, <1>11, <1>12, Zenon DEF TimeInv, ProfileInUse

\* The profile does not change, and so what is true of the new manager is true of it then.
LEMMA Frozen ==
    ASSUME ring_recv' = ring_recv, NEW m, mrp' = m
    PROVE  /\ Conf' = Conf /\ Short' = Short /\ Quantum' = Quantum
           /\ Manager(m) => Manager(mrp)'
           /\ Silent(m) => Silent(mrp)'
<1>1. Conf' = Conf
  BY Zenon DEF Conf
<1>2. Short' = Short /\ Quantum' = Quantum
  BY Zenon DEF Short, Quantum
<1>3. ring_test_conf_max' = ring_test_conf_max /\ ring_topo_conf_max' = ring_topo_conf_max
  BY <1>1, Zenon DEF ring_test_conf_max, ring_topo_conf_max
<1>4. Manager(m) => Manager(mrp)'
  BY <1>3, Zenon DEF Manager
<1>5. Silent(m) => Silent(mrp)'
  BY <1>3, Zenon DEF Silent
<1>. QED
  BY <1>1, <1>2, <1>4, <1>5

\* What every callback does to the clocks.
LEMMA Clocks ==
    ASSUME ProfileInUse, TimeInv, NEW m, NEW event, Callback(m, event)
    PROVE  /\ mrp' = m /\ clock' = clock /\ clock \in Nat
           /\ ring_recv' = ring_recv /\ Conf' = Conf
           /\ opened' = IF Open(m) /\ ~Open(mrp) THEN clock ELSE opened
           /\ opened \in Nat /\ opened' \in Nat
           /\ recovered' = (recovered \/ (Open(m) /\ m.flushed))
           /\ due'.test = IF Sends(m, "RING_TEST") THEN TestInterval(event) ELSE due.test
           /\ due'.topo = IF event = "ring_topo" \/ "ring_topo" \notin mrp.timers
                          THEN Conf.topo_interval ELSE due.topo
           /\ Measured(due.test)' /\ Measured(due.topo)'
           /\ due.test \in Nat /\ due.topo \in Nat
<1>1. /\ mrp' = m /\ clock' = clock /\ ring_recv' = ring_recv
      /\ opened' = IF Open(m) /\ ~Open(mrp) THEN clock ELSE opened
      /\ recovered' = (recovered \/ (Open(m) /\ m.flushed))
  BY Zenon DEF Callback
<1>2. /\ due'.test = IF Sends(m, "RING_TEST") THEN TestInterval(event) ELSE due.test
      /\ due'.topo = IF event = "ring_topo" \/ "ring_topo" \notin mrp.timers
                     THEN Conf.topo_interval ELSE due.topo
  BY DEF Callback
<1>3. Measured(due.test) /\ Measured(due.topo) /\ clock \in Nat /\ opened \in Nat
  BY Zenon DEF TimeInv
<1>4. Measured(TestInterval(event)) /\ Measured(Conf.topo_interval)
  BY Zenon DEF TestInterval, ProfileInUse, Short
<1>5. Measured(due'.test) /\ Measured(due'.topo)
  BY <1>2, <1>3, <1>4, Zenon
<1>6. Measured(due.test)' /\ Measured(due.topo)' /\ Conf' = Conf
  <2>1. Quantum' = Quantum /\ Conf' = Conf
    BY <1>1, Frozen, Zenon
  <2>. QED
    BY <1>5, <2>1 DEF Measured
<1>7. due.test \in Nat /\ due.topo \in Nat
  BY <1>3, MeasuredStep DEF ProfileInUse
<1>8. opened' \in Nat
  BY <1>1, <1>3
<1>. QED
  BY <1>1, <1>2, <1>3, <1>6, <1>7, <1>8, Zenon

\* Time passes.
LEMMA TickStep ==
    ASSUME ProfileInUse, TimeInv, Tick
    PROVE  TimeInv' /\ ClientsFlushInTime'
<1>1. /\ mrp' = Idle(mrp) /\ clock' = clock + Quantum /\ opened' = opened
      /\ ring_recv' = ring_recv /\ ring_recv \in RingRecv
      /\ recovered' = recovered /\ recovered = FALSE
  BY DEF Tick, TimeInv
<1>2. Manager(mrp) /\ "ring_test" \in mrp.timers
  BY Zenon DEF TimeInv, Manager
<1>3. Manager(mrp') /\ Alike(mrp', mrp) /\ mrp'.timers = mrp.timers /\ mrp'.tx = {}
  BY <1>1, <1>2, IdleManager, Zenon
<1>. /\ Conf' = Conf /\ Short' = Short /\ Quantum' = Quantum /\ Manager(mrp)'
     /\ Silent(mrp') => Silent(mrp)'
  BY <1>1, <1>3, Frozen, Zenon
<1>4. /\ due.test > 0 /\ due'.test = due.test - Quantum
      /\ due'.topo = IF "ring_topo" \in mrp.timers THEN due.topo - Quantum ELSE due.topo
      /\ "ring_topo" \in mrp.timers => due.topo > 0
  BY <1>2 DEF Tick
<1>5. /\ due.test \in Nat /\ due.topo \in Nat /\ due'.test \in Nat /\ due'.topo \in Nat
      /\ Measured(due'.test) /\ Measured(due'.topo)
      /\ Quantum \in Nat /\ clock \in Nat /\ opened \in Nat
  <2>1. Measured(due.test) /\ Measured(due.topo) /\ clock \in Nat /\ opened \in Nat
    BY Zenon DEF TimeInv
  <2>2. Quantum \in Nat \ {0}
    BY DEF ProfileInUse
  <2>3. due'.test \in Nat /\ Measured(due'.test) /\ due.test \in Nat
    BY <1>4, <2>1, <2>2, MeasuredStep
  <2>4. due'.topo \in Nat /\ Measured(due'.topo) /\ due.topo \in Nat
    BY <1>4, <2>1, <2>2, MeasuredStep
  <2>. QED
    BY <2>1, <2>2, <2>3, <2>4
<1>6. Measured(due.test)' /\ Measured(due.topo)'
  BY Zenon, <1>5 DEF Measured
<1>7. CASE Silent(mrp) /\ SilentInTime
  <2>1. /\ mrp'.ring_test_curr = mrp.ring_test_curr /\ mrp'.add_test = mrp.add_test
        /\ Silent(mrp')
    BY <1>3, <1>7, Zenon DEF Alike, Silent
  <2>2. clock' + due'.test = clock + due.test
    BY <1>1, <1>4, <1>5
  <2>3. SilentInTime'
    BY <1>7, <2>1, <2>2 DEF SilentInTime, Latest, Short
  <2>. QED
    BY <1>1, <1>3, <1>5, <1>6, <2>1, <2>3 DEF TimeInv, ClientsFlushInTime
<1>8. CASE Announcing(mrp) /\ AnnouncingInTime
  <2>1. mrp'.ring_topo_curr_max = mrp.ring_topo_curr_max /\ Announcing(mrp')
    BY <1>3, <1>8, Zenon DEF Alike, Announcing
  <2>2. clock' + due'.topo = clock + due.topo
    BY <1>1, <1>4, <1>5, <1>8 DEF Announcing
  <2>3. AnnouncingInTime'
    BY <1>1, <1>5, <1>8, <2>1, <2>2 DEF AnnouncingInTime, Latest, Short
  <2>. QED
    BY <1>1, <1>3, <1>5, <1>6, <2>1, <2>3 DEF TimeInv, ClientsFlushInTime
<1>. QED
  BY <1>1, <1>7, <1>8, Zenon DEF TimeInv

\* A client that is told v milliseconds at time now flushes together with a manager that
\* opened the ring at time start.
Timely(v, now, start) ==
    LET told == now + 1000 * v
        last == start + Conf.topo_max * Conf.topo_interval
    IN  told <= last /\ told + 1000 > last

\* An announcement made with time t left is timely.
LEMMA ToldInTime ==
    ASSUME ProfileInUse, NEW t \in Nat, t <= 3 * Conf.topo_interval,
           NEW now \in Nat, NEW start \in Nat, now + t = start + 3 * Conf.topo_interval
    PROVE  Timely(ToUInt16(t \div 1000), now, start)
<1>. DEFINE v == ToUInt16(t \div 1000)
<1>1. Conf.topo_interval \in Nat /\ Conf.topo_max = 3 /\ 3 * Conf.topo_interval < 1000 * 65536
  BY Profiles DEF ProfileInUse
<1>2. v \in Nat /\ 1000 * v <= t /\ 1000 * v + 1000 > t
  <2>1. t < 1000 * 65536
    BY <1>1
  <2>. QED
    BY <2>1, Milliseconds
<1>. HIDE DEF v
<1>3. Timely(v, now, start)
  BY <1>1, <1>2 DEF Timely
<1>. QED
  BY <1>3 DEF v

\* The test timer expires.
LEMMA TestStep ==
    ASSUME ProfileInUse, TimeInv, ring_test_work
    PROVE  TimeInv' /\ ClientsFlushInTime'
<1>. DEFINE i == Idle(mrp)
            m == mrp_ring_test_expired(i)
            event == "ring_test"
<1>1. Callback(m, event) /\ due.test = 0
  BY Zenon DEF ring_test_work
<1>2. Manager(mrp)
  BY Zenon DEF TimeInv
<1>3. Manager(i) /\ Alike(i, mrp) /\ i.timers = mrp.timers /\ i.tx = {} /\ i.flushed = FALSE
  BY <1>2, IdleManager, Zenon
<1>. HIDE DEF i, m, event
<1>4. /\ mrp' = m /\ clock' = clock /\ clock \in Nat
      /\ ring_recv' = ring_recv /\ Conf' = Conf
      /\ opened' = IF Open(m) /\ ~Open(mrp) THEN clock ELSE opened
      /\ opened \in Nat /\ opened' \in Nat
      /\ recovered' = (recovered \/ (Open(m) /\ m.flushed))
      /\ due'.test = IF Sends(m, "RING_TEST") THEN TestInterval(event) ELSE due.test
      /\ due'.topo = IF event = "ring_topo" \/ "ring_topo" \notin mrp.timers
                     THEN Conf.topo_interval ELSE due.topo
      /\ Measured(due.test)' /\ Measured(due.topo)'
      /\ due.topo \in Nat
  BY <1>1, Clocks
<1>. /\ Conf' = Conf /\ Short' = Short /\ ring_recv' \in RingRecv
     /\ Manager(m) => Manager(mrp)'
     /\ Silent(m) => Silent(mrp)'
  BY <1>4, Frozen, Zenon DEF ProfileInUse
<1>5. TestInterval(event) = Conf.test_interval /\ event # "ring_topo"
  BY DEF TestInterval, event
<1>6. /\ Conf.test_interval \in Nat /\ Short \in Nat /\ Conf.topo_interval \in Nat
      /\ Conf.test_max \in Nat \ {0} /\ Conf.topo_max = 3
      /\ \A c \in Nat : /\ Latest(c) \in Nat
                        /\ Latest(c + 1) = Latest(c) + Conf.test_interval + Short
                        /\ c <= Conf.test_max => Latest(c) <= Latest(Conf.test_max)
  BY Profiles DEF ProfileInUse
<1>7. mrp.ring_test_curr \in Nat /\ mrp.ring_test_curr_max = Conf.test_max - 1
  BY <1>2 DEF Manager, ProfileInUse
<1>8. CASE Silent(mrp) /\ recovered = FALSE /\ SilentInTime
  <2>1. /\ Silent(i) /\ i.mrm_state = "CHK_RC" /\ mrp.mrm_state = "CHK_RC"
        /\ i.ring_test_curr = mrp.ring_test_curr /\ i.ring_test_curr_max = mrp.ring_test_curr_max
        /\ i.ring_topo_curr_max = ring_topo_conf_max - 1
        /\ "ring_topo" \notin i.timers /\ "ring_topo" \notin mrp.timers
    BY <1>3, <1>8, Zenon DEF Alike, Silent
  <2>2. /\ clock <= Latest(mrp.ring_test_curr + 1)
        /\ mrp.ring_test_curr <= mrp.ring_test_curr_max
    BY <1>1, <1>4, <1>6, <1>7, <1>8 DEF SilentInTime, Silent
  <2>3. CASE i.ring_test_curr < i.ring_test_curr_max
    <3>1. /\ Manager(m) /\ m.timers = i.timers /\ m.mrm_state = "CHK_RC"
          /\ m.add_test = FALSE /\ m.ring_test_curr = i.ring_test_curr + 1
          /\ m.ring_topo_curr_max = i.ring_topo_curr_max
          /\ Sends(m, "RING_TEST")
      BY <1>3, <2>1, <2>3, Counted, Zenon DEF m, ProfileInUse
    <3>2. m.ring_test_curr <= m.ring_test_curr_max
      BY <1>6, <1>7, <2>1, <2>3, <3>1 DEF Manager, ProfileInUse
    <3>3. Silent(m)
      BY <2>1, <3>1, <3>2, Zenon DEF Silent
    <3>4. ~Open(m)
      BY <3>1 DEF Open
    <3>5. recovered' = FALSE
      BY Zenon, <1>4, <1>8, <3>4
    <3>6. SilentInTime'
      <4>1. due'.test = Conf.test_interval
        BY <1>4, <1>5, <3>1, Zenon
      <4>2. mrp'.ring_test_curr = mrp.ring_test_curr + 1 /\ mrp'.add_test = FALSE
        BY <1>4, <2>1, <3>1
      <4>3. Latest(mrp'.ring_test_curr + 1)
              = Latest(mrp.ring_test_curr + 1) + Conf.test_interval + Short
        BY <1>6, <1>7, <4>2
      <4>4. clock' + due'.test <= Latest(mrp'.ring_test_curr + 1) - Short
        BY <1>4, <1>6, <1>7, <2>2, <4>1, <4>3
      <4>. QED
        BY <4>2, <4>4 DEF SilentInTime, Latest, Short
    <3>7. ClientsFlushInTime'
      BY <1>4, <3>4 DEF ClientsFlushInTime, Open
    <3>. QED
      BY <1>4, <3>1, <3>3, <3>5, <3>6, <3>7 DEF TimeInv
  <2>4. CASE i.ring_test_curr >= i.ring_test_curr_max
    <3>. DEFINE time == ring_topo_conf_interval * ring_topo_conf_max
    <3>1. /\ Manager(m) /\ m.mrm_state = "CHK_RO" /\ "ring_topo" \in m.timers
          /\ m.ring_topo_curr_max = i.ring_topo_curr_max /\ m.flushed = i.flushed
          /\ \A e \in m.tx : e[2].type = "RING_TOPO" => e[2].interval = ToUInt16(time \div 1000)
      BY <1>3, <2>1, <2>4, Opened DEF m, ProfileInUse
    <3>2. Open(m) /\ ~Open(mrp)
      BY <2>1, <3>1 DEF Open
    <3>3. opened' = clock /\ recovered' = FALSE /\ due'.topo = Conf.topo_interval
      <4>1. ~m.flushed /\ recovered = FALSE
        BY <1>3, <1>8, <3>1, Zenon
      <4>2. recovered' = FALSE
        BY Zenon, <1>4, <4>1
      <4>. QED
        BY <1>4, <2>1, <3>2, <4>2, Zenon
    <3>4. ring_topo_conf_max = 3 /\ m.ring_topo_curr_max = 2
      BY <1>6, <2>1, <3>1 DEF ProfileInUse
    <3>5. time = 3 * Conf.topo_interval
      BY <1>6, <3>4 DEF ProfileInUse
    <3>6. Announcing(m)
      BY <3>1, <3>4 DEF Announcing
    <3>7. AnnouncingInTime'
      <4>1. clock <= Latest(Conf.test_max)
        <5>1. mrp.ring_test_curr + 1 = Conf.test_max
          BY <1>6, <1>7, <2>1, <2>2, <2>4
        <5>. QED
          BY <2>2, <5>1
      <4>2. clock' + due'.topo + mrp'.ring_topo_curr_max * Conf.topo_interval
              = opened' + 3 * Conf.topo_interval
        BY <1>4, <1>6, <3>3, <3>4
      <4>. QED
        BY <1>4, <3>3, <4>1, <4>2 DEF AnnouncingInTime, Latest, Short
    <3>8. ClientsFlushInTime'
      <4>1. /\ time \in Nat /\ time <= 3 * Conf.topo_interval
            /\ clock + time = clock + 3 * Conf.topo_interval
        BY <1>4, <1>6, <3>5
      <4>. HIDE DEF time
      <4>. DEFINE v == ToUInt16(time \div 1000)
      <4>2. Timely(v, clock, clock)
        <5>1. clock \in Nat
          BY <1>4
        <5>. QED
          BY <4>1, <5>1, ToldInTime
      <4>3. \A e \in m.tx : e[2].type = "RING_TOPO" => e[2].interval = v
        BY <3>1
      <4>. HIDE DEF v
      <4>. QED
        BY <1>4, <3>3, <4>2, <4>3 DEF ClientsFlushInTime, Timely
    <3>. QED
      BY <1>4, <3>1, <3>3, <3>6, <3>7, <3>8 DEF TimeInv
  <2>. QED
    BY <1>7, <1>6, <2>1, <2>3, <2>4
<1>9. CASE mrp.mrm_state = "CHK_RO"
  <2>1. i.mrm_state = "CHK_RO" /\ i.ring_topo_curr_max = mrp.ring_topo_curr_max
    BY <1>3, <1>9, Zenon DEF Alike
  <2>2. /\ Manager(m) /\ m.timers = mrp.timers /\ m.mrm_state = "CHK_RO"
        /\ m.ring_topo_curr_max = mrp.ring_topo_curr_max /\ m.flushed = FALSE
        /\ \A e \in m.tx : e[2].type = "RING_TEST"
    BY <1>3, <2>1, ProbedOpen, Zenon DEF m
  <2>3. opened' = opened /\ recovered' = (recovered \/ FALSE)
    BY <1>4, <1>9, <2>2 DEF Open
  <2>4. ClientsFlushInTime'
    BY <1>4, <2>2 DEF ClientsFlushInTime
  <2>5. CASE Announcing(mrp) /\ recovered = FALSE /\ AnnouncingInTime
    <3>1. Announcing(m)
      BY <2>2, <2>5, Zenon DEF Announcing
    <3>2. due'.topo = due.topo
      BY <1>4, <1>5, <2>5 DEF Announcing
    <3>3. AnnouncingInTime'
      BY <1>4, <2>2, <2>3, <2>5, <3>2 DEF AnnouncingInTime, Latest, Short
    <3>. QED
      BY Zenon, <1>4, <2>2, <2>3, <2>4, <2>5, <3>1, <3>3 DEF TimeInv
  <2>6. CASE Done(mrp) /\ recovered = TRUE
    <3>1. Done(m)
      BY <2>2, <2>6, Zenon DEF Done
    <3>. QED
      BY Zenon, <1>4, <2>2, <2>3, <2>4, <2>6, <3>1 DEF TimeInv
  <2>. QED
    BY Zenon, <1>9, <2>5, <2>6 DEF TimeInv, Silent
<1>. QED
  BY Zenon, <1>8, <1>9 DEF TimeInv, Announcing, Done

\* The topology timer expires.
LEMMA TopoStep ==
    ASSUME ProfileInUse, TimeInv, ring_topo_work
    PROVE  TimeInv' /\ ClientsFlushInTime'
<1>. DEFINE i == Idle(mrp)
            m == mrp_ring_topo_expired(i)
            event == "ring_topo"
<1>1. Callback(m, event) /\ due.topo = 0 /\ "ring_topo" \in mrp.timers
  BY Zenon DEF ring_topo_work
<1>2. Manager(mrp)
  BY Zenon DEF TimeInv
<1>3. Manager(i) /\ Alike(i, mrp) /\ i.timers = mrp.timers /\ i.tx = {} /\ i.flushed = FALSE
  BY <1>2, IdleManager, Zenon
<1>. HIDE DEF i, m, event
<1>4. /\ mrp' = m /\ clock' = clock /\ clock \in Nat
      /\ ring_recv' = ring_recv /\ Conf' = Conf
      /\ opened' = IF Open(m) /\ ~Open(mrp) THEN clock ELSE opened
      /\ opened \in Nat /\ opened' \in Nat
      /\ recovered' = (recovered \/ (Open(m) /\ m.flushed))
      /\ due'.topo = IF event = "ring_topo" \/ "ring_topo" \notin mrp.timers
                     THEN Conf.topo_interval ELSE due.topo
      /\ Measured(due.test)' /\ Measured(due.topo)'
  BY <1>1, Clocks
<1>. /\ Conf' = Conf /\ Short' = Short /\ ring_recv' \in RingRecv
     /\ Manager(m) => Manager(mrp)'
     /\ Silent(m) => Silent(mrp)'
  BY <1>4, Frozen, Zenon DEF ProfileInUse
<1>5. Announcing(mrp) /\ recovered = FALSE /\ AnnouncingInTime
  BY <1>1 DEF TimeInv, Silent, Done
<1>6. Conf.topo_interval \in Nat \ {0} /\ ring_topo_conf_interval = Conf.topo_interval
  BY Profiles DEF ProfileInUse
<1>7. /\ i.mrm_state = "CHK_RO" /\ mrp.mrm_state = "CHK_RO"
      /\ i.ring_topo_curr_max = mrp.ring_topo_curr_max /\ mrp.ring_topo_curr_max \in Nat
  BY <1>3, <1>5, Zenon DEF Alike, Announcing
<1>8. CASE mrp.ring_topo_curr_max > 0
  <2>. DEFINE time == i.ring_topo_curr_max * ring_topo_conf_interval
              v == ToUInt16(time \div 1000)
  <2>1. /\ Manager(m) /\ m.timers = i.timers /\ m.mrm_state = i.mrm_state
        /\ m.ring_topo_curr_max = i.ring_topo_curr_max - 1 /\ m.flushed = i.flushed
        /\ \A e \in m.tx : e[2].type = "RING_TOPO" => e[2].interval = v
    BY <1>3, <1>7, <1>8, AnnouncedAgain DEF m
  <2>2. opened' = opened
    BY <1>4, <1>7 DEF Open
  <2>3. recovered' = FALSE
    <3>1. ~m.flushed /\ recovered = FALSE
      BY <1>3, <1>5, <2>1, Zenon
    <3>. QED
      BY Zenon, <1>4, <3>1
  <2>4. Announcing(m)
    BY <1>1, <1>3, <1>7, <1>8, <2>1 DEF Announcing
  <2>5. due'.topo = Conf.topo_interval
    BY <1>4 DEF event
  <2>6. /\ opened <= Latest(Conf.test_max)
        /\ clock + mrp.ring_topo_curr_max * Conf.topo_interval = opened + 3 * Conf.topo_interval
    BY <1>1, <1>4, <1>5, <1>6, <1>7 DEF AnnouncingInTime
  <2>7. AnnouncingInTime'
    <3>1. clock' + due'.topo + mrp'.ring_topo_curr_max * Conf.topo_interval
            = opened' + 3 * Conf.topo_interval
      <4>1. mrp'.ring_topo_curr_max * Conf.topo_interval
              = mrp.ring_topo_curr_max * Conf.topo_interval - Conf.topo_interval
        BY <1>4, <1>6, <1>7, <2>1
      <4>2. mrp.ring_topo_curr_max * Conf.topo_interval \in Nat
        BY <1>6, <1>7
      <4>. QED
        BY <1>4, <1>6, <2>2, <2>5, <2>6, <4>1, <4>2
    <3>. QED
      BY <1>4, <1>5, <2>2, <2>6, <3>1 DEF AnnouncingInTime, Latest, Short
  <2>8. ClientsFlushInTime'
    <3>1. /\ time \in Nat /\ clock + time = opened + 3 * Conf.topo_interval
      BY <1>6, <1>7, <2>6
    <3>2. opened <= clock
      BY <1>5, Zenon DEF AnnouncingInTime
    <3>3. time <= 3 * Conf.topo_interval
      BY <1>4, <1>6, <3>1, <3>2
    <3>. HIDE DEF time
    <3>4. Timely(v, clock, opened)
      <4>1. clock \in Nat /\ opened \in Nat
        BY <1>4
      <4>. QED
        BY <3>1, <3>3, <4>1, ToldInTime
    <3>. HIDE DEF v
    <3>. QED
      BY <1>4, <2>1, <2>2, <3>4 DEF ClientsFlushInTime, Timely
  <2>. QED
    BY <1>4, <2>1, <2>3, <2>4, <2>7, <2>8 DEF TimeInv
<1>9. CASE mrp.ring_topo_curr_max = 0
  <2>1. /\ Manager(m) /\ m.mrm_state = i.mrm_state /\ "ring_topo" \notin m.timers
        /\ m.flushed = TRUE
    BY <1>3, <1>7, <1>9, Flushed, Zenon DEF m
  <2>2. Open(m) /\ Done(m)
    BY <1>7, <2>1, Zenon DEF Open, Done
  <2>3. recovered' = TRUE
    BY Zenon, <1>4, <2>1, <2>2
  <2>4. ClientsFlushInTime'
    BY <1>4, <2>1 DEF ClientsFlushInTime
  <2>. QED
    BY <1>4, <2>1, <2>2, <2>3, <2>4 DEF TimeInv
<1>. QED
  BY <1>7, <1>8, <1>9

\* A client announces a link change.
LEMMA FrameStep ==
    ASSUME ProfileInUse, TimeInv, packet_rcv
    PROVE  TimeInv' /\ ClientsFlushInTime'
<1>. DEFINE i == Idle(mrp)
            event == "frame"
<1>1. PICK p \in RingPort, f \in LinkFrame : Callback(mrp_recv(i, p, f), event)
  BY Zenon DEF packet_rcv
<1>2. ~recovered
  BY Zenon DEF packet_rcv
<1>. DEFINE m == mrp_recv(i, p, f)
<1>3. Manager(mrp)
  BY Zenon DEF TimeInv
<1>4. Manager(i) /\ Alike(i, mrp) /\ i.timers = mrp.timers /\ i.tx = {} /\ i.flushed = FALSE
  BY <1>3, IdleManager, Zenon
<1>. HIDE DEF i, m, event
<1>5. /\ mrp' = m /\ clock' = clock /\ clock \in Nat
      /\ ring_recv' = ring_recv /\ Conf' = Conf
      /\ opened' = IF Open(m) /\ ~Open(mrp) THEN clock ELSE opened
      /\ opened \in Nat /\ opened' \in Nat
      /\ recovered' = (recovered \/ (Open(m) /\ m.flushed))
      /\ due'.test = IF Sends(m, "RING_TEST") THEN TestInterval(event) ELSE due.test
      /\ due'.topo = IF event = "ring_topo" \/ "ring_topo" \notin mrp.timers
                     THEN Conf.topo_interval ELSE due.topo
      /\ Measured(due.test)' /\ Measured(due.topo)'
      /\ due.test \in Nat
  <2>1. Callback(m, event)
    BY <1>1 DEF m
  <2>. QED
    BY <2>1, Clocks
<1>. /\ Conf' = Conf /\ Short' = Short /\ ring_recv' \in RingRecv
     /\ Manager(m) => Manager(mrp)'
     /\ Silent(m) => Silent(mrp)'
  BY <1>5, Frozen, Zenon DEF ProfileInUse
<1>6. TestInterval(event) = Short /\ event # "ring_topo"
  BY DEF TestInterval, Short, event
<1>7. CASE Silent(mrp) /\ recovered = FALSE /\ SilentInTime
  <2>1. /\ Silent(i) /\ i.ring_test_curr = mrp.ring_test_curr /\ i.add_test = mrp.add_test
    BY <1>4, <1>7, Zenon DEF Alike, Silent
  <2>2. /\ Manager(m)
        /\ \/ /\ Silent(m) /\ m.ring_test_curr = i.ring_test_curr
              /\ \/ m.add_test = i.add_test /\ ~Sends(m, "RING_TEST")
                 \/ i.add_test = FALSE /\ m.add_test = TRUE /\ Sends(m, "RING_TEST")
           \/ Done(m) /\ m.flushed = TRUE
    BY <1>4, <2>1, LinkWhileSilent, Zenon DEF m
  <2>3. CASE Done(m) /\ m.flushed = TRUE
    <3>1. recovered' = TRUE
      BY Zenon, <1>5, <2>3 DEF Done, Open
    <3>2. ClientsFlushInTime'
      BY <1>5, <2>3 DEF Done, ClientsFlushInTime
    <3>. QED
      BY <1>5, <2>2, <2>3, <3>1, <3>2 DEF TimeInv
  <2>4. ASSUME Silent(m), SilentInTime' PROVE TimeInv' /\ ClientsFlushInTime'
    <3>1. ~Open(m)
      BY <2>4 DEF Silent, Open
    <3>2. recovered' = FALSE
      BY Zenon, <1>5, <1>7, <3>1
    <3>3. ClientsFlushInTime'
      BY <1>5, <3>1 DEF ClientsFlushInTime, Open
    <3>. QED
      BY <1>5, <2>2, <2>4, <3>2, <3>3 DEF TimeInv
  <2>5. CASE Silent(m) /\ m.ring_test_curr = i.ring_test_curr /\ m.add_test = i.add_test
             /\ ~Sends(m, "RING_TEST")
    <3>1. /\ due'.test = due.test /\ clock' = clock
          /\ mrp'.ring_test_curr = mrp.ring_test_curr /\ mrp'.add_test = mrp.add_test
      BY <1>5, <2>1, <2>5, Zenon
    <3>2. SilentInTime'
      BY <1>7, <3>1 DEF SilentInTime, Latest, Short
    <3>. QED
      BY <2>4, <2>5, <3>2
  <2>6. CASE Silent(m) /\ m.ring_test_curr = i.ring_test_curr /\ i.add_test = FALSE
             /\ m.add_test = TRUE /\ Sends(m, "RING_TEST")
    <3>1. /\ due'.test = Short /\ clock' = clock /\ mrp.add_test = FALSE
          /\ mrp'.ring_test_curr = mrp.ring_test_curr /\ mrp'.add_test = TRUE
      BY <1>5, <1>6, <2>1, <2>6, Zenon
    <3>2. Short \in Nat /\ mrp.ring_test_curr \in Nat /\ Latest(mrp.ring_test_curr + 1) \in Nat
      BY <1>3, Profiles DEF ProfileInUse, Manager
    <3>3. clock + due.test <= Latest(mrp.ring_test_curr + 1) - Short
      BY <1>7, <3>1 DEF SilentInTime
    <3>4. clock' + due'.test <= Latest(mrp'.ring_test_curr + 1) - 0
      BY <1>5, <3>1, <3>2, <3>3
    <3>5. SilentInTime'
      BY <3>1, <3>4 DEF SilentInTime, Latest, Short
    <3>. QED
      BY <2>4, <2>6, <3>5
  <2>. QED
    BY Zenon, <2>2, <2>3, <2>5, <2>6
<1>8. CASE Announcing(mrp) /\ recovered = FALSE /\ AnnouncingInTime
  <2>1. /\ i.mrm_state = "CHK_RO" /\ mrp.mrm_state = "CHK_RO"
        /\ i.ring_topo_curr_max = mrp.ring_topo_curr_max
    BY <1>4, <1>8, Zenon DEF Alike, Announcing
  <2>2. /\ Manager(m) /\ m.timers = mrp.timers /\ m.mrm_state = "CHK_RO"
        /\ m.ring_topo_curr_max = mrp.ring_topo_curr_max /\ m.flushed = FALSE
        /\ \A e \in m.tx : e[2].type = "RING_TEST"
    <3>1. Manager(i) /\ i.tx = {} /\ i.mrm_state = "CHK_RO"
      BY <1>4, <2>1, Zenon
    <3>2. /\ Manager(m) /\ m.timers = i.timers /\ m.mrm_state = "CHK_RO"
          /\ m.ring_topo_curr_max = i.ring_topo_curr_max /\ m.flushed = i.flushed
          /\ \A e \in m.tx : e[2].type = "RING_TEST"
      BY <3>1, LinkWhileOpen, Zenon DEF m
    <3>. QED
      BY <1>4, <2>1, <3>2, Zenon
  <2>3. opened' = opened /\ recovered' = FALSE
    <3>1. ~m.flushed /\ recovered = FALSE
      BY <1>8, <2>2, Zenon
    <3>2. recovered' = FALSE
      BY Zenon, <1>5, <3>1
    <3>. QED
      BY <1>5, <2>1, <3>2, Zenon DEF Open
  <2>4. ClientsFlushInTime'
    BY <1>5, <2>2 DEF ClientsFlushInTime
  <2>5. Announcing(m)
    BY <1>8, <2>2, Zenon DEF Announcing
  <2>6. due'.topo = due.topo
    BY <1>5, <1>6, <1>8 DEF Announcing
  <2>7. AnnouncingInTime'
    BY <1>5, <1>8, <2>2, <2>3, <2>6 DEF AnnouncingInTime, Latest, Short
  <2>. QED
    BY <1>5, <2>2, <2>3, <2>4, <2>5, <2>7 DEF TimeInv
<1>. QED
  BY <1>2, <1>7, <1>8, Zenon DEF TimeInv

-----------------------------------------------------------------------------
(***************************************************************************)
(* The theorems.                                                           *)
(***************************************************************************)
\* The invariant of a ring that recovers, and the announcements it makes.
THEOREM TimeInvariance == Spec => [](TimeInv /\ ClientsFlushInTime)
<1>1. Init => TimeInv /\ ClientsFlushInTime
  BY TimeInit, InUse DEF Init
<1>2. (TimeInv /\ ClientsFlushInTime) /\ [Next]_vars => (TimeInv /\ ClientsFlushInTime)'
  <2>1. SUFFICES ASSUME TimeInv, ClientsFlushInTime, [Next]_vars
                 PROVE  TimeInv' /\ ClientsFlushInTime'
    OBVIOUS
  <2>2. ProfileInUse
    BY <2>1, InUse DEF TimeInv
  <2>3. CASE Next
    BY <2>1, <2>2, <2>3, TickStep, TestStep, TopoStep, FrameStep DEF Next
  <2>4. CASE UNCHANGED vars
    <3>1. /\ ring_recv' = ring_recv /\ mrp' = mrp /\ clock' = clock /\ due' = due
          /\ opened' = opened /\ recovered' = recovered
      BY <2>4 DEF vars
    <3>2. /\ Conf' = Conf /\ Short' = Short /\ Quantum' = Quantum
          /\ Manager(mrp) => Manager(mrp)'
          /\ Silent(mrp) => Silent(mrp)'
      BY <3>1, Frozen, Zenon
    <3>3. /\ SilentInTime => SilentInTime'
          /\ AnnouncingInTime => AnnouncingInTime'
          /\ ClientsFlushInTime'
      BY <2>1, <3>1, <3>2
         DEF SilentInTime, AnnouncingInTime, ClientsFlushInTime, Latest, Short, Open
    <3>4. Measured(due.test)' /\ Measured(due.topo)'
      BY <2>1, <3>1, <3>2 DEF TimeInv, Measured
    <3>. QED
      BY <2>1, <3>1, <3>2, <3>3, <3>4 DEF TimeInv
  <2>. QED
    BY <2>1, <2>3, <2>4
<1>. QED
  BY <1>1, <1>2, PTL DEF Spec

\* However many link changes the clients of a broken ring announce, and whenever they do,
\* the manager has opened its secondary port and the forwarding databases are cleared
\* within the recovery time of its profile: a test put off by Short once in every interval,
\* and the whole announcement cycle, fit into it.
THEOREM Recovers == Spec => []RingRecovers
<1>1. TimeInv => RingRecovers
  <2>1. SUFFICES ASSUME TimeInv, clock > ring_recv * 1000
                 PROVE  recovered
    BY DEF RingRecovers
  <2>. ProfileInUse
    BY <2>1, InUse DEF TimeInv
  <2>2. /\ Conf.test_max \in Nat \ {0} /\ Conf.topo_interval \in Nat /\ ring_recv \in Nat
        /\ Short \in Nat
        /\ \A c \in Nat : /\ Latest(c) \in Nat
                          /\ c <= Conf.test_max => Latest(c) <= Latest(Conf.test_max)
        /\ Latest(Conf.test_max) + 3 * Conf.topo_interval <= ring_recv * 1000
    BY Profiles DEF ProfileInUse
  <2>3. /\ due.test \in Nat /\ due.topo \in Nat /\ clock \in Nat /\ opened \in Nat
    BY Zenon, <2>1, MeasuredStep DEF TimeInv, ProfileInUse
  <2>4. ASSUME Silent(mrp), SilentInTime PROVE FALSE
    <3>1. mrp.ring_test_curr \in Nat /\ mrp.ring_test_curr + 1 <= Conf.test_max
      BY <2>1, <2>2, <2>4 DEF TimeInv, Manager, Silent, ProfileInUse
    <3>2. clock + due.test <= Latest(mrp.ring_test_curr + 1)
      BY <2>2, <2>3, <2>4, <3>1 DEF SilentInTime
    <3>. QED
      BY <2>1, <2>2, <2>3, <3>1, <3>2
  <2>5. ASSUME Announcing(mrp), AnnouncingInTime PROVE FALSE
    <3>1. mrp.ring_topo_curr_max * Conf.topo_interval \in Nat
      BY <2>2, <2>5 DEF Announcing
    <3>. QED
      BY <2>1, <2>2, <2>3, <2>5, <3>1 DEF AnnouncingInTime
  <2>. QED
    BY <2>1, <2>4, <2>5 DEF TimeInv
<1>. QED
  BY <1>1, TimeInvariance, PTL

\* Every announcement of the opening, the first and the repeated ones, makes a client clear
\* its database no later than the manager does, and less than a millisecond before.
THEOREM FlushInTime == Spec => []ClientsFlushInTime
BY TimeInvariance, PTL

=============================================================================
