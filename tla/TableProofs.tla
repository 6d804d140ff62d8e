----------------------------- MODULE TableProofs ----------------------------
(***************************************************************************)
(* What the operations on the table of instances preserve, for any table,  *)
(* any command and any failing calls.                                      *)
(***************************************************************************)
EXTENDS Instances, SequenceTheorems, WellFoundedInduction, TLAPS

\* A set of numbers that is not empty has a least one.
LEMMA LeastExists ==
    ASSUME NEW T \in SUBSET Nat, T # {}
    PROVE  \E x \in T : \A y \in T : x <= y
<1>1. IsWellFoundedOn(OpToRel(<, Nat), Nat)
  BY Zenon, NatLessThanWellFounded
<1>2. PICK x \in T : \A y \in T : ~(<<y, x>> \in OpToRel(<, Nat))
  BY <1>1, WFMin, Zenon
<1>3. \A y \in T : ~(y < x)
  BY Zenon, <1>2 DEF OpToRel
<1>. QED
  BY <1>3

\* Removing the k-th element moves the later ones up.
LEMMA RemoveAtProperties ==
    ASSUME NEW T, NEW s \in Seq(T), NEW k \in 1 .. Len(s)
    PROVE  /\ RemoveAt(s, k) \in Seq(T)
           /\ Len(RemoveAt(s, k)) = Len(s) - 1
           /\ \A i \in 1 .. Len(s) - 1 : RemoveAt(s, k)[i] = IF i < k THEN s[i] ELSE s[i + 1]
<1> DEFINE a == SubSeq(s, 1, k - 1)
           b == SubSeq(s, k + 1, Len(s))
<1>0. Len(s) \in Nat /\ k \in Nat /\ k >= 1 /\ k <= Len(s)
  BY LenProperties
<1>1. /\ a \in Seq(T) /\ Len(a) = k - 1
      /\ \A i \in 1 .. k - 1 : a[i] = s[i]
  BY <1>0, SubSeqProperties, Z3
<1>2. /\ b \in Seq(T) /\ Len(b) = Len(s) - k
      /\ \A i \in 1 .. Len(s) - k : b[i] = s[k + i]
  BY <1>0, SubSeqProperties, Z3
<1>3. RemoveAt(s, k) = a \o b
  BY DEF RemoveAt
<1> HIDE DEF a, b
<1>4. /\ a \o b \in Seq(T) /\ Len(a \o b) = Len(a) + Len(b)
      /\ \A i \in 1 .. Len(a) + Len(b) :
            (a \o b)[i] = IF i <= Len(a) THEN a[i] ELSE b[i - Len(a)]
  BY Zenon, <1>1, <1>2, ConcatProperties
<1>. QED
  BY <1>0, <1>1, <1>2, <1>3, <1>4

\* mrp_find returns the place of an instance with the name, or 0 if there is none.
LEMMA FindProperties ==
    ASSUME NEW S, S.list \in Seq(Instance), NEW id
    PROVE  /\ mrp_find(S, id) # 0 => /\ mrp_find(S, id) \in 1 .. Len(S.list)
                                     /\ S.list[mrp_find(S, id)].id = id
           /\ mrp_find(S, id) = 0 => \A i \in 1 .. Len(S.list) : S.list[i].id # id
<1> DEFINE I == {i \in 1 .. Len(S.list) : S.list[i].id = id}
<1>1. mrp_find(S, id) = IF I # {} THEN Min(I) ELSE 0
  BY DEF mrp_find, SelectInSeq
<1>2. CASE I = {}
  BY <1>1, <1>2
<1>3. CASE I # {}
  <2>1. I \in SUBSET Nat
    OBVIOUS
  <2>2. Min(I) \in I
    <3>1. \E x \in I : \A y \in I : x <= y
      BY Zenon, <1>3, <2>1, LeastExists
    <3>. QED
      BY Zenon, <3>1 DEF Min
  <2>. QED
    BY <1>1, <1>3, <2>2
<1>. QED
  BY <1>2, <1>3
-----------------------------------------------------------------------------
(***************************************************************************)
(* The table.                                                              *)
(***************************************************************************)
\* An instance has no timer armed but those its callbacks arm, and in LC mode the
\* continuity check.
Timed(x) == x.timers \subseteq Armable(x) \cup IF x.in_mode = "LC" THEN {"cfm_ccm"} ELSE {}

\* An instance that mrp_add has finished.
Complete(x) ==
    /\ x \in Instance /\ Timed(x)
    /\ x.p_port # NoPort /\ x.s_port # NoPort
    /\ x.in_role # "DISABLED" => x.i_port # NoPort
    /\ x.refused \subseteq IF x.in_role = "DISABLED" THEN {} ELSE {"ring_role"}

Distinct(l) == \A j, k \in 1 .. Len(l) : l[j].id = l[k].id => j = k

TableOK(S) ==
    /\ S.list \in Seq(Instance) /\ Distinct(S.list)
    /\ \A k \in 1 .. Len(S.list) : Complete(S.list[k])

\* The timers that mrp_timer_stop forgets.
Forgotten ==
    {<<"MIM", "LC", "in_test">>, <<"MIC", "LC", "in_test">>, <<"DISABLED", "LC", "cfm_ccm">>}

MepsOK(S, crashed) == LcNames(S) \subseteq S.meps /\ (~crashed => S.meps = LcNames(S))

\* What mrp_timer_stop leaves armed.
LEMMA ForgottenTimers ==
    ASSUME NEW x \in Instance, Timed(x)
    PROVE  StillArmed(mrp_reset_ring_state(x)) \subseteq Forgotten
<1> DEFINE y == mrp_reset_ring_state(x)
<1>1. /\ y.in_role = x.in_role /\ y.in_mode = x.in_mode /\ y.timers = x.timers \ Stopped(x)
      /\ x.in_role \in InRole /\ x.in_mode \in InMode
  BY DEF mrp_reset_ring_state, mrp_timer_stop, Instance
<1> HIDE DEF y
<1>2. CASE x.in_role = "DISABLED"
  <2>1. y.timers \subseteq IF x.in_mode = "LC" THEN {"cfm_ccm"} ELSE {}
    BY <1>1, <1>2 DEF Stopped, Armable, Timed
  <2>. QED
    BY <1>1, <1>2, <2>1 DEF StillArmed, Forgotten, y
<1>3. CASE x.in_role # "DISABLED" /\ x.in_mode = "RC"
  <2>1. y.timers = {}
    BY <1>1, <1>3 DEF Stopped, Armable, Timed
  <2>. QED
    BY <2>1 DEF StillArmed, y
<1>4. CASE x.in_role # "DISABLED" /\ x.in_mode = "LC"
  <2>1. y.timers \subseteq {"in_test"}
    BY <1>1, <1>4 DEF Stopped, Armable, Timed
  <2>. QED
    BY <1>1, <1>4, <2>1 DEF StillArmed, Forgotten, InRole, y
<1>. QED
  BY <1>1, <1>2, <1>3, <1>4 DEF InMode

\* The list r has the elements of s but the k-th.
EqualBut(r, s, k) ==
    /\ \A i \in (1 .. Len(s)) \ {k} : \E j \in 1 .. Len(r) : r[j] = s[i]
    /\ \A j \in 1 .. Len(r) : \E i \in (1 .. Len(s)) \ {k} : r[j] = s[i]

\* The instances but the k-th are those of the list without the k-th.
LEMMA Others ==
    ASSUME NEW T, NEW s \in Seq(T), NEW k \in 1 .. Len(s)
    PROVE  EqualBut(RemoveAt(s, k), s, k)
<1> DEFINE r == RemoveAt(s, k)
<1>1. /\ Len(r) = Len(s) - 1 /\ Len(s) \in Nat
      /\ \A i \in 1 .. Len(s) - 1 : r[i] = IF i < k THEN s[i] ELSE s[i + 1]
  BY RemoveAtProperties, LenProperties
<1> HIDE DEF r
<1>2. ASSUME NEW i \in (1 .. Len(s)) \ {k} PROVE \E j \in 1 .. Len(r) : r[j] = s[i]
  <2>1. CASE i < k
    <3>1. i \in 1 .. Len(r) /\ r[i] = s[i]
      BY <1>1, <2>1
    <3>. QED
      BY <3>1
  <2>2. CASE i > k
    <3>1. i - 1 \in 1 .. Len(r) /\ r[i - 1] = s[i]
      BY <1>1, <2>2
    <3>. QED
      BY <3>1
  <2>. QED
    BY <2>1, <2>2
<1>3. ASSUME NEW j \in 1 .. Len(r) PROVE \E i \in (1 .. Len(s)) \ {k} : r[j] = s[i]
  <2>1. CASE j < k
    <3>1. j \in (1 .. Len(s)) \ {k} /\ r[j] = s[j]
      BY <1>1, <2>1
    <3>. QED
      BY <3>1
  <2>2. CASE j >= k
    <3>1. j + 1 \in (1 .. Len(s)) \ {k} /\ r[j] = s[j + 1]
      BY <1>1, <2>2
    <3>. QED
      BY <3>1
  <2>. QED
    BY <2>1, <2>2
<1>. QED
  BY Zenon, <1>2, <1>3 DEF EqualBut, r

\* mrp_destroy removes the instance of that name, and the end point with it.
LEMMA Destroyed ==
    ASSUME NEW S, S.list \in Seq(Instance), Distinct(S.list),
           NEW k \in 1 .. Len(S.list), NEW id, id = S.list[k].id
    PROVE  /\ mrp_destroy(S, id).list = RemoveAt(S.list, k)
           /\ mrp_destroy(S, id).freed =
                 S.freed \cup StillArmed(mrp_reset_ring_state(S.list[k]))
           /\ mrp_destroy(S, id).meps =
                 IF S.list[k].in_mode = "LC" THEN S.meps \ {id} ELSE S.meps
<1>1. mrp_find(S, id) = k /\ k # 0
  <2>1. mrp_find(S, id) # 0
    BY FindProperties
  <2>. QED
    BY <2>1, FindProperties DEF Distinct
<1>2. S.list[k] \in Instance
  BY ElementOfSeq
<1>3. mrp_reset_ring_state(S.list[k]).in_mode = S.list[k].in_mode
  BY <1>2 DEF mrp_reset_ring_state, mrp_timer_stop, Instance
<1>. QED
  BY <1>1, <1>3 DEF mrp_destroy

\* A table without one of its instances is a table, with one name less.
LEMMA Shorter ==
    ASSUME NEW S, TableOK(S), NEW k \in 1 .. Len(S.list), NEW R, R.list = RemoveAt(S.list, k)
    PROVE  /\ TableOK(R)
           /\ mrp_get(R) = mrp_get(S) \ {S.list[k].id}
           /\ LcNames(R) = LcNames(S) \ {S.list[k].id}
           /\ S.list[k].in_mode # "LC" => LcNames(R) = LcNames(S)
<1> DEFINE s == S.list
           r == R.list
<1>1. s \in Seq(Instance) /\ Distinct(s) /\ \A i \in 1 .. Len(s) : Complete(s[i])
  BY DEF TableOK
<1>2. /\ r \in Seq(Instance) /\ Len(r) = Len(s) - 1 /\ Len(s) \in Nat
      /\ \A i \in 1 .. Len(s) - 1 : r[i] = IF i < k THEN s[i] ELSE s[i + 1]
  BY Zenon, <1>1, RemoveAtProperties, LenProperties
<1>3. EqualBut(r, s, k)
  BY <1>1, Others, Zenon
<1>4. DOMAIN s = 1 .. Len(s) /\ DOMAIN r = 1 .. Len(r)
  BY <1>1, <1>2, LenProperties
<1> HIDE DEF s, r
<1>5. Distinct(r)
  <2> SUFFICES ASSUME NEW i \in 1 .. Len(r), NEW j \in 1 .. Len(r), r[i].id = r[j].id
               PROVE  i = j
    BY DEF Distinct
  <2> DEFINE Old(n) == IF n < k THEN n ELSE n + 1
  <2>1. \A n \in 1 .. Len(r) : Old(n) \in 1 .. Len(s) /\ r[n] = s[Old(n)]
    BY <1>2
  <2>2. Old(i) = Old(j)
    <3> HIDE DEF Old
    <3>. QED
      BY <1>1, <2>1 DEF Distinct
  <2>. QED
    BY <1>2, <2>2
<1>6. \A j \in 1 .. Len(r) : Complete(r[j])
  BY <1>1, <1>3 DEF EqualBut
<1>7. TableOK(R)
  BY <1>2, <1>5, <1>6 DEF TableOK, r
<1>8. \A i \in (1 .. Len(s)) \ {k} : s[i].id # s[k].id
  BY <1>1 DEF Distinct, s
<1>9. /\ {r[j].id : j \in 1 .. Len(r)} = {s[i].id : i \in 1 .. Len(s)} \ {s[k].id}
      /\ {r[j].id : j \in {n \in 1 .. Len(r) : r[n].in_mode = "LC"}}
            = {s[i].id : i \in {n \in 1 .. Len(s) : s[n].in_mode = "LC"}} \ {s[k].id}
  <2> DEFINE D == 1 .. Len(s)
             E == 1 .. Len(r)
  <2>1. /\ \A i \in D : s[i].id # s[k].id => \E j \in E : r[j] = s[i]
        /\ \A j \in E : \E i \in D : r[j] = s[i] /\ s[i].id # s[k].id
    BY Zenon, <1>3, <1>8 DEF EqualBut
  <2> HIDE DEF D, E
  <2>2. {r[j].id : j \in E} = {s[i].id : i \in D} \ {s[k].id}
    BY <2>1
  <2>3. {r[j].id : j \in {n \in E : r[n].in_mode = "LC"}}
            = {s[i].id : i \in {n \in D : s[n].in_mode = "LC"}} \ {s[k].id}
    BY <2>1
  <2>. QED
    BY Zenon, <2>2, <2>3 DEF D, E
<1>10. /\ mrp_get(R) = mrp_get(S) \ {s[k].id} /\ LcNames(R) = LcNames(S) \ {s[k].id}
  BY <1>4, <1>9, Zenon DEF mrp_get, LcNames, s, r
<1>11. s[k].in_mode # "LC" => s[k].id \notin LcNames(S)
  BY <1>4, <1>8 DEF LcNames, s
<1>. QED
  BY <1>7, <1>10, <1>11 DEF s

\* mrp_destroy keeps the table, and the end points in step with it.
LEMMA DestroyKeeps ==
    ASSUME NEW S, TableOK(S), S.freed \subseteq Forgotten, NEW crashed \in BOOLEAN,
           MepsOK(S, crashed), NEW k \in 1 .. Len(S.list)
    PROVE  LET R == mrp_destroy(S, S.list[k].id)
           IN /\ TableOK(R) /\ R.freed \subseteq Forgotten /\ MepsOK(R, crashed)
              /\ R.list = RemoveAt(S.list, k)
              /\ mrp_get(R) = mrp_get(S) \ {S.list[k].id}
<1> DEFINE id == S.list[k].id
           R == mrp_destroy(S, id)
<1>1. S.list \in Seq(Instance) /\ Distinct(S.list) /\ S.list[k] \in Instance /\ Timed(S.list[k])
  BY DEF TableOK, Complete
<1>2. /\ R.list = RemoveAt(S.list, k)
      /\ R.freed = S.freed \cup StillArmed(mrp_reset_ring_state(S.list[k]))
      /\ R.meps = IF S.list[k].in_mode = "LC" THEN S.meps \ {id} ELSE S.meps
  BY Zenon, <1>1, Destroyed
<1> HIDE DEF R
<1>3. /\ TableOK(R) /\ mrp_get(R) = mrp_get(S) \ {id}
      /\ LcNames(R) = LcNames(S) \ {id}
      /\ S.list[k].in_mode # "LC" => LcNames(R) = LcNames(S)
  BY <1>2, Shorter
<1>4. R.freed \subseteq Forgotten
  BY <1>1, <1>2, ForgottenTimers
<1>5. MepsOK(R, crashed)
  BY <1>2, <1>3 DEF MepsOK
<1>. QED
  BY <1>2, <1>3, <1>4, <1>5 DEF R

-----------------------------------------------------------------------------
(***************************************************************************)
(* mrp_add.                                                                *)
(***************************************************************************)
Work == [x : Instance, err : BOOLEAN]

\* The ports of x are those of the command, or not yet set.
PortsOf(x, c) == \A f \in PortField : x[f] \in {NoPort, c[f]}

\* What r says of the instance that is being built for the command c.
Begun(r, c) ==
    /\ r \in Work /\ r.x.id = c.id /\ r.x.in_mode = c.in_mode
    /\ PortsOf(r.x, c)

\* An instance that has no role yet.
Plain(r, c) ==
    Begun(r, c) /\ r.x.in_role = "DISABLED" /\ r.x.timers = {} /\ r.x.refused = {}

\* From r to q the port is set, or an error is noted.
PortStep(q, r, c, port) ==
    /\ Plain(q, c)
    /\ ~q.err => ~r.err
    /\ ~q.err /\ c[port] # NoPort => q.x[port] = c[port]
    /\ \A f \in PortField \ {port} : q.x[f] = r.x[f]

\* mrp_port_init sets one port, or fails and sets none.
LEMMA PortInit ==
    ASSUME NEW c \in Config, NEW r, Plain(r, c), NEW port \in PortField, NEW bad
    PROVE  PortStep(mrp_port_init(r, port, c[port], bad), r, c, port)
<1> DEFINE q == mrp_port_init(r, port, c[port], bad)
<1>1. c[port] \in Ifindex \cup {NoPort} /\ r \in Work
  BY DEF Config, PortField, Plain, Begun
<1>2. CASE r.err \/ c[port] = NoPort
  <2>1. q = r
    BY <1>2 DEF mrp_port_init
  <2>. QED
    BY <1>2, <2>1 DEF PortStep, Plain, Begun
<1>3. CASE ~(r.err \/ c[port] = NoPort) /\ port \in bad
  <2>1. q = [r EXCEPT !.err = TRUE]
    BY <1>3 DEF mrp_port_init
  <2>2. q \in Work /\ q.x = r.x /\ q.err
    BY Zenon, <1>1, <2>1 DEF Work
  <2>. QED
    BY <2>2 DEF PortStep, Plain, Begun
<1>4. CASE ~(r.err \/ c[port] = NoPort) /\ port \notin bad
  <2>1. q = [r EXCEPT !.x[port] = c[port]]
    BY <1>4 DEF mrp_port_init
  <2>2. /\ q \in Work /\ q.err = r.err
        /\ q.x.id = r.x.id /\ q.x.in_mode = r.x.in_mode /\ q.x.in_role = r.x.in_role
        /\ q.x.timers = r.x.timers /\ q.x.refused = r.x.refused
        /\ q.x[port] = c[port] /\ \A f \in PortField \ {port} : q.x[f] = r.x[f]
    BY <1>1, <2>1 DEF Work, Instance, PortField
  <2> HIDE DEF q
  <2>. QED
    BY <1>4, <2>2 DEF PortStep, Plain, Begun, PortsOf, q
<1>. QED
  BY <1>2, <1>3, <1>4

\* The ports are set, or an error is noted.
LEMMA PortsSet ==
    ASSUME NEW c \in Config, NEW bad
    PROVE  LET r == Ports(c, bad)
           IN /\ Plain(r, c)
              /\ ~r.err => \A f \in PortField : r.x[f] = c[f]
<1> DEFINE r0 == [x |-> [mrp_create(c.id) EXCEPT !.in_mode = c.in_mode], err |-> FALSE]
           r1 == mrp_port_init(r0, "p_port", c.p_port, bad)
           r2 == mrp_port_init(r1, "s_port", c.s_port, bad)
           r3 == mrp_port_init(r2, "i_port", c.i_port, bad)
<1>1. Plain(r0, c) /\ r0.x.i_port = NoPort
  <2>1. c.id \in Id /\ c.in_mode \in InMode
    BY DEF Config
  <2>. QED
    BY <2>1 DEF Plain, Begun, PortsOf, Work, Instance, mrp_create, InRole, InMode, PortField
<1>2. Ports(c, bad) = r3
  BY Zenon DEF Ports
<1>3. /\ c.p_port = c["p_port"] /\ c.s_port = c["s_port"] /\ c.i_port = c["i_port"]
      /\ c.p_port # NoPort /\ c.s_port # NoPort
  BY IfindexAssumption DEF Config, NoPort
<1> HIDE DEF r0
<1>4. PortStep(r1, r0, c, "p_port")
  BY <1>1, <1>3, PortInit, Zenon DEF PortField
<1> HIDE DEF r1
<1>5. PortStep(r2, r1, c, "s_port")
  <2>1. Plain(r1, c)
    BY <1>4 DEF PortStep
  <2>. QED
    BY <1>3, <2>1, PortInit, Zenon DEF PortField
<1> HIDE DEF r2
<1>6. PortStep(r3, r2, c, "i_port")
  <2>1. Plain(r2, c)
    BY <1>5 DEF PortStep
  <2>. QED
    BY <1>3, <2>1, PortInit, Zenon DEF PortField
<1>7. ~r3.err /\ c["i_port"] = NoPort => r3.x["i_port"] = c["i_port"]
  BY <1>6 DEF PortStep, Plain, Begun, PortsOf, PortField
<1> HIDE DEF r3
<1>. QED
  BY <1>2, <1>3, <1>4, <1>5, <1>6, <1>7 DEF PortStep, PortField

\* What mrp_add makes of the command c: an instance that is complete, unless there was an
\* error, and that sends continuity check messages in LC mode only.
BuiltFor(r, c) ==
    /\ Begun(r, c) /\ Timed(r.x)
    /\ ~r.err => Complete(r.x)
    /\ "cfm_ccm" \in r.x.timers => c.in_mode = "LC"
    /\ ~r.err /\ c.in_mode = "LC" => "cfm_ccm" \in r.x.timers

\* An instance with its ring role: no error is left but one of the ring role.
Ringed(r, c) ==
    /\ Begun(r, c) /\ r.x.in_role = "DISABLED"
    /\ \A f \in PortField : r.x[f] = c[f]
    /\ r.x.timers \subseteq {"ring", "cfm_ccm"}
    /\ "cfm_ccm" \in r.x.timers <=> c.in_mode = "LC"
    /\ r.x.refused \subseteq {"ring_role"} /\ (~r.err => r.x.refused = {})

\* The ring role stops the ring timers and starts them again; the continuity check runs on.
LEMMA RingRole ==
    ASSUME NEW c \in Config, NEW r, Plain(r, c), ~r.err, \A f \in PortField : r.x[f] = c[f],
           NEW bad, NEW armed
    PROVE  Ringed(mrp_set_ring_role(mrp_start_cfm(r), bad, armed), c)
<1> DEFINE s == mrp_start_cfm(r)
           x == mrp_reset_ring_state(s.x)
           q == mrp_set_ring_role(s, bad, armed)
<1>1. /\ r \in Work /\ r.x.id = c.id /\ r.x.in_mode = c.in_mode /\ c.in_mode \in InMode
      /\ r.x.in_role = "DISABLED" /\ r.x.timers = {} /\ r.x.refused = {}
  BY DEF Plain, Begun, Config
<1>2. /\ s \in Work /\ s.x.id = c.id /\ s.x.in_mode = c.in_mode /\ s.x.in_role = "DISABLED"
      /\ s.x.refused = {} /\ \A f \in PortField : s.x[f] = c[f]
      /\ s.x.timers = IF c.in_mode = "LC" THEN {"cfm_ccm"} ELSE {}
  <2>1. CASE c.in_mode = "RC"
    <3>1. s = r
      BY <1>1, <2>1 DEF mrp_start_cfm
    <3>. QED
      BY <1>1, <2>1, <3>1
  <2>2. CASE c.in_mode = "LC"
    <3>1. s = [r EXCEPT !.x.timers = @ \cup {"cfm_ccm"}]
      BY <1>1, <2>2 DEF mrp_start_cfm
    <3>. QED
      BY <1>1, <2>2, <3>1 DEF Work, Instance, Timer, PortField
  <2>. QED
    BY <1>1, <2>1, <2>2 DEF InMode
<1> HIDE DEF s
<1>3. /\ x \in Instance /\ x.id = c.id /\ x.in_mode = c.in_mode /\ x.in_role = "DISABLED"
      /\ x.refused = {} /\ \A f \in PortField : x[f] = c[f]
      /\ x.timers = IF c.in_mode = "LC" THEN {"cfm_ccm"} ELSE {}
  <2>1. x = [s.x EXCEPT !.timers = @ \ {"ring"}]
    BY <1>2 DEF mrp_reset_ring_state, mrp_timer_stop, Stopped
  <2>. QED
    BY <1>2, <2>1 DEF Work, Instance, PortField
<1>4. q = IF "ring_role" \in bad
          THEN [x |-> [x EXCEPT !.refused = @ \cup {"ring_role"}], err |-> TRUE]
          ELSE [x |-> [x EXCEPT !.timers = @ \cup (armed \cap {"ring"})], err |-> FALSE]
  BY Zenon DEF mrp_set_ring_role
<1> HIDE DEF x, q
<1>5. CASE "ring_role" \in bad
  <2>1. q.x = [x EXCEPT !.refused = @ \cup {"ring_role"}] /\ q.err /\ q \in Work
    BY <1>3, <1>4, <1>5 DEF Work, Instance
  <2>. QED
    BY <1>1, <1>3, <2>1 DEF Ringed, Begun, PortsOf, Work, Instance, PortField, InMode, q, s
<1>6. CASE "ring_role" \notin bad
  <2>1. q.x = [x EXCEPT !.timers = @ \cup (armed \cap {"ring"})] /\ ~q.err /\ q \in Work
    BY <1>3, <1>4, <1>6 DEF Work, Instance, Timer
  <2>. QED
    BY <1>1, <1>3, <2>1 DEF Ringed, Begun, PortsOf, Work, Instance, PortField, InMode, q, s
<1>. QED
  BY <1>5, <1>6

\* The interconnection role needs the third port, and overwrites an error of the ring role.
LEMMA InRoleSet ==
    ASSUME NEW c \in Config, NEW r, Ringed(r, c), NEW bad, NEW armed \in SUBSET Timer
    PROVE  BuiltFor(mrp_set_in_role(r, c.in_role, bad, armed), c)
<1> DEFINE role == c.in_role
           x == [r.x EXCEPT !.in_role = role]
           q == mrp_set_in_role(r, role, bad, armed)
<1>1. /\ r \in Work /\ r.x \in Instance /\ r.x.id = c.id /\ r.x.in_mode = c.in_mode
      /\ c.in_mode \in InMode /\ role \in InRole /\ r.x.in_role = "DISABLED"
      /\ \A f \in PortField : r.x[f] = c[f]
      /\ r.x.p_port # NoPort /\ r.x.s_port # NoPort
  BY IfindexAssumption DEF Ringed, Begun, Config, Work, PortField, NoPort
<1>2. CASE role = "DISABLED"
  <2>1. q = r
    BY <1>2 DEF mrp_set_in_role
  <2> HIDE DEF q
  <2>2. Timed(r.x)
    BY <1>1 DEF Ringed, Timed, Armable
  <2>3. ~r.err => Complete(r.x)
    BY <1>1, <2>2 DEF Ringed, Complete
  <2>4. BuiltFor(r, c)
    BY <1>1, <2>2, <2>3 DEF BuiltFor, Ringed
  <2>. QED
    BY <2>1, <2>4 DEF q
<1>3. CASE role # "DISABLED" /\ r.x.i_port = NoPort
  <2>1. q = [r EXCEPT !.err = TRUE]
    BY <1>3 DEF mrp_set_in_role
  <2>2. q \in Work /\ q.x = r.x /\ q.err
    BY Zenon, <1>1, <2>1 DEF Work
  <2> HIDE DEF q
  <2>3. Timed(r.x)
    BY <1>1 DEF Ringed, Timed, Armable
  <2>. QED
    BY <2>2, <2>3 DEF BuiltFor, Ringed, Begun, q
<1>4. CASE role # "DISABLED" /\ r.x.i_port # NoPort
  <2>1. q = IF "in_role" \in bad
            THEN [x |-> [x EXCEPT !.refused = @ \cup {"in_role"}], err |-> TRUE]
            ELSE [x |-> [x EXCEPT !.timers = @ \cup (armed \cap Armable(x))], err |-> FALSE]
    BY <1>4, Zenon DEF mrp_set_in_role
  <2>2. /\ x \in Instance /\ x.id = c.id /\ x.in_mode = c.in_mode /\ x.in_role = role
        /\ x.i_port # NoPort /\ x.p_port # NoPort /\ x.s_port # NoPort
        /\ x.timers = r.x.timers /\ x.refused = r.x.refused /\ PortsOf(x, c)
    BY <1>1, <1>4 DEF Instance, PortsOf, PortField
  <2>3. "ring" \in Armable(x) /\ "cfm_ccm" \notin Armable(x) /\ Armable(x) \subseteq Timer
    <3> HIDE DEF x
    <3>. QED
      BY <1>1, <2>2 DEF Armable, Timer, InMode, InRole
  <2> HIDE DEF x, q
  <2>4. CASE "in_role" \in bad
    <3> DEFINE y == [x EXCEPT !.refused = @ \cup {"in_role"}]
    <3>1. q.x = y /\ q.err /\ q = [x |-> y, err |-> TRUE]
      BY <2>1, <2>4
    <3>2. /\ y \in Instance /\ y.id = x.id /\ y.in_mode = x.in_mode /\ y.timers = x.timers
          /\ y.in_role = x.in_role /\ PortsOf(y, c)
      BY <2>2 DEF Instance, PortsOf, PortField
    <3>3. Armable(y) = Armable(x)
      BY <3>2 DEF Armable
    <3> HIDE DEF y
    <3>4. q \in Work /\ Begun(q, c)
      BY <2>2, <3>1, <3>2 DEF Work, Begun
    <3>. QED
      BY <2>2, <2>3, <3>1, <3>2, <3>3, <3>4 DEF BuiltFor, Timed, Ringed, q
  <2>5. CASE "in_role" \notin bad
    <3> DEFINE y == [x EXCEPT !.timers = @ \cup (armed \cap Armable(x))]
    <3>1. q.x = y /\ ~q.err /\ q = [x |-> y, err |-> FALSE]
      BY <2>1, <2>5
    <3>2. /\ y \in Instance /\ y.id = x.id /\ y.in_mode = x.in_mode
          /\ y.timers = x.timers \cup (armed \cap Armable(x)) /\ y.refused = x.refused
          /\ y.in_role = x.in_role /\ PortsOf(y, c)
          /\ y.i_port # NoPort /\ y.p_port # NoPort /\ y.s_port # NoPort
      BY <2>2, <2>3 DEF Instance, PortsOf, PortField
    <3>3. Armable(y) = Armable(x)
      BY <3>2 DEF Armable
    <3> HIDE DEF y
    <3>4. q \in Work /\ Begun(q, c)
      BY <2>2, <3>1, <3>2 DEF Work, Begun
    <3>5. Timed(y) /\ ("cfm_ccm" \in y.timers <=> c.in_mode = "LC")
      BY <2>2, <2>3, <3>2, <3>3 DEF Timed, Ringed
    <3>6. Complete(y)
      BY <1>4, <2>2, <3>2, <3>5 DEF Complete, Ringed
    <3>. QED
      BY <3>1, <3>4, <3>5, <3>6 DEF BuiltFor, q
  <2>. QED
    BY <2>4, <2>5
<1>. QED
  BY <1>2, <1>3, <1>4

\* mrp_add builds what the command asks for, or notes an error.
LEMMA BuiltInstance ==
    ASSUME NEW c \in Config, NEW bad, NEW armed \in SUBSET Timer
    PROVE  BuiltFor(Built(c, bad, armed), c)
<1> DEFINE p == Ports(c, bad)
           r == mrp_start_cfm(p)
<1>1. Plain(p, c) /\ (~p.err => \A f \in PortField : p.x[f] = c[f]) /\ p \in Work
  BY PortsSet DEF Plain, Begun
<1>2. Built(c, bad, armed) =
         IF r.err THEN r
         ELSE mrp_set_in_role(mrp_set_ring_role(r, bad, armed), c.in_role, bad, armed)
  BY Zenon DEF Built
<1> HIDE DEF p
<1>3. r.err <=> p.err
  BY <1>1 DEF mrp_start_cfm, Work
<1>4. CASE p.err
  <2>1. r = p
    BY <1>4 DEF mrp_start_cfm
  <2>2. Timed(p.x)
    BY <1>1 DEF Plain, Timed
  <2>3. BuiltFor(p, c)
    BY <1>1, <1>4, <2>2 DEF BuiltFor, Plain
  <2>. QED
    BY <1>2, <1>4, <2>1, <2>3
<1>5. CASE ~p.err
  <2>1. Ringed(mrp_set_ring_role(r, bad, armed), c)
    BY <1>1, <1>5, RingRole
  <2> HIDE DEF r
  <2>2. BuiltFor(mrp_set_in_role(mrp_set_ring_role(r, bad, armed), c.in_role, bad, armed), c)
    BY <2>1, InRoleSet
  <2>. QED
    BY <1>2, <1>3, <1>5, <2>2
<1>. QED
  BY <1>4, <1>5

\* The state of a server between two callbacks; a crash may have left end points behind.
Table == [list : Seq(Instance), freed : SUBSET Forgotten, meps : SUBSET Id]
ServerOK(S, crashed) == S \in Table /\ TableOK(S) /\ MepsOK(S, crashed)

\* Removing what was appended gives the list that was there before.
LEMMA AppendRemoved ==
    ASSUME NEW T, NEW s \in Seq(T), NEW x \in T
    PROVE  RemoveAt(Append(s, x), Len(s) + 1) = s
<1> DEFINE t == Append(s, x)
           r == RemoveAt(t, Len(s) + 1)
<1>1. /\ t \in Seq(T) /\ Len(t) = Len(s) + 1 /\ Len(s) \in Nat
      /\ \A i \in 1 .. Len(s) : t[i] = s[i]
  BY AppendProperties, LenProperties
<1> HIDE DEF t
<1>2. Len(s) + 1 \in 1 .. Len(t)
  BY <1>1
<1>3. /\ r \in Seq(T) /\ Len(r) = Len(t) - 1
      /\ \A i \in 1 .. Len(t) - 1 : r[i] = IF i < Len(s) + 1 THEN t[i] ELSE t[i + 1]
  BY Zenon, <1>1, <1>2, RemoveAtProperties
<1> HIDE DEF r
<1>4. Len(r) = Len(s) /\ \A i \in 1 .. Len(s) : r[i] = s[i]
  BY <1>1, <1>3
<1>5. r = s
  BY <1>3, <1>4, SeqEqual
<1>. QED
  BY <1>5 DEF r, t

\* L is the table S with x at the end of its list.
Longer(L, S, x) ==
    /\ L \in Table /\ Distinct(L.list) /\ L.freed = S.freed
    /\ L.list = Append(S.list, x)
    /\ L.meps = IF "cfm_ccm" \in x.timers THEN S.meps \cup {x.id} ELSE S.meps
    /\ Len(L.list) = Len(S.list) + 1 /\ L.list[Len(S.list) + 1] = x
    /\ \A i \in 1 .. Len(S.list) : L.list[i] = S.list[i]
    /\ mrp_get(L) = mrp_get(S) \cup {x.id}
    /\ LcNames(L) = LcNames(S) \cup IF x.in_mode = "LC" THEN {x.id} ELSE {}

\* A name that was not in the table is added at the end.
LEMMA ListedProperties ==
    ASSUME NEW S \in Table, Distinct(S.list), NEW x \in Instance, x.id \notin mrp_get(S)
    PROVE  Longer(Listed(S, x), S, x)
<1> DEFINE L == Listed(S, x)
           s == S.list
           l == L.list
           n == Len(s)
<1>1. s \in Seq(Instance) /\ x.id \in Id /\ n \in Nat /\ DOMAIN s = 1 .. n
  BY LenProperties DEF Table, Instance
<1>2. /\ L \in Table /\ L.freed = S.freed /\ l = Append(s, x)
      /\ L.meps = IF "cfm_ccm" \in x.timers THEN S.meps \cup {x.id} ELSE S.meps
  BY Zenon, <1>1, AppendProperties DEF Listed, Table
<1>3. /\ Len(l) = n + 1 /\ l[n + 1] = x /\ \A i \in 1 .. n : l[i] = s[i]
      /\ l \in Seq(Instance)
  BY <1>1, <1>2, AppendProperties
<1>4. DOMAIN l = 1 .. (n + 1)
  BY <1>3, LenProperties
<1>5. \A i \in 1 .. n : s[i].id # x.id
  BY <1>1 DEF mrp_get
<1> HIDE DEF s, l, n
<1>6. Distinct(l)
  <2> SUFFICES ASSUME NEW i \in 1 .. Len(l), NEW j \in 1 .. Len(l), l[i].id = l[j].id
               PROVE  i = j
    BY DEF Distinct
  <2>1. CASE i \in 1 .. n /\ j \in 1 .. n
    BY <1>3, <2>1 DEF Distinct, s, n
  <2>2. CASE i = n + 1 \/ j = n + 1
    BY <1>1, <1>3, <1>5, <2>2
  <2>. QED
    BY <1>1, <1>3, <2>1, <2>2
<1>7. /\ {l[i].id : i \in 1 .. (n + 1)} = {s[i].id : i \in 1 .. n} \cup {x.id}
      /\ {l[i].id : i \in {j \in 1 .. (n + 1) : l[j].in_mode = "LC"}} =
            {s[i].id : i \in {j \in 1 .. n : s[j].in_mode = "LC"}}
               \cup IF x.in_mode = "LC" THEN {x.id} ELSE {}
  <2> DEFINE D == 1 .. n
             E == 1 .. (n + 1)
  <2>1. /\ \A i \in E : i \in D \/ i = n + 1
        /\ \A i \in D : i \in E /\ l[i] = s[i]
        /\ n + 1 \in E /\ l[n + 1] = x
    BY <1>1, <1>3
  <2> HIDE DEF D, E
  <2>2. {l[i].id : i \in E} = {s[i].id : i \in D} \cup {x.id}
    BY <2>1
  <2>3. {l[i].id : i \in {j \in E : l[j].in_mode = "LC"}} =
            {s[i].id : i \in {j \in D : s[j].in_mode = "LC"}}
               \cup IF x.in_mode = "LC" THEN {x.id} ELSE {}
    <3>1. CASE x.in_mode = "LC"
      BY <2>1, <3>1
    <3>2. CASE x.in_mode # "LC"
      BY <2>1, <3>2
    <3>. QED
      BY <3>1, <3>2
  <2>. QED
    BY <2>2, <2>3 DEF D, E
<1>8. /\ mrp_get(L) = mrp_get(S) \cup {x.id}
      /\ LcNames(L) = LcNames(S) \cup IF x.in_mode = "LC" THEN {x.id} ELSE {}
  BY <1>1, <1>4, <1>7, Zenon DEF mrp_get, LcNames, s, l
<1>. QED
  BY <1>2, <1>3, <1>6, <1>8, Zenon DEF Longer, s, l, n

\* What mrp_add makes of the table S: the instance is there and complete, or nothing has
\* changed.
Added(a, S, c, crashed) ==
    /\ ServerOK(a.S, crashed)
    /\ \/ a.res = "ok" /\ c.id \notin mrp_get(S) /\ mrp_get(a.S) = mrp_get(S) \cup {c.id}
          /\ \E x \in Instance : /\ x.id = c.id /\ PortsOf(x, c)
                                /\ a.S.list = Append(S.list, x)
       \/ a.res = "error" /\ a.S.list = S.list

\* mrp_add adds a complete instance, or puts everything back.
LEMMA AddKeeps ==
    ASSUME NEW crashed \in BOOLEAN, NEW S, ServerOK(S, crashed), NEW c \in Config, NEW bad,
           NEW armed \in SUBSET Timer
    PROVE  Added(mrp_add(S, c, bad, armed), S, c, crashed)
<1> DEFINE r == Built(c, bad, armed)
           L == Listed(S, r.x)
           a == mrp_add(S, c, bad, armed)
<1>1. /\ a = IF mrp_find(S, c.id) # 0 \/ "create" \in bad THEN [S |-> S, res |-> "error"]
             ELSE IF r.err THEN [S |-> mrp_destroy(L, c.id), res |-> "error"]
             ELSE [S |-> L, res |-> "ok"]
  BY Zenon DEF mrp_add
<1>2. BuiltFor(r, c)
  BY BuiltInstance, Zenon
<1> HIDE DEF a, r
<1>3. /\ r.x \in Instance /\ r.x.id = c.id /\ r.x.in_mode = c.in_mode /\ Timed(r.x)
      /\ r.err \in BOOLEAN
  BY <1>2 DEF BuiltFor, Begun, Work
<1>4. /\ S \in Table /\ S.list \in Seq(Instance) /\ Distinct(S.list) /\ TableOK(S)
      /\ MepsOK(S, crashed) /\ DOMAIN S.list = 1 .. Len(S.list) /\ Len(S.list) \in Nat
  BY LenProperties DEF ServerOK, TableOK
<1>5. CASE mrp_find(S, c.id) # 0 \/ "create" \in bad
  <2>1. a.S = S /\ a.res = "error"
    BY <1>1, <1>5
  <2>. QED
    BY <2>1 DEF Added, a
<1>6. CASE ~(mrp_find(S, c.id) # 0 \/ "create" \in bad)
  <2>1. c.id \notin mrp_get(S) /\ c.id \notin LcNames(S)
    BY <1>4, <1>6, FindProperties DEF mrp_get, LcNames
  <2>2. /\ L \in Table /\ Distinct(L.list) /\ L.freed = S.freed
        /\ L.list = Append(S.list, r.x)
        /\ L.meps = IF "cfm_ccm" \in r.x.timers THEN S.meps \cup {c.id} ELSE S.meps
        /\ Len(L.list) = Len(S.list) + 1 /\ L.list[Len(S.list) + 1] = r.x
        /\ \A i \in 1 .. Len(S.list) : L.list[i] = S.list[i]
        /\ mrp_get(L) = mrp_get(S) \cup {c.id}
        /\ LcNames(L) = LcNames(S) \cup IF r.x.in_mode = "LC" THEN {c.id} ELSE {}
    <3>1. Longer(L, S, r.x)
      <4>1. r.x.id \notin mrp_get(S)
        BY <1>3, <2>1
      <4>. QED
        BY <1>3, <1>4, <4>1, ListedProperties, Zenon
    <3> HIDE DEF L
    <3>. QED
      BY <1>3, <3>1 DEF Longer
  <2> HIDE DEF L
  <2>3. CASE r.err
    <3> DEFINE R == mrp_destroy(L, c.id)
               k == Len(S.list) + 1
    <3>1. L.list \in Seq(Instance) /\ k \in 1 .. Len(L.list) /\ c.id = L.list[k].id
      BY <1>3, <1>4, <2>2 DEF Table
    <3>2. /\ R.list = RemoveAt(L.list, k)
          /\ R.freed = L.freed \cup StillArmed(mrp_reset_ring_state(L.list[k]))
          /\ R.meps = IF L.list[k].in_mode = "LC" THEN L.meps \ {c.id} ELSE L.meps
      BY Zenon, <2>2, <3>1, Destroyed
    <3>3. R.list = S.list
      BY <1>3, <1>4, <2>2, <3>2, AppendRemoved
    <3>4. R = [list |-> R.list, freed |-> R.freed, meps |-> R.meps]
      <4>1. mrp_find(L, c.id) # 0
        BY <3>1, FindProperties
      <4>2. \E u, v, w : R = [list |-> u, freed |-> v, meps |-> w]
        BY <4>1, Zenon DEF mrp_destroy
      <4> HIDE DEF R
      <4>. QED
        BY <4>2
    <3> HIDE DEF R
    <3>5. R.freed \subseteq Forgotten
      BY <1>3, <1>4, <2>2, <3>2, ForgottenTimers DEF Table
    <3>6. R.meps = S.meps \/ R.meps = S.meps \ {c.id}
      BY <1>2, <1>3, <2>2, <3>2 DEF BuiltFor
    <3>7. R \in Table
      BY <1>4, <3>3, <3>4, <3>5, <3>6 DEF Table
    <3>8. TableOK(R) /\ LcNames(R) = LcNames(S)
      BY <1>4, <3>3 DEF TableOK, LcNames
    <3>9. MepsOK(R, crashed)
      BY Zenon, <1>4, <2>1, <3>6, <3>8 DEF MepsOK
    <3>10. a.S = R /\ a.res = "error"
      BY <1>1, <1>6, <2>3 DEF R
    <3>. QED
      BY <3>3, <3>7, <3>8, <3>9, <3>10 DEF Added, ServerOK, a
  <2>4. CASE ~r.err
    <3>1. TableOK(L)
      <4>1. \A i \in 1 .. Len(L.list) : Complete(L.list[i])
        <5>1. \A i \in 1 .. Len(L.list) : i \in 1 .. Len(S.list) \/ i = Len(S.list) + 1
          BY <1>4, <2>2
        <5>. QED
          BY <1>2, <1>4, <2>2, <2>4, <5>1 DEF TableOK, BuiltFor
      <4>. QED
        BY Zenon, <2>2, <4>1 DEF TableOK, Table
    <3>2. MepsOK(L, crashed)
      BY <1>2, <1>3, <1>4, <2>2, <2>4 DEF MepsOK, BuiltFor
    <3>3. a.S = L /\ a.res = "ok"
      BY <1>1, <1>6, <2>4
    <3>4. PortsOf(r.x, c)
      BY <1>2 DEF BuiltFor, Begun
    <3>. QED
      BY <1>3, <2>1, <2>2, <3>1, <3>2, <3>3, <3>4 DEF Added, ServerOK, a
  <2>. QED
    BY <1>3, <2>3, <2>4
<1>. QED
  BY <1>5, <1>6

-----------------------------------------------------------------------------
(***************************************************************************)
(* The other operations on the table.                                      *)
(***************************************************************************)
\* R is the state S without the k-th instance.
Without(R, S, k, crashed) ==
    /\ ServerOK(R, crashed)
    /\ R.list = RemoveAt(S.list, k)
    /\ mrp_get(R) = mrp_get(S) \ {S.list[k].id}

\* mrp_destroy of a listed name.
LEMMA DestroyOK ==
    ASSUME NEW crashed \in BOOLEAN, NEW S, ServerOK(S, crashed), NEW k \in 1 .. Len(S.list)
    PROVE  Without(mrp_destroy(S, S.list[k].id), S, k, crashed)
<1> DEFINE id == S.list[k].id
           R == mrp_destroy(S, id)
<1>1. /\ S \in Table /\ S.list \in Seq(Instance) /\ TableOK(S) /\ S.freed \subseteq Forgotten
      /\ MepsOK(S, crashed) /\ Distinct(S.list)
  BY DEF ServerOK, Table, TableOK
<1>2. /\ TableOK(R) /\ R.freed \subseteq Forgotten /\ MepsOK(R, crashed)
      /\ R.list = RemoveAt(S.list, k) /\ mrp_get(R) = mrp_get(S) \ {id}
  BY <1>1, DestroyKeeps
<1>3. \E u, v, w : R = [list |-> u, freed |-> v, meps |-> w]
  <2>1. mrp_find(S, id) # 0
    BY <1>1, FindProperties
  <2>. QED
    BY <2>1, Zenon DEF mrp_destroy
<1>4. R.meps \subseteq Id
  <2>1. R.meps = S.meps \ {id} \/ R.meps = S.meps
    BY Zenon, <1>1, Destroyed
  <2>. QED
    BY <1>1, <2>1 DEF Table
<1> HIDE DEF R
<1>5. R.list \in Seq(Instance)
  BY <1>2 DEF TableOK
<1>6. R \in Table
  BY <1>2, <1>3, <1>4, <1>5 DEF Table
<1>. QED
  BY <1>2, <1>6 DEF Without, ServerOK, R

\* mrp_del removes the instance, or says that there is none.
Deleted(d, S, id, crashed) ==
    \/ /\ d.res = "ok" /\ id \in mrp_get(S) /\ mrp_get(d.S) = mrp_get(S) \ {id}
       /\ \E k \in 1 .. Len(S.list) : Without(d.S, S, k, crashed)
    \/ d.res = "error" /\ id \notin mrp_get(S) /\ d.S = S

\* mrp_del on any name.
LEMMA DelKeeps ==
    ASSUME NEW crashed \in BOOLEAN, NEW S, ServerOK(S, crashed), NEW id
    PROVE  Deleted(mrp_del(S, id), S, id, crashed)
<1> DEFINE k == mrp_find(S, id)
           d == mrp_del(S, id)
<1>1. S.list \in Seq(Instance) /\ DOMAIN S.list = 1 .. Len(S.list)
  BY LenProperties DEF ServerOK, Table
<1>2. CASE k = 0
  <2>1. id \notin mrp_get(S)
    BY <1>1, <1>2, FindProperties DEF mrp_get
  <2>2. d.S = S /\ d.res = "error"
    BY <1>2 DEF mrp_del
  <2>. QED
    BY <2>1, <2>2 DEF Deleted
<1>3. CASE k # 0
  <2>1. k \in 1 .. Len(S.list) /\ S.list[k].id = id
    BY <1>1, <1>3, FindProperties
  <2>2. d.S = mrp_destroy(S, id) /\ d.res = "ok"
    BY <1>3 DEF mrp_del
  <2> HIDE DEF d, k
  <2>3. Without(mrp_destroy(S, S.list[k].id), S, k, crashed)
    BY <2>1, DestroyOK
  <2>4. Without(d.S, S, k, crashed)
    BY <2>1, <2>2, <2>3
  <2>5. id \in mrp_get(S)
    BY <1>1, <2>1 DEF mrp_get
  <2>6. mrp_get(d.S) = mrp_get(S) \ {id}
    BY <2>1, <2>4 DEF Without
  <2>. QED
    BY <2>1, <2>2, <2>4, <2>5, <2>6 DEF Deleted, d
<1>. QED
  BY <1>2, <1>3

\* mrp_get_port finds an instance with the port, if there is one.
LEMMA PortProperties ==
    ASSUME NEW S, NEW p, mrp_get_port(S, p) # 0
    PROVE  /\ mrp_get_port(S, p) \in 1 .. Len(S.list)
           /\ \E f \in PortField : S.list[mrp_get_port(S, p)][f] = p
<1> DEFINE I == {i \in 1 .. Len(S.list) : \E f \in PortField : S.list[i][f] = p}
<1>1. mrp_get_port(S, p) = IF I # {} THEN Min(I) ELSE 0
  BY DEF mrp_get_port, SelectInSeq
<1>2. I # {}
  BY <1>1
<1>3. I \in SUBSET Nat
  OBVIOUS
<1>4. Min(I) \in I
  <2>1. \E x \in I : \A y \in I : x <= y
    BY Zenon, <1>2, <1>3, LeastExists
  <2>. QED
    BY Zenon, <2>1 DEF Min
<1>. QED
  BY Zenon, <1>1, <1>2, <1>4

\* A port that leaves its bridge takes an instance with it.
LEMMA LeaveKeeps ==
    ASSUME NEW crashed \in BOOLEAN, NEW S, ServerOK(S, crashed), NEW p, mrp_get_port(S, p) # 0
    PROVE  Without(leave_bridge(S, p), S, mrp_get_port(S, p), crashed)
<1> DEFINE k == mrp_get_port(S, p)
<1>1. k \in 1 .. Len(S.list)
  BY PortProperties
<1>2. leave_bridge(S, p) = mrp_destroy(S, S.list[k].id)
  BY DEF leave_bridge
<1> HIDE DEF k
<1>3. Without(mrp_destroy(S, S.list[k].id), S, k, crashed)
  BY <1>1, DestroyOK
<1>. QED
  BY <1>2, <1>3 DEF k

\* The instances of R are those of S, with other timers.
Retimed(R, S) ==
    /\ Len(R.list) = Len(S.list) /\ mrp_get(R) = mrp_get(S)
    /\ \A i \in 1 .. Len(S.list) : /\ R.list[i].id = S.list[i].id
                                   /\ \A f \in PortField : R.list[i][f] = S.list[i][f]

\* The k-th instance has armed the timers of armed.
Rearmed(R, S, k, armed) ==
    R = [S EXCEPT !.list[k].timers = (@ \cap {"cfm_ccm"}) \cup armed]

\* A callback changes the timers of one instance.
LEMMA CallbackKeeps ==
    ASSUME NEW crashed \in BOOLEAN, NEW S, ServerOK(S, crashed), NEW k \in DOMAIN S.list,
           NEW armed \in {{}, Armable(S.list[k])}, NEW R,
           Rearmed(R, S, k, armed)
    PROVE  ServerOK(R, crashed) /\ Retimed(R, S)
<1> DEFINE x == S.list[k]
           y == [x EXCEPT !.timers = (@ \cap {"cfm_ccm"}) \cup armed]
<1>1. /\ S \in Table /\ S.list \in Seq(Instance) /\ Distinct(S.list)
      /\ \A i \in 1 .. Len(S.list) : Complete(S.list[i])
      /\ MepsOK(S, crashed) /\ DOMAIN S.list = 1 .. Len(S.list) /\ Len(S.list) \in Nat
  BY LenProperties DEF ServerOK, Table, TableOK
<1>2. x \in Instance /\ Complete(x) /\ Timed(x)
  BY <1>1 DEF Complete
<1>3. R.list = [S.list EXCEPT ![k] = y] /\ R.freed = S.freed /\ R.meps = S.meps
      /\ R = [S EXCEPT !.list = R.list]
  BY <1>1 DEF Table, Rearmed
<1> HIDE DEF x
<1>4. Armable(x) \subseteq Timer
  BY <1>2 DEF Armable, Timer, Instance, InRole, InMode
<1>5. /\ y \in Instance /\ y.id = x.id /\ y.in_mode = x.in_mode /\ y.in_role = x.in_role
      /\ \A f \in PortField : y[f] = x[f]
      /\ y.refused = x.refused /\ y.timers = (x.timers \cap {"cfm_ccm"}) \cup armed
  BY <1>2, <1>4 DEF Instance, PortField, Timer, x
<1> HIDE DEF y
<1>6. Armable(y) = Armable(x)
  BY <1>5 DEF Armable
<1>7. Timed(y)
  <2>1. armed \subseteq Armable(x)
    BY DEF x
  <2>2. "cfm_ccm" \notin Armable(x)
    BY DEF Armable
  <2>. QED
    BY <1>2, <1>5, <1>6, <2>1, <2>2 DEF Timed
<1>8. Complete(y)
  BY <1>2, <1>5, <1>7 DEF Complete, PortField
<1>9. /\ R.list \in Seq(Instance) /\ Len(R.list) = Len(S.list)
      /\ DOMAIN R.list = 1 .. Len(S.list)
      /\ \A i \in 1 .. Len(S.list) : R.list[i] = IF i = k THEN y ELSE S.list[i]
  <2> DEFINE s == S.list
             t == R.list
  <2>1. s \in Seq(Instance) /\ k \in 1 .. Len(s) /\ t = [s EXCEPT ![k] = y]
    BY <1>1, <1>3
  <2> HIDE DEF s, t
  <2>2. /\ t \in Seq(Instance) /\ Len(t) = Len(s)
        /\ \A j \in 1 .. Len(s) : t[j] = IF j = k THEN y ELSE s[j]
    BY <1>5, <2>1, ExceptSeq
  <2>3. DOMAIN t = 1 .. Len(s)
    BY <2>2, LenProperties
  <2>. QED
    BY <2>2, <2>3 DEF s, t
<1>10. R \in Table
  BY <1>1, <1>3, <1>9 DEF Table
<1>11. /\ \A i \in 1 .. Len(S.list) : /\ R.list[i].id = S.list[i].id
                                      /\ R.list[i].in_mode = S.list[i].in_mode
                                      /\ \A f \in PortField : R.list[i][f] = S.list[i][f]
  BY <1>5, <1>9 DEF x
<1>12. TableOK(R)
  <2>1. \A i \in 1 .. Len(R.list) : Complete(R.list[i])
    BY <1>1, <1>8, <1>9
  <2>2. Distinct(R.list)
    BY <1>1, <1>9, <1>11 DEF Distinct
  <2>. QED
    BY <1>9, <2>1, <2>2 DEF TableOK
<1>13. mrp_get(R) = mrp_get(S) /\ LcNames(R) = LcNames(S)
  <2> DEFINE s == S.list
             t == R.list
             D == 1 .. Len(s)
  <2>1. /\ DOMAIN s = D /\ DOMAIN t = D
        /\ \A i \in D : t[i].id = s[i].id /\ t[i].in_mode = s[i].in_mode
    BY <1>1, <1>9, <1>11
  <2> HIDE DEF s, t, D
  <2>2. {t[i].id : i \in D} = {s[i].id : i \in D}
    BY <2>1
  <2>3. {t[i].id : i \in {j \in D : t[j].in_mode = "LC"}} =
           {s[i].id : i \in {j \in D : s[j].in_mode = "LC"}}
    BY <2>1
  <2>. QED
    BY <2>1, <2>2, <2>3, Zenon DEF mrp_get, LcNames, s, t
<1>14. MepsOK(R, crashed)
  BY <1>1, <1>3, <1>13 DEF MepsOK
<1>. QED
  BY <1>9, <1>10, <1>11, <1>12, <1>13, <1>14 DEF ServerOK, Retimed

=============================================================================
