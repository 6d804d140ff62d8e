---------------------------- MODULE ServerProofs ----------------------------
(***************************************************************************)
(* The server and the control protocol, proved for any number of runs of   *)
(* the command, any requests, any failing calls and any number of stops    *)
(* and crashes.                                                            *)
(***************************************************************************)
EXTENDS Server, TableProofs

-----------------------------------------------------------------------------
(***************************************************************************)
(* The server.                                                             *)
(***************************************************************************)
\* The instance x was added for one of the requests in o.
Origin(x, o) ==
    \E c \in Client : o[c].cmd = "add" /\ x.id = o[c].id /\ PortsOf(x, o[c].conf)

Origins(S, o) == \A i \in 1 .. Len(S.list) : Origin(S.list[i], o)

\* The invariant of the server.  The requests in the socket are those of runs.
ServerInv ==
    /\ ServerOK(srv, crashes > 0) /\ Origins(srv, op)
    /\ op \in Asked /\ socket \in Seq(Client) /\ crashes \in Nat

\* Nothing is in the table when the server starts.
LEMMA EmptyOK ==
    ASSUME NEW crashed \in BOOLEAN, NEW m \in SUBSET Id, ~crashed => m = {}
    PROVE  LET R == [NoInstances EXCEPT !.meps = m]
           IN ServerOK(R, crashed) /\ mrp_get(R) = {} /\ Len(R.list) = 0
<1> DEFINE R == [NoInstances EXCEPT !.meps = m]
<1>1. NoInstances \in Table /\ NoInstances.list = <<>>
  BY EmptySeq DEF NoInstances, Table
<1>2. <<>> \in Seq(Instance) /\ Len(<<>>) = 0 /\ DOMAIN <<>> = {}
  BY EmptySeq
<1>3. R \in Table /\ R.list = <<>> /\ R.meps = m
  BY <1>1 DEF Table
<1> HIDE DEF R
<1>4. TableOK(R)
  BY <1>2, <1>3 DEF TableOK, Distinct
<1>5. mrp_get(R) = {} /\ LcNames(R) = {}
  BY <1>2, <1>3 DEF mrp_get, LcNames
<1>6. MepsOK(R, crashed)
  BY <1>3, <1>5 DEF MepsOK
<1>. QED
  BY <1>2, <1>3, <1>4, <1>5, <1>6 DEF ServerOK, R

\* Removing an instance keeps the origin of the others.
LEMMA OriginsShorter ==
    ASSUME NEW crashed, NEW S \in Table, NEW o, Origins(S, o), NEW k \in 1 .. Len(S.list), NEW R,
           Without(R, S, k, crashed)
    PROVE  Origins(R, o)
<1>1. R.list = RemoveAt(S.list, k) /\ S.list \in Seq(Instance)
  BY DEF Without, Table
<1>2. EqualBut(R.list, S.list, k)
  BY <1>1, Others, Zenon
<1>. QED
  BY <1>2 DEF EqualBut, Origins

\* What the server makes of the request of c: of the table S the table R and the result r.
Effect(R, S, r, c, o, crashed) ==
    /\ ServerOK(R, crashed) /\ Origins(R, o)
    /\ \/ /\ o[c].cmd = "add" /\ o[c].id \notin mrp_get(S)
          /\ mrp_get(R) = mrp_get(S) \cup {o[c].id} /\ r = Result("ok", {})
       \/ /\ o[c].cmd = "del" /\ o[c].id \in mrp_get(S)
          /\ mrp_get(R) = mrp_get(S) \ {o[c].id} /\ r = Result("ok", {})
       \/ o[c].cmd = "get" /\ mrp_get(R) = mrp_get(S) /\ r = Result("ok", mrp_get(S))
       \/ /\ o[c].cmd = "add" \/ (o[c].cmd = "del" /\ o[c].id \notin mrp_get(S))
          /\ mrp_get(R) = mrp_get(S) /\ r = Error

\* An addmrp of the run c.
LEMMA AddEffect ==
    ASSUME NEW crashed \in BOOLEAN, NEW S, ServerOK(S, crashed), NEW o \in Asked, Origins(S, o),
           NEW c \in Client, o[c].cmd = "add", NEW bad, NEW armed \in SUBSET Timer
    PROVE  LET a == mrp_add(S, o[c].conf, bad, armed)
           IN Effect(a.S, S, Result(a.res, {}), c, o, crashed)
<1> DEFINE f == o[c].conf
           a == mrp_add(S, f, bad, armed)
<1>1. f \in Config /\ f.id = o[c].id
  BY ServerAssumption DEF Command
<1>2. Added(a, S, f, crashed)
  BY <1>1, AddKeeps
<1>3. S.list \in Seq(Instance) /\ DOMAIN S.list = 1 .. Len(S.list) /\ Len(S.list) \in Nat
  BY LenProperties DEF ServerOK, Table
<1> HIDE DEF a
<1>4. CASE a.res = "error" /\ a.S.list = S.list
  <2>1. Origins(a.S, o) /\ mrp_get(a.S) = mrp_get(S)
    BY <1>4 DEF Origins, mrp_get
  <2>. QED
    BY <1>2, <1>4, <2>1 DEF Effect, Added, Error, a
<1>5. CASE ~(a.res = "error" /\ a.S.list = S.list)
  <2>1. PICK x \in Instance : x.id = f.id /\ PortsOf(x, f) /\ a.S.list = Append(S.list, x)
    BY <1>2, <1>5 DEF Added
  <2>2. /\ a.res = "ok" /\ f.id \notin mrp_get(S) /\ mrp_get(a.S) = mrp_get(S) \cup {f.id}
    BY <1>2, <1>5 DEF Added
  <2>3. Origin(x, o)
    BY <1>1, <2>1 DEF Origin
  <2>4. /\ Len(a.S.list) = Len(S.list) + 1 /\ a.S.list[Len(S.list) + 1] = x
        /\ \A i \in 1 .. Len(S.list) : a.S.list[i] = S.list[i]
    BY <1>3, <2>1, AppendProperties
  <2>5. \A i \in 1 .. Len(a.S.list) : i \in 1 .. Len(S.list) \/ i = Len(S.list) + 1
    BY <1>3, <2>4
  <2>6. Origins(a.S, o)
    BY <2>3, <2>4, <2>5 DEF Origins
  <2>7. ServerOK(a.S, crashed)
    BY <1>2 DEF Added
  <2>. QED
    BY <1>1, <2>2, <2>6, <2>7 DEF Effect, a
<1>. QED
  BY <1>4, <1>5

\* A delmrp of the run c.
LEMMA DelEffect ==
    ASSUME NEW crashed \in BOOLEAN, NEW S, ServerOK(S, crashed), NEW o \in Asked, Origins(S, o),
           NEW c \in Client, o[c].cmd = "del"
    PROVE  LET d == mrp_del(S, o[c].id) IN Effect(d.S, S, Result(d.res, {}), c, o, crashed)
<1> DEFINE d == mrp_del(S, o[c].id)
<1>1. Deleted(d, S, o[c].id, crashed)
  BY DelKeeps, Zenon
<1> HIDE DEF d
<1>2. CASE d.res = "error" /\ o[c].id \notin mrp_get(S) /\ d.S = S
  BY <1>2 DEF Effect, Error, d
<1>3. CASE ~(d.res = "error" /\ o[c].id \notin mrp_get(S) /\ d.S = S)
  <2>1. PICK k \in 1 .. Len(S.list) : Without(d.S, S, k, crashed)
    BY <1>1, <1>3 DEF Deleted
  <2>2. d.res = "ok" /\ o[c].id \in mrp_get(S) /\ mrp_get(d.S) = mrp_get(S) \ {o[c].id}
    BY <1>1, <1>3 DEF Deleted
  <2>3. Origins(d.S, o)
    BY <2>1, OriginsShorter, Zenon DEF ServerOK
  <2>4. ServerOK(d.S, crashed)
    BY <2>1 DEF Without
  <2>. QED
    BY <2>2, <2>3, <2>4 DEF Effect, d
<1>. QED
  BY <1>2, <1>3

\* The effect of any request is one that CommandService allows.
LEMMA HandleEffect ==
    ASSUME ServerInv, NEW c \in Client, handle_message(c)
    PROVE  \E R, r : Handled(c, R, r) /\ Effect(R, srv, r, c, op, crashes > 0)
<1> DEFINE crashed == crashes > 0
<1>1. ServerOK(srv, crashed) /\ Origins(srv, op) /\ op \in Asked /\ crashed \in BOOLEAN
  BY DEF ServerInv
<1> HIDE DEF crashed
<1>2. CASE /\ op[c].cmd = "add"
           /\ \E bad \in Failure, armed \in {{}, Timer} :
                 LET a == mrp_add(srv, op[c].conf, bad, armed)
                 IN Handled(c, a.S, Result(a.res, {}))
  <2>1. PICK bad \in Failure, armed \in {{}, Timer} :
                 LET a == mrp_add(srv, op[c].conf, bad, armed)
                 IN Handled(c, a.S, Result(a.res, {}))
    BY <1>2, Zenon
  <2>2. armed \in SUBSET Timer
    OBVIOUS
  <2> DEFINE a == mrp_add(srv, op[c].conf, bad, armed)
  <2>3. Effect(a.S, srv, Result(a.res, {}), c, op, crashed)
    BY <1>1, <1>2, <2>2, AddEffect, Zenon
  <2>4. Handled(c, a.S, Result(a.res, {}))
    BY <2>1
  <2> HIDE DEF a
  <2>. QED
    BY <2>3, <2>4, Zenon DEF crashed
<1>3. CASE /\ op[c].cmd = "del"
           /\ LET d == mrp_del(srv, op[c].id) IN Handled(c, d.S, Result(d.res, {}))
  <2> DEFINE d == mrp_del(srv, op[c].id)
  <2>1. Effect(d.S, srv, Result(d.res, {}), c, op, crashed)
    BY <1>1, <1>3, DelEffect, Zenon
  <2>2. Handled(c, d.S, Result(d.res, {}))
    BY <1>3
  <2> HIDE DEF d
  <2>. QED
    BY <2>1, <2>2, Zenon DEF crashed
<1>4. CASE op[c].cmd = "get" /\ Handled(c, srv, Result("ok", mrp_get(srv)))
  <2>1. Effect(srv, srv, Result("ok", mrp_get(srv)), c, op, crashed)
    BY <1>1, <1>4 DEF Effect
  <2>. QED
    BY <1>4, <2>1, Zenon DEF crashed
<1>. QED
  BY <1>2, <1>3, <1>4, Zenon DEF handle_message

\* A removed instance, new timers or an empty table are steps of the invariant.
LEMMA ServerNext ==
    ServerInv /\ Next => ServerInv'
<1> SUFFICES ASSUME ServerInv, Next PROVE ServerInv'
  OBVIOUS
<1>1. /\ ServerOK(srv, crashes > 0) /\ Origins(srv, op) /\ srv \in Table
      /\ op \in Asked /\ socket \in Seq(Client) /\ crashes \in Nat
      /\ (crashes > 0) \in BOOLEAN
  BY DEF ServerInv, ServerOK
<1>2. ASSUME NEW c \in Client, ClientStep(c) PROVE ServerInv'
  <2>1. UNCHANGED <<srv, op, crashes>> /\ (UNCHANGED socket \/ socket' = Append(socket, c))
    BY <1>2 DEF ClientStep, client_init, client_send_message, client_recv_message,
       poll_timeout
  <2>2. socket' \in Seq(Client)
    BY <1>1, <2>1, AppendProperties
  <2>. QED
    BY <1>1, <2>1, <2>2 DEF ServerInv
<1>3. CASE ctl_rcv_handler
  <2>1. /\ socket # <<>> /\ handle_message(Head(socket)) /\ socket' = Tail(socket)
        /\ UNCHANGED <<op, crashes>>
    BY <1>3 DEF ctl_rcv_handler, clientVars
  <2>2. Head(socket) \in Client /\ socket' \in Seq(Client)
    BY <1>1, <2>1, HeadTailProperties
  <2>3. PICK R, r : /\ Handled(Head(socket), R, r)
                    /\ Effect(R, srv, r, Head(socket), op, crashes > 0)
    BY <2>1, <2>2, HandleEffect
  <2>4. ServerOK(srv', crashes > 0) /\ Origins(srv', op)
    BY <2>3 DEF Handled, Effect
  <2>. QED
    BY <1>1, <2>1, <2>2, <2>4 DEF ServerInv
<1>4. ASSUME NEW p \in Ifindex, netlink_listen(p) PROVE ServerInv'
  <2>1. /\ mrp_get_port(srv, p) # 0 /\ srv' = leave_bridge(srv, p)
        /\ UNCHANGED <<op, socket, crashes>>
    BY <1>4 DEF netlink_listen, clientVars
  <2>2. Without(srv', srv, mrp_get_port(srv, p), crashes > 0)
    BY Zenon, <1>1, <2>1, LeaveKeeps
  <2>3. Origins(srv', op)
    BY <1>1, <2>1, <2>2, PortProperties, OriginsShorter
  <2>. QED
    BY <1>1, <2>1, <2>2, <2>3 DEF ServerInv, Without
<1>5. ASSUME NEW k \in DOMAIN srv.list, callback(k) PROVE ServerInv'
  <2>1. PICK armed \in {{}, Armable(srv.list[k])} : Rearmed(srv', srv, k, armed)
    BY <1>5 DEF callback, Rearmed
  <2>2. UNCHANGED <<op, socket, crashes>>
    BY <1>5 DEF callback, clientVars
  <2>3. ServerOK(srv', crashes > 0) /\ Retimed(srv', srv)
    BY Zenon, <1>1, <2>1, CallbackKeeps
  <2>4. Origins(srv', op)
    BY <1>1, <2>3 DEF Origins, Origin, Retimed, PortsOf
  <2>. QED
    BY <1>1, <2>2, <2>3, <2>4 DEF ServerInv
<1>6. CASE ctl_socket_cleanup
  <2>1. /\ srv' = [NoInstances EXCEPT !.meps = mrp_uninit(srv).meps] /\ socket' = <<>>
        /\ UNCHANGED <<op, crashes>>
    BY <1>6 DEF ctl_socket_cleanup, Gone, clientVars
  <2>2. mrp_uninit(srv).meps = srv.meps \ LcNames(srv)
    BY DEF mrp_uninit
  <2>3. /\ mrp_uninit(srv).meps \in SUBSET Id
        /\ ~(crashes > 0) => mrp_uninit(srv).meps = {}
    BY <1>1, <2>2 DEF Table, ServerOK, MepsOK
  <2>4. ServerOK(srv', crashes > 0) /\ Len(srv'.list) = 0
    BY Zenon, <1>1, <2>1, <2>3, EmptyOK
  <2>. QED
    BY <1>1, <2>1, <2>4, EmptySeq DEF ServerInv, Origins
<1>7. CASE Crash
  <2>1. /\ srv' = [NoInstances EXCEPT !.meps = srv.meps] /\ socket' = <<>>
        /\ UNCHANGED op /\ crashes' = crashes + 1
    BY <1>7 DEF Crash, Gone, clientVars
  <2>2. srv.meps \in SUBSET Id /\ crashes' > 0 /\ crashes' \in Nat
    BY <1>1, <2>1 DEF Table
  <2>3. ServerOK(srv', TRUE) /\ Len(srv'.list) = 0
    BY Zenon, <2>1, <2>2, EmptyOK
  <2>4. ServerOK(srv', crashes' > 0)
    BY Zenon, <2>2, <2>3
  <2>. QED
    BY <1>1, <2>1, <2>2, <2>3, <2>4, EmptySeq DEF ServerInv, Origins
<1>8. CASE ctl_socket_init
  BY <1>1, <1>8 DEF ctl_socket_init, clientVars, ServerInv
<1>. QED
  BY <1>2, <1>3, <1>4, <1>5, <1>6, <1>7, <1>8 DEF Next

\* The invariant holds at all times.
LEMMA ServerInvHolds == Spec => []ServerInv
<1>1. Init => ServerInv
  <2> SUFFICES ASSUME Init PROVE ServerInv
    OBVIOUS
  <2>1. srv = NoInstances /\ socket = <<>> /\ crashes = 0 /\ op \in Asked
    BY DEF Init
  <2>2. NoInstances = [NoInstances EXCEPT !.meps = {}]
    BY DEF NoInstances
  <2>3. ServerOK(srv, crashes > 0) /\ Len(srv.list) = 0
    <3> DEFINE crashed == crashes > 0
    <3>1. crashed \in BOOLEAN /\ (~crashed => {} = {})
      BY <2>1
    <3> HIDE DEF crashed
    <3>2. ServerOK(srv, crashed) /\ Len(srv.list) = 0
      BY Zenon, <2>1, <2>2, <3>1, EmptyOK
    <3>. QED
      BY <3>2 DEF crashed
  <2>. QED
    BY <2>1, <2>3, EmptySeq DEF ServerInv, Origins
<1>2. ServerInv /\ [Next]_vars => ServerInv'
  <2>1. ServerInv /\ UNCHANGED vars => ServerInv'
    BY DEF vars, ServerInv
  <2>. QED
    BY <2>1, ServerNext
<1>. QED
  BY <1>1, <1>2, PTL DEF Spec

\* Whatever fails in mrp_add, whoever asks for what and whenever ports leave their bridges
\* or the server stops, the table holds complete instances with distinct names.
THEOREM TableConsistentHolds == Spec => []TableConsistent
<1>1. ServerInv => TableConsistent
  <2> SUFFICES ASSUME ServerInv PROVE TableConsistent
    OBVIOUS
  <2>1. /\ srv.list \in Seq(Instance) /\ Distinct(srv.list)
        /\ \A k \in 1 .. Len(srv.list) : Complete(srv.list[k])
    BY DEF ServerInv, ServerOK, TableOK
  <2>2. DOMAIN srv.list = 1 .. Len(srv.list)
    BY <2>1, LenProperties
  <2>3. \A x : Complete(x) /\ "cfm_ccm" \in x.timers => x.in_mode = "LC"
    BY DEF Complete, Timed, Armable
  <2>4. \A k \in DOMAIN srv.list :
          LET x == srv.list[k]
          IN /\ NoPort \notin {x.p_port, x.s_port}
             /\ x.in_role # "DISABLED" => x.i_port # NoPort
             /\ "cfm_ccm" \in x.timers => x.in_mode = "LC"
             /\ x.refused \subseteq IF x.in_role = "DISABLED" THEN {} ELSE {"ring_role"}
    BY <2>1, <2>2, <2>3 DEF Complete
  <2>5. \A j, k \in DOMAIN srv.list : srv.list[j].id = srv.list[k].id => j = k
    BY <2>1, <2>2 DEF Distinct
  <2>. QED
    BY <2>4, <2>5 DEF TableConsistent
<1>. QED
  BY <1>1, ServerInvHolds, PTL

\* No timer of a freed instance stays armed but those that mrp_timer_stop forgets.
THEOREM NoFreedTimerHolds == Spec => []NoFreedTimer
<1>1. ServerInv => NoFreedTimer
  BY DEF ServerInv, ServerOK, Table, Forgotten, NoFreedTimer
<1>. QED
  BY <1>1, ServerInvHolds, PTL

\* Every LC instance has its end point in the kernel, and without a crash there are no
\* others.
THEOREM MepsMatchHolds == Spec => []MepsMatch
<1>1. ServerInv => MepsMatch
  BY DEF ServerInv, ServerOK, MepsOK, MepsMatch
<1>. QED
  BY <1>1, ServerInvHolds, PTL

\* No two instances are asked for with a port in common; mrp_add does not make sure of it.
SeparatePorts ==
    \A o \in Asked : \A a, b \in Client :
        /\ o[a].cmd = "add" /\ o[b].cmd = "add" /\ o[a].id # o[b].id
        => \A f, g \in PortField : o[a].conf[f] = o[b].conf[g] => o[a].conf[f] = NoPort

\* Where instances have ports of their own, a port that leaves its bridge takes the one
\* instance it is in, and leaves all others.
THEOREM LeaveRemovesHolds ==
    ASSUME SeparatePorts PROVE Spec => LeaveRemoves
<1> DEFINE Rest(p) == {x \in ToSet(srv.list) : p \notin {x[f] : f \in PortField}}
           Leave == \A p \in Ifindex : netlink_listen(p) => ToSet(srv'.list) = Rest(p)
<1>1. ServerInv => Leave
  <2> SUFFICES ASSUME ServerInv, NEW p \in Ifindex, netlink_listen(p)
               PROVE  ToSet(srv'.list) = Rest(p)
    OBVIOUS
  <2> DEFINE k == mrp_get_port(srv, p)
             s == srv.list
             r == srv'.list
             Has(x) == \E f \in PortField : x[f] = p
  <2>1. /\ ServerOK(srv, crashes > 0) /\ (crashes > 0) \in BOOLEAN /\ op \in Asked
        /\ s \in Seq(Instance) /\ Distinct(s) /\ Origins(srv, op)
    BY DEF ServerInv, ServerOK, TableOK
  <2>2. k # 0 /\ srv' = leave_bridge(srv, p)
    BY DEF netlink_listen
  <2>3. k \in 1 .. Len(s) /\ Has(s[k])
    BY <2>2, PortProperties
  <2>4. Without(srv', srv, k, crashes > 0)
    BY Zenon, <2>1, <2>2, LeaveKeeps
  <2>5. r = RemoveAt(s, k) /\ r \in Seq(Instance)
    BY <2>4 DEF Without, ServerOK, TableOK
  <2>6. EqualBut(r, s, k)
    BY <2>1, <2>3, <2>5, Others, Zenon
  <2>7. ASSUME NEW i \in 1 .. Len(s), i # k PROVE ~Has(s[i])
    <3> SUFFICES ASSUME NEW f \in PortField, s[i][f] = p PROVE FALSE
      OBVIOUS
    <3>1. PICK g \in PortField : s[k][g] = p
      BY <2>3
    <3>2. p # NoPort
      BY IfindexAssumption DEF NoPort
    <3>3. PICK a \in Client : /\ op[a].cmd = "add" /\ s[i].id = op[a].id
                              /\ PortsOf(s[i], op[a].conf)
      BY <2>1 DEF Origins, Origin
    <3>4. PICK b \in Client : /\ op[b].cmd = "add" /\ s[k].id = op[b].id
                              /\ PortsOf(s[k], op[b].conf)
      BY <2>1, <2>3 DEF Origins, Origin
    <3>5. op[a].conf[f] = p /\ op[b].conf[g] = p
      BY <3>1, <3>2, <3>3, <3>4 DEF PortsOf
    <3>6. s[i].id = s[k].id
      BY <2>1, <3>2, <3>3, <3>4, <3>5 DEF SeparatePorts
    <3>. QED
      BY <2>1, <2>3, <2>7, <3>6 DEF Distinct
  <2>8. DOMAIN s = 1 .. Len(s) /\ DOMAIN r = 1 .. Len(r)
    BY <2>1, <2>5, LenProperties
  <2> DEFINE D == 1 .. Len(s)
             E == 1 .. Len(r)
  <2>9. /\ \A i \in D : ~Has(s[i]) => \E j \in E : r[j] = s[i]
        /\ \A j \in E : \E i \in D : r[j] = s[i] /\ ~Has(s[i])
    BY Zenon, <2>3, <2>6, <2>7 DEF EqualBut
  <2>10. ToSet(s) = {s[i] : i \in D} /\ ToSet(r) = {r[j] : j \in E}
    BY <2>8 DEF ToSet
  <2> HIDE DEF D, E, Has, s, r
  <2>11. ToSet(r) = {x \in ToSet(s) : ~Has(x)}
    BY <2>9, <2>10
  <2>. QED
    BY <2>11 DEF Has, s, r
<1>2. ServerInv /\ [Next]_vars => [Leave]_vars
  BY <1>1
<1>. QED
  BY <1>2, ServerInvHolds, PTL DEF Spec, LeaveRemoves

-----------------------------------------------------------------------------
(***************************************************************************)
(* The runs of the command.                                                *)
(***************************************************************************)
Results == [res : {"none", "ok", "error"}, ids : SUBSET Id]
Place == {"start", "connected", "waiting", "answered", "gone", "failed"}

RunType ==
    /\ pc \in [Client -> Place] /\ socket \in Seq(Client)
    /\ effect \in [Client -> Results] /\ answer \in [Client -> Results]
    /\ out \in [Client -> Results]

\* Each run has one request in the socket at most, and the server has not taken it yet.
Queued ==
    /\ \A i, j \in 1 .. Len(socket) : socket[i] = socket[j] => i = j
    /\ \A i \in 1 .. Len(socket) :
          pc[socket[i]] \in {"waiting", "gone"} /\ effect[socket[i]] = None

\* A run that has not sent its request has caused nothing, one that has not ended has
\* reported nothing, and the answer it finds is what the server did.
RunOK(c) ==
    /\ pc[c] \in {"start", "connected"} => effect[c] = None
    /\ pc[c] \in {"start", "connected", "waiting"} => out[c] = None
    /\ answer[c] # None => answer[c] = effect[c]

RunInv == RunType /\ Queued /\ \A c \in Client : RunOK(c)

\* The server takes the first request.
LEMMA TakenFirst ==
    ASSUME NEW T, NEW s \in Seq(T), s # <<>>
    PROVE  /\ 1 \in 1 .. Len(s) /\ Head(s) = s[1] /\ Head(s) \in T
           /\ Tail(s) \in Seq(T) /\ Len(Tail(s)) = Len(s) - 1 /\ Len(s) \in Nat
           /\ \A i \in 1 .. Len(Tail(s)) : i + 1 \in 1 .. Len(s) /\ Tail(s)[i] = s[i + 1]
<1>1. Len(s) \in Nat /\ Len(s) # 0
  BY LenProperties, EmptySeq
<1>2. /\ Head(s) \in T /\ Tail(s) \in Seq(T) /\ Len(Tail(s)) = Len(s) - 1
      /\ \A i \in 1 .. Len(Tail(s)) : Tail(s)[i] = s[i + 1]
  BY HeadTailProperties
<1>. QED
  BY <1>1, <1>2

\* What ctl_rcv_handler does to the runs.
LEMMA Taken ==
    ASSUME ServerInv, RunInv, ctl_rcv_handler
    PROVE  LET c == Head(socket)
           IN /\ c \in Client /\ pc[c] \in {"waiting", "gone"} /\ effect[c] = None
              /\ \E r \in Results :
                    /\ Effect(srv', srv, r, c, op, crashes > 0)
                    /\ r # None
                    /\ effect' = [effect EXCEPT ![c] = r]
                    /\ \/ answer' = [answer EXCEPT ![c] = r]
                       \/ answer' = answer
<1> DEFINE c == Head(socket)
<1>1. socket # <<>> /\ socket \in Seq(Client) /\ handle_message(c)
  BY DEF ctl_rcv_handler, RunInv, RunType
<1>2. c \in Client /\ c = socket[1] /\ 1 \in 1 .. Len(socket)
  BY <1>1, TakenFirst
<1>3. pc[c] \in {"waiting", "gone"} /\ effect[c] = None
  BY <1>2 DEF RunInv, Queued
<1> HIDE DEF c
<1>4. PICK R, r : Handled(c, R, r) /\ Effect(R, srv, r, c, op, crashes > 0)
  BY <1>1, <1>2, HandleEffect
<1>5. /\ srv' = R /\ effect' = [effect EXCEPT ![c] = r]
      /\ answer' = [answer EXCEPT ![c] = r] \/ answer' = answer
  BY <1>4 DEF Handled, Addressee
<1>6. mrp_get(srv) \in SUBSET Id
  <2>1. srv.list \in Seq(Instance) /\ DOMAIN srv.list = 1 .. Len(srv.list)
    BY LenProperties DEF ServerInv, ServerOK, Table
  <2>2. \A i \in DOMAIN srv.list : srv.list[i].id \in Id
    <3>1. \A i \in DOMAIN srv.list : srv.list[i] \in Instance
      BY <2>1, ElementOfSeq
    <3>. QED
      BY <3>1 DEF Instance
  <2>. QED
    BY <2>2 DEF mrp_get
<1>7. r \in Results /\ r # None
  <2>1. r \in {Result("ok", {}), Result("ok", mrp_get(srv)), Error}
    BY <1>4 DEF Effect
  <2>. QED
    BY <1>6, <2>1 DEF Result, Error, None, Results
<1>. QED
  BY Zenon, <1>2, <1>3, <1>4, <1>5, <1>7 DEF c

\* Every step keeps the invariant of the runs.
LEMMA RunNext ==
    ServerInv /\ RunInv /\ Next => RunInv'
<1> SUFFICES ASSUME ServerInv, RunInv, Next PROVE RunInv'
  OBVIOUS
<1>0. /\ None \in Results /\ Error \in Results /\ RunType /\ Queued
      /\ Len(socket) \in Nat
      /\ \A c \in Client : RunOK(c)
  BY LenProperties DEF Results, None, Error, Result, RunInv, RunType
<1>1. ASSUME NEW c \in Client, client_init(c) PROVE RunInv'
  <2>1. RunType'
    BY <1>0, <1>1 DEF client_init, End, RunType, Place
  <2>2. pc[c] = "start" /\ \A d \in Client : d # c => pc'[d] = pc[d] /\ out'[d] = out[d]
    BY <1>0, <1>1 DEF client_init, End, RunType
  <2>3. Queued'
    <3>1. UNCHANGED <<socket, effect>>
      BY <1>1 DEF client_init
    <3>2. \A i \in 1 .. Len(socket) : socket[i] \in Client /\ socket[i] # c
      BY <1>0, <2>2 DEF Queued, RunType
    <3>. QED
      BY <1>0, <2>2, <3>1, <3>2 DEF Queued
  <2>4. \A d \in Client : RunOK(d)'
    BY <1>0, <1>1 DEF client_init, End, RunOK, RunType
  <2>. QED
    BY <2>1, <2>3, <2>4 DEF RunInv
<1>2. ASSUME NEW c \in Client, client_send_message(c) PROVE RunInv'
  <2>0. socket' = socket \/ (socket' = Append(socket, c) /\ pc'[c] = "waiting")
    BY <1>0, <1>2 DEF client_send_message, RunType
  <2>1. RunType'
    <3>1. socket' \in Seq(Client)
      BY <1>0, <2>0, AppendProperties DEF RunType
    <3>. QED
      BY <1>0, <1>2, <3>1 DEF client_send_message, End, RunType, Place
  <2>2. /\ pc[c] = "connected" /\ effect[c] = None /\ effect' = effect
        /\ \A d \in Client : d # c => pc'[d] = pc[d]
    BY <1>0, <1>2 DEF client_send_message, End, RunType, RunOK
  <2>3. \A i \in 1 .. Len(socket) : socket[i] \in Client /\ socket[i] # c
    BY <1>0, <2>2 DEF Queued, RunType
  <2>4. Queued'
    <3>1. CASE socket' = socket
      BY <1>0, <2>2, <2>3, <3>1 DEF Queued
    <3>2. CASE socket' = Append(socket, c) /\ pc'[c] = "waiting"
      <4>1. /\ Len(socket') = Len(socket) + 1 /\ socket'[Len(socket) + 1] = c
            /\ \A i \in 1 .. Len(socket) : socket'[i] = socket[i]
        BY <1>0, <3>2, AppendProperties DEF RunType
      <4>2. \A i \in 1 .. Len(socket') : i \in 1 .. Len(socket) \/ i = Len(socket) + 1
        BY <1>0, <4>1
      <4>3. \A i, j \in 1 .. Len(socket') : socket'[i] = socket'[j] => i = j
        BY <1>0, <2>3, <4>1, <4>2 DEF Queued
      <4>4. \A i \in 1 .. Len(socket') :
               pc'[socket'[i]] \in {"waiting", "gone"} /\ effect'[socket'[i]] = None
        BY <1>0, <2>2, <2>3, <3>2, <4>1, <4>2 DEF Queued
      <4>. QED
        BY <4>3, <4>4 DEF Queued
    <3>. QED
      BY <2>0, <3>1, <3>2
  <2>5. \A d \in Client : RunOK(d)'
    BY <1>0, <1>2 DEF client_send_message, End, RunOK, RunType
  <2>. QED
    BY <2>1, <2>4, <2>5 DEF RunInv
<1>3. ASSUME NEW c \in Client, client_recv_message(c) PROVE RunInv'
  <2>1. RunType'
    BY <1>0, <1>3 DEF client_recv_message, End, RunType, Place
  <2>2. /\ UNCHANGED <<socket, effect>> /\ answer[c] # None
        /\ \A d \in Client : d # c => pc'[d] = pc[d]
    BY <1>0, <1>3 DEF client_recv_message, End, RunType
  <2>3. \A i \in 1 .. Len(socket) : socket[i] \in Client /\ socket[i] # c
    BY <1>0, <2>2 DEF Queued, RunType, RunOK
  <2>4. Queued'
    BY <1>0, <2>2, <2>3 DEF Queued
  <2>5. \A d \in Client : RunOK(d)'
    BY <1>0, <1>3 DEF client_recv_message, End, RunOK, RunType
  <2>. QED
    BY <2>1, <2>4, <2>5 DEF RunInv
<1>4. ASSUME NEW c \in Client, poll_timeout(c) PROVE RunInv'
  <2>1. RunType'
    BY <1>0, <1>4 DEF poll_timeout, End, RunType, Place
  <2>2. /\ UNCHANGED <<socket, effect>> /\ pc'[c] = "gone"
        /\ \A d \in Client : d # c => pc'[d] = pc[d]
    BY <1>0, <1>4 DEF poll_timeout, End, RunType
  <2>3. \A i \in 1 .. Len(socket) : socket[i] \in Client
    BY <1>0 DEF RunType
  <2>4. Queued'
    BY <1>0, <2>2, <2>3 DEF Queued
  <2>5. \A d \in Client : RunOK(d)'
    BY <1>0, <1>4 DEF poll_timeout, End, RunOK, RunType
  <2>. QED
    BY <2>1, <2>4, <2>5 DEF RunInv
<1>5. CASE ctl_rcv_handler
  <2> DEFINE c == Head(socket)
  <2>1. /\ c \in Client /\ pc[c] \in {"waiting", "gone"} /\ effect[c] = None
        /\ \E r \in Results : /\ r # None /\ effect' = [effect EXCEPT ![c] = r]
                              /\ answer' = [answer EXCEPT ![c] = r] \/ answer' = answer
    BY <1>5, Taken
  <2>2. socket # <<>> /\ socket' = Tail(socket) /\ UNCHANGED <<pc, out>>
    BY <1>5 DEF ctl_rcv_handler, clientVars
  <2>3. /\ c = socket[1] /\ 1 \in 1 .. Len(socket) /\ socket' \in Seq(Client)
        /\ Len(socket') = Len(socket) - 1
        /\ \A i \in 1 .. Len(socket') : i + 1 \in 1 .. Len(socket) /\ socket'[i] = socket[i + 1]
    BY <1>0, <2>2, TakenFirst DEF RunType
  <2> HIDE DEF c
  <2>4. RunType'
    BY <1>0, <2>1, <2>2, <2>3 DEF RunType
  <2>5. \A i \in 1 .. Len(socket') : socket'[i] \in Client /\ socket'[i] # c
    BY <1>0, <2>3 DEF Queued, RunType
  <2>6. Queued'
    <3>1. \A d \in Client : d # c => effect'[d] = effect[d]
      BY <1>0, <2>1 DEF RunType
    <3>2. \A i, j \in 1 .. Len(socket') : socket'[i] = socket'[j] => i = j
      BY <1>0, <2>3 DEF Queued
    <3>3. \A i \in 1 .. Len(socket') :
               pc'[socket'[i]] \in {"waiting", "gone"} /\ effect'[socket'[i]] = None
      BY <1>0, <2>2, <2>3, <2>5, <3>1 DEF Queued
    <3>. QED
      BY <3>2, <3>3 DEF Queued
  <2>7. \A d \in Client : RunOK(d)'
    BY <1>0, <2>1, <2>2 DEF RunOK, RunType
  <2>. QED
    BY <2>4, <2>6, <2>7 DEF RunInv
<1>6. CASE UNCHANGED <<pc, answer, out, effect>> /\ socket' \in {socket, <<>>}
  <2>1. RunType' /\ \A d \in Client : RunOK(d)'
    BY Zenon, <1>0, <1>6, EmptySeq DEF RunType, RunOK
  <2>2. Queued'
    BY <1>0, <1>6, EmptySeq DEF Queued
  <2>. QED
    BY <2>1, <2>2 DEF RunInv
<1>7. ASSUME NEW p \in Ifindex, netlink_listen(p) PROVE RunInv'
  BY <1>6, <1>7 DEF netlink_listen, clientVars
<1>8. ASSUME NEW k \in DOMAIN srv.list, callback(k) PROVE RunInv'
  BY <1>6, <1>8 DEF callback, clientVars
<1>9. CASE ctl_socket_cleanup \/ Crash \/ ctl_socket_init
  BY <1>6, <1>9 DEF ctl_socket_cleanup, Crash, ctl_socket_init, Gone, clientVars
<1>. QED
  BY <1>1, <1>2, <1>3, <1>4, <1>5, <1>7, <1>8, <1>9 DEF Next, ClientStep

\* Both invariants hold at all times.
LEMMA RunInvHolds == Spec => [](ServerInv /\ RunInv)
<1>1. Init => RunInv
  <2> SUFFICES ASSUME Init PROVE RunInv
    OBVIOUS
  <2>1. None \in Results
    BY DEF None, Result, Results
  <2>2. RunType
    BY <2>1, EmptySeq DEF Init, RunType, Place
  <2>3. Queued
    BY EmptySeq DEF Init, Queued
  <2>. QED
    BY <2>2, <2>3 DEF Init, RunInv, RunOK
<1>2. ServerInv /\ RunInv /\ [Next]_vars => RunInv'
  <2>1. RunInv /\ UNCHANGED vars => RunInv'
    BY DEF vars, RunInv, RunType, Queued, RunOK
  <2>. QED
    BY <2>1, RunNext
<1>. QED
  BY <1>1, <1>2, ServerInvHolds, PTL DEF Spec

\* What the runs have asked for, in terms of CommandService.
absOp == [c \in Client |-> [cmd |-> op[c].cmd, id |-> op[c].id]]
absAsked == {c \in Client : pc[c] \in {"waiting", "answered", "gone"}}

\* Every step is one that CommandService allows, or changes nothing it sees.
LEMMA ServiceStep ==
    ASSUME ServerInv, RunInv, Next
    PROVE  Service!Next \/ UNCHANGED Service!vars
<1>1. /\ RunType /\ \A c \in Client : RunOK(c)
  BY DEF RunInv
<1>2. ASSUME NEW c \in Client, client_init(c) PROVE Service!GiveUp(c) \/ UNCHANGED Service!vars
  <2>1. pc[c] = "start" /\ out[c] = None /\ UNCHANGED <<srv, op, effect>>
    BY <1>1, <1>2 DEF client_init, RunOK
  <2>2. UNCHANGED absAsked
    BY <1>1, <1>2 DEF client_init, End, RunType, absAsked
  <2>3. UNCHANGED out \/ out' = [out EXCEPT ![c] = Error]
    BY <1>2 DEF client_init, End
  <2>. QED
    BY <2>1, <2>2, <2>3 DEF Service!GiveUp, Service!vars, Service!None, Service!Error,
       Service!Result, None, Error, Result, absAsked
<1>3. ASSUME NEW c \in Client, client_send_message(c) PROVE Service!Ask(c) \/ Service!GiveUp(c)
  <2>1. pc[c] = "connected" /\ out[c] = None /\ UNCHANGED <<srv, op, effect>>
    BY <1>1, <1>3 DEF client_send_message, RunOK
  <2>2. CASE pc' = [pc EXCEPT ![c] = "waiting"] /\ UNCHANGED out
    <3>1. c \notin absAsked /\ absAsked' = absAsked \cup {c}
      BY <1>1, <2>1, <2>2 DEF RunType, absAsked
    <3>. QED
      BY <2>1, <2>2, <3>1 DEF Service!Ask, Service!None, Service!Result, None, Result, absAsked
  <2>3. CASE End(c, "failed", Error)
    <3>1. UNCHANGED absAsked
      BY <1>1, <2>1, <2>3 DEF RunType, End, absAsked
    <3>. QED
      BY <2>1, <2>3, <3>1 DEF End, Service!GiveUp, Service!None, Service!Error,
         Service!Result, None, Error, Result, absAsked
  <2>. QED
    BY <1>3, <2>2, <2>3 DEF client_send_message
<1>4. ASSUME NEW c \in Client, client_recv_message(c) PROVE Service!Report(c)
  <2>1. /\ pc[c] = "waiting" /\ out[c] = None /\ effect[c] # None
        /\ out' = [out EXCEPT ![c] = effect[c]] /\ UNCHANGED <<srv, op, effect>>
    BY Zenon, <1>1, <1>4 DEF client_recv_message, End, RunOK
  <2>2. UNCHANGED absAsked
    BY <1>1, <1>4 DEF client_recv_message, End, RunType, absAsked
  <2>. QED
    BY <2>1, <2>2 DEF Service!Report, Service!None, Service!Result, None, Result, absAsked
<1>5. ASSUME NEW c \in Client, poll_timeout(c) PROVE Service!GiveUp(c)
  <2>1. /\ pc[c] = "waiting" /\ out[c] = None /\ UNCHANGED <<srv, op, effect>>
        /\ out' = [out EXCEPT ![c] = Error]
    BY <1>1, <1>5 DEF poll_timeout, End, RunOK
  <2>2. UNCHANGED absAsked
    BY <1>1, <1>5 DEF poll_timeout, End, RunType, absAsked
  <2>. QED
    BY <2>1, <2>2 DEF Service!GiveUp, Service!None, Service!Error,
       Service!Result, None, Error, Result, absAsked
<1>6. ASSUME ctl_rcv_handler
      PROVE  \E c \in Client : \/ Service!Add(c) \/ Service!Del(c)
                               \/ Service!Get(c) \/ Service!Refuse(c)
  <2> DEFINE c == Head(socket)
  <2>1. /\ c \in Client /\ pc[c] \in {"waiting", "gone"} /\ effect[c] = None
        /\ \E r \in Results : /\ Effect(srv', srv, r, c, op, crashes > 0)
                              /\ effect' = [effect EXCEPT ![c] = r]
    BY <1>6, Taken
  <2>2. UNCHANGED <<op, pc, out>>
    BY <1>6 DEF ctl_rcv_handler, clientVars
  <2> HIDE DEF c
  <2>3. PICK r : /\ Effect(srv', srv, r, c, op, crashes > 0)
                 /\ effect' = [effect EXCEPT ![c] = r]
    BY Zenon, <2>1
  <2>4. c \in absAsked /\ UNCHANGED <<absOp, absAsked>>
    BY Zenon, <2>1, <2>2 DEF absAsked, absOp
  <2>5. absOp[c].cmd = op[c].cmd /\ absOp[c].id = op[c].id
    BY <2>1 DEF absOp
  <2>6. Service!Takes(c, mrp_get(srv)', r)
    BY Zenon, <2>1, <2>2, <2>3, <2>4 DEF Service!Takes, Service!None, Service!Result, None, Result,
       absOp, absAsked
  <2>7. \/ /\ op[c].cmd = "add" /\ op[c].id \notin mrp_get(srv)
           /\ mrp_get(srv') = mrp_get(srv) \cup {op[c].id} /\ r = Result("ok", {})
        \/ /\ op[c].cmd = "del" /\ op[c].id \in mrp_get(srv)
           /\ mrp_get(srv') = mrp_get(srv) \ {op[c].id} /\ r = Result("ok", {})
        \/ op[c].cmd = "get" /\ mrp_get(srv') = mrp_get(srv) /\ r = Result("ok", mrp_get(srv))
        \/ /\ op[c].cmd = "add" \/ (op[c].cmd = "del" /\ op[c].id \notin mrp_get(srv))
           /\ mrp_get(srv') = mrp_get(srv) /\ r = Error
    BY <2>3 DEF Effect
  <2>. QED
    BY Zenon, <2>1, <2>5, <2>6, <2>7 DEF Service!Add, Service!Del, Service!Get, Service!Refuse,
       Service!Error, Service!Result, Error, Result, absOp
<1>7. ASSUME UNCHANGED <<op, pc, effect, out>>, mrp_get(srv') \subseteq mrp_get(srv)
      PROVE  Service!Next
  BY Zenon, <1>7 DEF Service!Next, Service!Disappear
<1>8. ASSUME NEW p \in Ifindex, netlink_listen(p) PROVE Service!Next
  <2>1. /\ mrp_get_port(srv, p) # 0 /\ srv' = leave_bridge(srv, p)
        /\ UNCHANGED <<op, pc, effect, out>>
    BY <1>8 DEF netlink_listen, clientVars
  <2>2. ServerOK(srv, crashes > 0) /\ (crashes > 0) \in BOOLEAN
    BY DEF ServerInv
  <2>3. Without(srv', srv, mrp_get_port(srv, p), crashes > 0)
    BY Zenon, <2>1, <2>2, LeaveKeeps
  <2>. QED
    BY <1>7, <2>1, <2>3 DEF Without
<1>9. ASSUME NEW k \in DOMAIN srv.list, callback(k) PROVE UNCHANGED Service!vars
  <2>1. PICK armed \in {{}, Armable(srv.list[k])} : Rearmed(srv', srv, k, armed)
    BY <1>9 DEF callback, Rearmed
  <2>2. UNCHANGED <<op, pc, effect, out>>
    BY <1>9 DEF callback, clientVars
  <2>3. ServerOK(srv, crashes > 0) /\ (crashes > 0) \in BOOLEAN
    BY DEF ServerInv
  <2>4. mrp_get(srv') = mrp_get(srv)
    <3>1. ServerOK(srv', crashes > 0) /\ Retimed(srv', srv)
      BY Zenon, <2>1, <2>3, CallbackKeeps
    <3>. QED
      BY <3>1 DEF Retimed
  <2>. QED
    BY <2>2, <2>4 DEF Service!vars
<1>10. ASSUME ctl_socket_cleanup \/ Crash PROVE Service!Next
  <2>1. /\ \E m : srv' = [NoInstances EXCEPT !.meps = m]
        /\ UNCHANGED <<op, pc, effect, out>>
    BY <1>10 DEF ctl_socket_cleanup, Crash, Gone, clientVars
  <2>2. srv'.list = <<>>
    BY <2>1 DEF NoInstances
  <2>3. mrp_get(srv') = {}
    BY <2>2, EmptySeq DEF mrp_get
  <2>. QED
    BY <1>7, <2>1, <2>3
<1>11. CASE ctl_socket_init
  BY <1>11 DEF ctl_socket_init, clientVars, Service!vars
<1>. QED
  BY <1>2, <1>3, <1>4, <1>5, <1>6, <1>8, <1>9, <1>10, <1>11
     DEF Next, ClientStep, Service!Next

\* The server with its runs implements CommandService: every request takes effect at one
\* moment at most, after it was sent, and a run reports what its own request did.
THEOREM ServesCommandsHolds == Spec => ServesCommands
<1>1. Init => Service!Init
  <2> SUFFICES ASSUME Init PROVE Service!Init
    OBVIOUS
  <2>1. mrp_get(srv) = {}
    <3>1. srv.list = <<>>
      BY DEF Init, NoInstances
    <3>. QED
      BY <3>1, EmptySeq DEF mrp_get
  <2>2. absOp \in [Client -> Service!Op]
    BY ServerAssumption DEF Init, absOp, Service!Op, Command
  <2>3. absAsked = {}
    BY DEF Init, absAsked
  <2>. QED
    BY <2>1, <2>2, <2>3 DEF Init, Service!Init, Service!None, Service!Result, None, Result,
       absOp, absAsked
<1>2. ServerInv /\ RunInv /\ [Next]_vars => [Service!Next]_(Service!vars)
  <2>1. UNCHANGED vars => UNCHANGED Service!vars
    BY DEF vars, Service!vars
  <2>. QED
    BY <2>1, ServiceStep
<1>. QED
  BY <1>1, <1>2, RunInvHolds, PTL DEF Spec, ServesCommands, Service!Spec

=============================================================================
