------------------------------- MODULE Server -------------------------------
(***************************************************************************)
(* The server and the runs of the mrp command that talk to it over the     *)
(* control socket.  A run connects, sends its request, and waits at most   *)
(* five seconds for the answer.  The server takes one request after the    *)
(* other, between its other callbacks; it may stop or crash at any time,   *)
(* which loses its table and the requests it has not taken, and be started *)
(* again.                                                                  *)
(***************************************************************************)
EXTENDS Instances

CONSTANTS
    Client,             \* the runs of the command
    Asked,              \* what they ask for: functions from Client to Command
    Failure,            \* the sets of calls that may fail in one addmrp
    MaxStops            \* bound: how often the server stops

Command ==
    [cmd : {"add"}, id : Id, conf : Config] \cup [cmd : {"del", "get"}, id : Id]

ASSUME ServerAssumption ==
    /\ Asked \subseteq [Client -> Command]
    /\ \A o \in Asked, c \in Client : o[c].cmd = "add" => o[c].conf.id = o[c].id
    /\ Failure \subseteq SUBSET Call /\ MaxStops \in Nat

VARIABLES
    srv,            \* the table of the server
    up,             \* the server runs
    socket,         \* the requests in the server's socket
    conn,           \* the start of the server each run is connected to
    op,             \* what each run asks for
    pc,             \* how far each run is
    answer,         \* the answer in the socket of each run
    out,            \* what each run reported
    stops,          \* how often the server stopped so far
    crashes,        \* how often of these it crashed
    effect          \* history: what the server returned for each run

vars == <<srv, up, socket, conn, op, pc, answer, out, stops, crashes, effect>>
clientVars == <<conn, op, pc, out>>

Result(r, ids) == [res |-> r, ids |-> ids]
None == Result("none", {})
Error == Result("error", {})

Init ==
    /\ srv = NoInstances /\ up = TRUE /\ socket = <<>>
    /\ conn = [c \in Client |-> 0] /\ op \in Asked
    /\ pc = [c \in Client |-> "start"]
    /\ answer = [c \in Client |-> None] /\ out = [c \in Client |-> None]
    /\ stops = 0 /\ crashes = 0 /\ effect = [c \in Client |-> None]

-----------------------------------------------------------------------------
\* The run of c ends at pc p and reports r.
End(c, p, r) == pc' = [pc EXCEPT ![c] = p] /\ out' = [out EXCEPT ![c] = r]

client_init(c) ==
    /\ pc[c] = "start"
    /\ IF up THEN /\ pc' = [pc EXCEPT ![c] = "connected"]
                  /\ conn' = [conn EXCEPT ![c] = stops]
                  /\ UNCHANGED out
             ELSE End(c, "failed", Error) /\ UNCHANGED conn
    /\ UNCHANGED <<srv, up, socket, op, answer, stops, crashes, effect>>

\* The first half of client_send_message; a socket of a server that is gone takes nothing.
client_send_message(c) ==
    /\ pc[c] = "connected"
    /\ IF up /\ conn[c] = stops
       THEN /\ pc' = [pc EXCEPT ![c] = "waiting"]
            /\ socket' = Append(socket, c)
            /\ UNCHANGED out
       ELSE End(c, "failed", Error) /\ UNCHANGED socket
    /\ UNCHANGED <<srv, up, conn, op, answer, stops, crashes, effect>>

\* The second half: poll finds the answer, or nothing for five seconds.
client_recv_message(c) ==
    /\ pc[c] = "waiting" /\ answer[c] # None
    /\ End(c, "answered", answer[c])
    /\ UNCHANGED <<srv, up, socket, conn, op, answer, stops, crashes, effect>>

\* A bug: the limit only counts once the answer is there.
poll_timeout_Never(c) ==
    /\ pc[c] = "waiting" /\ answer[c] # None
    /\ End(c, "gone", Error)
    /\ UNCHANGED <<srv, up, socket, conn, op, answer, stops, crashes, effect>>

poll_timeout(c) ==
    /\ pc[c] = "waiting" /\ answer[c] = None
    /\ End(c, "gone", Error)
    /\ UNCHANGED <<srv, up, socket, conn, op, answer, stops, crashes, effect>>

-----------------------------------------------------------------------------
\* A bug: the answer goes to the next run that waits.
Addressee_Next(c) == IF Len(socket) > 1 THEN socket[2] ELSE c

Addressee(c) == c

\* The server has handled the request of c: the table is S, and the answer r goes to the
\* address the request came from, if that still exists.
Handled(c, S, r) ==
    LET a == Addressee(c)
    IN /\ srv' = S /\ effect' = [effect EXCEPT ![c] = r]
       /\ answer' = IF pc[a] = "waiting" THEN [answer EXCEPT ![a] = r] ELSE answer

handle_message(c) ==
    \/ /\ op[c].cmd = "add"
       /\ \E bad \in Failure, armed \in {{}, Timer} :
             LET a == mrp_add(srv, op[c].conf, bad, armed)
             IN Handled(c, a.S, Result(a.res, {}))
    \/ /\ op[c].cmd = "del"
       /\ LET d == mrp_del(srv, op[c].id) IN Handled(c, d.S, Result(d.res, {}))
    \/ op[c].cmd = "get" /\ Handled(c, srv, Result("ok", mrp_get(srv)))

ctl_rcv_handler ==
    /\ up /\ socket # <<>>
    /\ handle_message(Head(socket))
    /\ socket' = Tail(socket)
    /\ UNCHANGED <<up, clientVars, stops, crashes>>

\* A netlink message about port p, which has no master.
netlink_listen(p) ==
    /\ up /\ mrp_get_port(srv, p) # 0 /\ srv' = leave_bridge(srv, p)
    /\ UNCHANGED <<up, socket, clientVars, answer, stops, crashes, effect>>

\* Any other callback: the k-th instance ends up with other timers armed.
callback(k) ==
    /\ up /\ k \in DOMAIN srv.list
    /\ \E armed \in {{}, Armable(srv.list[k])} :
          srv' = [srv EXCEPT !.list[k].timers = (@ \cap {"cfm_ccm"}) \cup armed]
    /\ UNCHANGED <<up, socket, clientVars, answer, stops, crashes, effect>>

-----------------------------------------------------------------------------
\* The server is gone: so are its table, its timers and the requests in its socket.
Gone(S) ==
    /\ up /\ stops < MaxStops
    /\ up' = FALSE /\ socket' = <<>> /\ stops' = stops + 1
    /\ srv' = [NoInstances EXCEPT !.meps = S.meps]
    /\ UNCHANGED <<clientVars, answer, effect>>

\* handle_signal ends the event loop and main cleans up.
ctl_socket_cleanup == Gone(mrp_uninit(srv)) /\ UNCHANGED crashes

Crash == Gone(srv) /\ crashes' = crashes + 1

ctl_socket_init ==
    /\ ~up /\ up' = TRUE
    /\ UNCHANGED <<srv, socket, clientVars, answer, stops, crashes, effect>>

ClientStep(c) ==
    client_init(c) \/ client_send_message(c) \/ client_recv_message(c) \/ poll_timeout(c)

Next ==
    \/ \E c \in Client : ClientStep(c)
    \/ ctl_rcv_handler
    \/ \E p \in Ifindex : netlink_listen(p)
    \/ \E k \in DOMAIN srv.list : callback(k)
    \/ ctl_socket_cleanup \/ Crash \/ ctl_socket_init

Spec == Init /\ [][Next]_vars

\* A run of the command takes its steps, and poll returns after five seconds at the latest.
FairSpec == Spec /\ \A c \in Client : WF_vars(ClientStep(c))

-----------------------------------------------------------------------------
\* mrp_add leaves no half-built instance behind, whichever of its steps fails: the names
\* in the list are distinct, and every listed instance has its ports and the driver's
\* consent to its roles, but for a ring role refused to an instance whose
\* interconnection role was then accepted; only those in LC mode send continuity check
\* messages.
TableConsistent ==
    /\ \A j, k \in DOMAIN srv.list : srv.list[j].id = srv.list[k].id => j = k
    /\ \A k \in DOMAIN srv.list :
          LET x == srv.list[k]
          IN /\ NoPort \notin {x.p_port, x.s_port}
             /\ x.in_role # "DISABLED" => x.i_port # NoPort
             /\ "cfm_ccm" \in x.timers => x.in_mode = "LC"
             /\ x.refused \subseteq IF x.in_role = "DISABLED" THEN {} ELSE {"ring_role"}

\* No timer is armed in freed memory, whether the instance was deleted, lost a port, or
\* never got through mrp_add; except two that mrp_timer_stop forgets (see InNode): the test
\* timer in LC mode, and the continuity check of an LC instance without a role.
NoFreedTimer ==
    srv.freed \subseteq {<<"MIM", "LC", "in_test">>, <<"MIC", "LC", "in_test">>,
                        <<"DISABLED", "LC", "cfm_ccm">>}

\* The CFM end points in the kernel are those of the LC instances, also after the server
\* was stopped, as long as it has not crashed; a crash leaves end points behind.
MepsMatch == LcNames(srv) \subseteq srv.meps /\ (crashes = 0 => srv.meps = LcNames(srv))

\* A port that leaves its bridge takes the instance it is in, and no other one, out of the
\* table, although the same message may come between any two commands.
LeaveRemoves ==
    [][\A p \in Ifindex : netlink_listen(p) =>
          ToSet(srv'.list) = {x \in ToSet(srv.list) : p \notin {x[f] : f \in PortField}}]_vars

\* Every run of the command ends: with the server's answer, or because it could not
\* connect, or after the five seconds.
CommandsEnd == \A c \in Client : <>(out[c] # None)

(***************************************************************************)
(* The server with its clients implements CommandService.                  *)
(***************************************************************************)
Service == INSTANCE CommandService WITH
    table <- mrp_get(srv),
    op <- [c \in Client |-> [cmd |-> op[c].cmd, id |-> op[c].id]],
    asked <- {c \in Client : pc[c] \in {"waiting", "answered", "gone"}}

\* Requests taken once and in order, answers sent to the run that asked, failures undone:
\* what a run reports is what its operation did, at one moment after the run began.
ServesCommands == Service!Spec

=============================================================================
