------------------------------- MODULE Notify -------------------------------
(***************************************************************************)
(* How the daemon learns of a link: the kernel reports every change of a   *)
(* port over a netlink socket of limited size, rtnl_listen drains the      *)
(* socket, and netlink_listen compares the reported operational state with *)
(* the one it remembers and calls mrp_port_link_change.  Instances come    *)
(* and go between two drains; a new one reads the link itself.             *)
(* One ring port; messages about its bridge membership are in Server.      *)
(***************************************************************************)
EXTENDS Integers, Sequences

CONSTANTS
    Reported,           \* the operational states the port's driver reports
    MaxQueue,           \* messages that fit into the socket
    MaxSent             \* bound: messages sent

Up == {"UP", "UNKNOWN"}
OperState == Up \cup {"NOTPRESENT", "DOWN", "LOWERLAYERDOWN", "TESTING", "DORMANT"}

ASSUME NotifyAssumption == Reported \subseteq OperState /\ MaxQueue \in Nat \ {0} /\ MaxSent \in Nat

VARIABLES
    oper,               \* the operational state in the kernel
    queue,              \* messages in the socket
    overrun,            \* one did not fit and the daemon has not been told so
    exists,             \* whether an instance has the port
    operstate,          \* port->operstate
    told,               \* the last state of the link its state machine was told
    listening,          \* the daemon is in the loop of rtnl_listen
    sent,               \* messages sent so far
    missed              \* history: a message did not fit

notifyVars == <<oper, queue, overrun, exists, operstate, told, listening, sent, missed>>

NotifyInit ==
    /\ oper \in Reported
    /\ queue = <<>> /\ overrun = FALSE /\ listening = FALSE /\ sent = 0 /\ missed = FALSE
    /\ exists = FALSE /\ operstate = "UNKNOWN" /\ told = FALSE

-----------------------------------------------------------------------------
\* The kernel reports the state the port has now, because of a change of it or of
\* anything else about the port.
rtmsg_ifinfo ==
    /\ sent < MaxSent /\ sent' = sent + 1
    /\ oper' \in Reported
    /\ IF Len(queue) < MaxQueue
       THEN queue' = Append(queue, oper') /\ UNCHANGED <<overrun, missed>>
       ELSE overrun' = TRUE /\ missed' = TRUE /\ UNCHANGED queue
    /\ UNCHANGED <<exists, operstate, told, listening>>

\* The part of it that has a memory; what the role does is in the ring modules.
mrp_port_link_change(up) == told' = up /\ operstate' = IF up THEN "UP" ELSE "DOWN"

\* mrp_add: the port is zeroed, which is UNKNOWN, and the role asks for the link.
mrp_port_init ==
    /\ ~listening /\ ~exists /\ exists' = TRUE
    /\ IF oper \in Up THEN mrp_port_link_change(TRUE)
       ELSE operstate' = "UNKNOWN" /\ told' = FALSE
    /\ UNCHANGED <<oper, queue, overrun, listening, sent, missed>>

mrp_port_uninit ==
    /\ ~listening /\ exists /\ exists' = FALSE
    /\ operstate' = "UNKNOWN" /\ told' = FALSE
    /\ UNCHANGED <<oper, queue, overrun, listening, sent, missed>>

\* A bug: a single message does not make the descriptor readable.
netlink_rcv_Late ==
    /\ ~listening /\ (Len(queue) > 1 \/ overrun)
    /\ listening' = TRUE
    /\ UNCHANGED <<oper, queue, overrun, exists, operstate, told, sent, missed>>

\* The descriptor is readable.
netlink_rcv ==
    /\ ~listening /\ (queue # <<>> \/ overrun)
    /\ listening' = TRUE
    /\ UNCHANGED <<oper, queue, overrun, exists, operstate, told, sent, missed>>

netlink_listen(state) ==
    IF exists /\ operstate # state THEN mrp_port_link_change(state \in Up)
    ELSE UNCHANGED <<operstate, told>>

\* A bug: the loop ends after one message, and the rest of the socket is forgotten.
rtnl_listen_Once ==
    /\ listening /\ ~overrun /\ queue # <<>>
    /\ netlink_listen(Head(queue))
    /\ queue' = <<>> /\ listening' = FALSE
    /\ UNCHANGED <<oper, overrun, exists, sent, missed>>

\* One turn of the loop of rtnl_listen ...
rtnl_listen ==
    /\ listening /\ ~overrun /\ queue # <<>>
    /\ netlink_listen(Head(queue))
    /\ queue' = Tail(queue)
    /\ UNCHANGED <<oper, overrun, exists, listening, sent, missed>>

\* ... and its end: EAGAIN when the socket is empty, ENOBUFS when a message did not fit.
rtnl_listen_ends ==
    /\ listening /\ (overrun \/ queue = <<>>)
    /\ listening' = FALSE /\ overrun' = FALSE
    /\ UNCHANGED <<oper, queue, exists, operstate, told, sent, missed>>

NotifyNext ==
    \/ rtmsg_ifinfo \/ mrp_port_init \/ mrp_port_uninit
    \/ netlink_rcv \/ rtnl_listen \/ rtnl_listen_ends

NotifySpec == NotifyInit /\ [][NotifyNext]_notifyVars

\* libev calls the watcher of a readable descriptor, and the loop runs on.
NotifyFairSpec ==
    /\ NotifySpec
    /\ WF_notifyVars(netlink_rcv)
    /\ WF_notifyVars(rtnl_listen)
    /\ WF_notifyVars(rtnl_listen_ends)

-----------------------------------------------------------------------------
Drained == queue = <<>> /\ ~missed

\* Once the socket is drained, the state machine of the port has been told the state the
\* link has, whatever was still in the socket when the instance was created.  Only two
\* things are excepted: a message that did not fit, after which the daemon does not ask
\* for the state again, and UNKNOWN.
LinkFollows == exists /\ Drained /\ oper # "UNKNOWN" => (told <=> oper \in Up)

\* When the kernel has nothing more to report, the daemon and the kernel come to agree
\* about the link and go on agreeing, for this instance and for later ones.
LinkTold == <>[](exists /\ ~missed /\ oper # "UNKNOWN" => (told <=> oper \in Up))

=============================================================================
