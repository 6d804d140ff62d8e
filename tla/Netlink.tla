------------------------------- MODULE Netlink ------------------------------
(***************************************************************************)
(* How the netlink driver gets a port state, a role or a flush into the    *)
(* kernel.                                                                 *)
(* Every request is a conversation over one socket: rtnl_talk sends the    *)
(* request with a new sequence number, the kernel carries it out or        *)
(* refuses it and puts an acknowledgement into the socket, and rtnl_talk   *)
(* reads the socket until it finds an acknowledgement it takes for its     *)
(* own.  Sending and receiving may fail.  mrp_port_set_state and the       *)
(* functions that set a role record the new value whatever the driver      *)
(* returns.                                                                *)
(***************************************************************************)
EXTENDS Integers, Sequences

CONSTANTS
    Port,               \* the ports of the instance: p_port, s_port, i_port
    State,              \* port states
    FlushOrder,         \* the order in which netlink_flush takes the ports
    mra_support,        \* whether the instance is one of automatic managers
    MaxCalls,           \* bound: calls of the driver
    MaxLost             \* bound: receive failures

RingRole == {"MRM", "MRC"}
InRole == {"MIM", "MIC"}

\* What the driver sets: the states of the ports and the two roles.
Attr == Port \cup {"ring_role", "in_role"}
Value == State \cup RingRole \cup InRole \cup {"MRA", "none"}

Request == [kind : {"set"}, attr : Attr, val : Value] \cup [kind : {"flush"}, attr : Port]
\* What a talk returns: zero, or an error.
Status == {0, -1}
Ack == [seq : Nat, err : Status]

ASSUME NetlinkAssumption ==
    /\ FlushOrder \in Seq([kind : {"flush"}, attr : Port]) /\ Len(FlushOrder) > 0
    /\ mra_support \in BOOLEAN /\ "ring_role" \notin Port
    /\ MaxCalls \in Nat /\ MaxLost \in Nat

VARIABLES
    seq,                \* rth.seq
    sock,               \* the acknowledgements in the socket
    noBufs,             \* one was dropped: the next receive reports it
    kernel,             \* the values the kernel has
    cleared,            \* the ports whose entries the last flush has removed
    state,              \* the values that the instance believes in: p->state and the roles
    status,             \* what the last request to set one returned
    todo,               \* the requests left of the running driver call
    pc,                 \* where it is: idle, send or recv
    ret,                \* what the last driver call returned
    calls,              \* driver calls so far
    lost                \* receive failures so far

vars == <<seq, sock, noBufs, kernel, cleared, state, status, todo, pc, ret, calls, lost>>

\* rtnl_open: the number starts at the time of day, which is not zero.
Init ==
    /\ seq = 1 /\ sock = <<>> /\ noBufs = FALSE
    /\ \E s \in State :
          /\ state = [a \in Attr |-> IF a \in Port THEN s ELSE "none"]
          /\ kernel = state
    /\ cleared = {} /\ status = [a \in Attr |-> 0]
    /\ todo = <<>> /\ pc = "idle" /\ ret = 0 /\ calls = 0 /\ lost = 0

-----------------------------------------------------------------------------
Set(a, believed, sent) ==
    /\ pc = "idle" /\ calls < MaxCalls
    /\ state' = [state EXCEPT ![a] = believed]
    /\ todo' = <<[kind |-> "set", attr |-> a, val |-> sent]>>
    /\ pc' = "send" /\ calls' = calls + 1
    /\ UNCHANGED <<seq, sock, noBufs, kernel, cleared, status, ret, lost>>

mrp_port_set_state(p, s) == Set(p, s, s)

\* netlink_set_ring_role tells the kernel of an automatic manager nothing but that.
RingRoleSent(role) == IF mra_support THEN "MRA" ELSE role

mrp_set_ring_role(role) == Set("ring_role", role, RingRoleSent(role))

mrp_set_in_role(role) == Set("in_role", role, role)

netlink_flush ==
    /\ pc = "idle" /\ calls < MaxCalls
    /\ todo' = FlushOrder /\ cleared' = {}
    /\ pc' = "send" /\ calls' = calls + 1
    /\ UNCHANGED <<seq, sock, noBufs, kernel, state, status, ret, lost>>

\* A bug: a flush goes on after an error.
Return_GoesOn(err) ==
    LET r == todo[1]
    IN /\ status' = IF r.kind = "set" THEN [status EXCEPT ![r.attr] = err] ELSE status
       /\ IF Len(todo) = 1
          THEN pc' = "idle" /\ todo' = <<>> /\ ret' = err
          ELSE pc' = "send" /\ todo' = Tail(todo) /\ UNCHANGED ret

\* The talk about the first request returns, with an error or not.  An error ends the
\* driver call; so does the last request.
Return(err) ==
    LET r == todo[1]
    IN /\ status' = IF r.kind = "set" THEN [status EXCEPT ![r.attr] = err] ELSE status
       /\ IF err # 0 \/ Len(todo) = 1
          THEN pc' = "idle" /\ todo' = <<>> /\ ret' = err
          ELSE pc' = "send" /\ todo' = Tail(todo) /\ UNCHANGED ret

\* A bug: the status of sendmsg is not looked at before the answer is given.
sendmsg_fails_Ignored ==
    /\ pc = "send"
    /\ seq' = seq + 1 /\ Return(0)
    /\ UNCHANGED <<sock, noBufs, kernel, cleared, state, calls, lost>>

sendmsg_fails ==
    /\ pc = "send"
    /\ seq' = seq + 1 /\ Return(-1)
    /\ UNCHANGED <<sock, noBufs, kernel, cleared, state, calls, lost>>

\* The kernel carries a request out before sendmsg returns.
Carried(r) ==
    IF r.kind = "set" THEN kernel' = [kernel EXCEPT ![r.attr] = r.val] /\ UNCHANGED cleared
    ELSE cleared' = cleared \cup {r.attr} /\ UNCHANGED kernel

\* ... or refuses it; the acknowledgement says which, unless there is no room for it.
sendmsg ==
    /\ pc = "send"
    /\ seq' = seq + 1 /\ pc' = "recv"
    /\ \E err \in Status :
          /\ IF err = 0 THEN Carried(todo[1]) ELSE UNCHANGED <<kernel, cleared>>
          /\ \/ sock' = Append(sock, [seq |-> seq + 1, err |-> err]) /\ UNCHANGED noBufs
             \/ lost < MaxLost /\ noBufs' = TRUE /\ UNCHANGED sock
    /\ UNCHANGED <<state, status, todo, ret, calls, lost>>

\* A bug: off by one, so that only the acknowledgement of the request before will do.
IsAnswer_Before(h) == h.seq < seq /\ h.seq >= seq - 1

\* Not "h->nlmsg_seq > seq || h->nlmsg_seq < seq - iovlen", with one request in iov: the
\* acknowledgement of the request before is let through.
IsAnswer(h) == h.seq <= seq /\ h.seq >= seq - 1

\* A bug: the message is only peeked at.
AfterAnswer_Peeks(s) == s

\* Reading a message takes it out of the socket.
AfterAnswer(s) == Tail(s)

\* One turn of the loop of __rtnl_talk_iov.
rtnl_recvmsg ==
    /\ pc = "recv" /\ ~noBufs /\ Len(sock) > 0
    /\ IF IsAnswer(Head(sock))
       THEN sock' = AfterAnswer(sock) /\ Return(Head(sock).err)
       ELSE sock' = Tail(sock) /\ UNCHANGED <<todo, pc, status, ret>>
    /\ UNCHANGED <<seq, noBufs, kernel, cleared, state, calls, lost>>

\* No memory for the message, or one was dropped: what is in the socket stays there.
rtnl_recvmsg_fails ==
    /\ pc = "recv" /\ (noBufs \/ lost < MaxLost)
    /\ lost' = lost + 1 /\ noBufs' = FALSE /\ Return(-1)
    /\ UNCHANGED <<seq, sock, kernel, cleared, state, calls>>

Next ==
    \/ \E p \in Port, s \in State : mrp_port_set_state(p, s)
    \/ \E role \in RingRole : mrp_set_ring_role(role)
    \/ \E role \in InRole : mrp_set_in_role(role)
    \/ netlink_flush
    \/ sendmsg \/ sendmsg_fails \/ rtnl_recvmsg \/ rtnl_recvmsg_fails

Spec == Init /\ [][Next]_vars

\* A system call returns, and so does the loop around it.
FairSpec == Spec /\ WF_vars(sendmsg \/ sendmsg_fails \/ rtnl_recvmsg \/ rtnl_recvmsg_fails)

-----------------------------------------------------------------------------
\* The conversation keeps to its phases, and requests are well formed.
TypeOK ==
    /\ seq \in Nat /\ sock \in Seq(Ack) /\ noBufs \in BOOLEAN
    /\ kernel \in [Attr -> Value] /\ state \in [Attr -> Value] /\ cleared \subseteq Port
    /\ status \in [Attr -> Status] /\ todo \in Seq(Request)
    /\ pc \in {"idle", "send", "recv"} /\ (pc = "idle" <=> Len(todo) = 0)
    /\ ret \in Status /\ calls \in 0 .. MaxCalls /\ lost \in Nat

AllRead == lost = 0 /\ ~noBufs

\* The value the kernel should have for an attribute, and whether it has.
Expected(a) ==
    IF a = "ring_role" /\ state[a] # "none" THEN RingRoleSent(state[a]) ELSE state[a]

Agrees(a) == kernel[a] = Expected(a)

\* mrp_port_set_state and the functions that set a role note the value first, so the
\* instance may believe in a value the kernel does not have.  As long as every
\* acknowledgement was read, it has then been warned by the last request to set it.
BeliefWarned == AllRead /\ pc = "idle" => \A a \in Attr : Agrees(a) \/ status[a] # 0

\* A flush that reports success has cleared every port, and one that fails has cleared
\* those before the failure; again as long as every acknowledgement was read.
FlushComplete ==
    [][AllRead /\ pc = "recv" /\ pc' = "idle" /\ todo[1].kind = "flush" /\ ret' = 0 =>
          cleared = {FlushOrder[k].attr : k \in 1 .. Len(FlushOrder)}]_vars

\* A receive that fails leaves its acknowledgement in the socket, where a later call finds
\* it; the socket holds one for each such failure and no more, so that a call which is
\* answered never makes the backlog longer.
SocketBounded == Len(sock) <= lost + (IF pc = "recv" THEN 1 ELSE 0)

\* rtnl_talk waits for an acknowledgement without a timeout, and with it the whole event
\* loop; there always is something for it to read that ends the wait.
TalkReturns == pc = "recv" ~> pc # "recv"

=============================================================================
