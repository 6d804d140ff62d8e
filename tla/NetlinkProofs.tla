--------------------------- MODULE NetlinkProofs ----------------------------
(***************************************************************************)
(* Proofs about the two conversations with the kernel.  Netlink: requests  *)
(* are answered in step as long as every acknowledgement is read, and so   *)
(* the instance is warned of what the kernel did not do.  Notify: a daemon *)
(* that has drained its socket has told the state machine the link.        *)
(***************************************************************************)
EXTENDS Netlink, Notify, SequenceTheorems, TLAPS

\* What the running driver call still has to do: it sets one attribute to the value noted
\* before, or it is a flush and todo is the rest of FlushOrder.
Done == Len(FlushOrder) - Len(todo)

Task ==
    pc # "idle" =>
        \/ /\ todo[1].kind = "set" /\ Len(todo) = 1
           /\ todo[1].val = Expected(todo[1].attr)
        \/ /\ Len(todo) <= Len(FlushOrder)
           /\ \A j \in 1 .. Len(todo) : todo[j] = FlushOrder[Done + j]
           /\ cleared \subseteq {FlushOrder[k].attr : k \in 1 .. Len(FlushOrder)}
           /\ AllRead => \A k \in 1 .. Done : FlushOrder[k].attr \in cleared

\* The acknowledgement in the socket is the one of the request that was sent, and it says
\* what became of the request.
InStep ==
    AllRead =>
        /\ pc # "recv" => sock = <<>>
        /\ pc = "recv" =>
              /\ Len(sock) = 1 /\ sock[1].seq = seq
              /\ sock[1].err # 0 \/ IF todo[1].kind = "set" THEN Agrees(todo[1].attr)
                                ELSE todo[1].attr \in cleared

\* Only the attribute that is being set may differ without a warning.
Warned ==
    AllRead =>
        \A a \in Attr :
            \/ Agrees(a) \/ status[a] # 0
            \/ pc # "idle" /\ todo[1].kind = "set" /\ todo[1].attr = a

NInv == TypeOK /\ SocketBounded /\ Task /\ InStep /\ Warned

-----------------------------------------------------------------------------
\* The invariant holds when the driver has made no call yet.
LEMMA NetlinkInit == Init => NInv
<1> SUFFICES ASSUME Init PROVE NInv
  OBVIOUS
<1> USE NetlinkAssumption
<1>1. TypeOK
  <2>1. kernel \in [Attr -> Value] /\ state \in [Attr -> Value]
    BY DEF Init, Attr, Value
  <2>2. sock \in Seq(Ack) /\ todo \in Seq(Request)
    BY DEF Init
  <2>. QED
    <3>1. noBufs \in BOOLEAN
      BY Zenon DEF Init
    <3>2. pc \in {"idle", "send", "recv"} /\ (pc = "idle" <=> Len(todo) = 0)
      BY DEF Init
    <3>3. status \in [Attr -> Status] /\ ret \in Status /\ cleared \subseteq Port
      BY DEF Init, Status
    <3>4. seq \in Nat /\ lost \in Nat /\ calls \in 0 .. MaxCalls
      BY DEF Init
    <3>. QED
      BY <2>1, <2>2, <3>1, <3>2, <3>3, <3>4, Zenon DEF TypeOK
<1>2. SocketBounded /\ Task /\ InStep
  BY DEF Init, SocketBounded, Task, InStep
<1>3. Warned
  BY DEF Init, Warned, Agrees, Expected, Attr
<1>. QED
  BY <1>1, <1>2, <1>3 DEF NInv

\* A request is a well-formed one, and so is the rest of a call.
LEMMA TodoTypes ==
    ASSUME TypeOK, pc # "idle"
    PROVE  /\ todo \in Seq(Request) /\ Len(todo) \in Nat \ {0}
           /\ todo[1] \in Request /\ todo[1].attr \in Attr
           /\ todo[1].kind \in {"set", "flush"}
           /\ todo[1].kind = "flush" => todo[1].attr \in Port
           /\ todo[1].kind = "set" => todo[1].val \in Value
<1>1. todo \in Seq(Request) /\ Len(todo) # 0
  BY DEF TypeOK
<1>2. Len(todo) \in Nat \ {0} /\ todo[1] \in Request
  BY <1>1
<1>. QED
  BY <1>1, <1>2 DEF Request, Attr

\* An element of a sequence is one of the set the sequence is over.
LEMMA SeqElement ==
    ASSUME NEW S, NEW s \in Seq(S), NEW k \in 1 .. Len(s)
    PROVE  s[k] \in S
OBVIOUS

\* Every request of a flush is a flush.
LEMMA FlushTypes ==
    /\ Len(FlushOrder) \in Nat \ {0} /\ FlushOrder \in Seq(Request)
    /\ \A k \in 1 .. Len(FlushOrder) :
          /\ FlushOrder[k] \in Request
          /\ FlushOrder[k].kind = "flush" /\ FlushOrder[k].attr \in Port
<1>1. FlushOrder \in Seq([kind : {"flush"}, attr : Port]) /\ Len(FlushOrder) > 0
  BY NetlinkAssumption
<1>2. \A k \in 1 .. Len(FlushOrder) : FlushOrder[k] \in [kind : {"flush"}, attr : Port]
  BY <1>1, SeqElement, Zenon
<1>3. [kind : {"flush"}, attr : Port] \subseteq Request
  BY DEF Request
<1>. QED
  BY <1>1, <1>2, <1>3

-----------------------------------------------------------------------------
\* A call that sets an attribute notes the value and sends nothing yet.
LEMMA SetKeeps ==
    ASSUME NInv, NEW a \in Attr, NEW v \in Value, NEW w \in Value, Set(a, v, w),
           w = IF a = "ring_role" /\ v # "none" THEN RingRoleSent(v) ELSE v
    PROVE  NInv'
<1> USE DEF NInv, Set
<1>1. TypeOK'
  <2>1. todo' \in Seq(Request) /\ Len(todo') # 0
    BY DEF Request
  <2>. QED
    BY <2>1, NetlinkAssumption DEF TypeOK
<1>2. SocketBounded'
  BY DEF SocketBounded
<1>3. todo'[1].kind = "set" /\ todo'[1].attr = a /\ todo'[1].val = w /\ Len(todo') = 1
  OBVIOUS
<1>4. Expected(a)' = w /\ \A b \in Attr \ {a} : Expected(b)' = Expected(b)
  BY DEF TypeOK, Expected
<1>5. Task'
  BY <1>3, <1>4 DEF Task
<1>6. InStep'
  BY DEF InStep, AllRead
<1>7. Warned'
  BY <1>3, <1>4 DEF Warned, AllRead, Agrees
<1>. QED
  BY <1>1, <1>2, <1>5, <1>6, <1>7

\* A flush begins with all of FlushOrder to do.
LEMMA FlushKeeps ==
    ASSUME NInv, netlink_flush
    PROVE  NInv'
<1> USE DEF NInv, netlink_flush
<1>1. TypeOK'
  BY FlushTypes, NetlinkAssumption DEF TypeOK
<1>2. SocketBounded' /\ InStep'
  BY DEF SocketBounded, InStep, AllRead
<1>3. Task'
  BY FlushTypes DEF Task, Done
<1>4. Warned'
  BY DEF Warned, AllRead, Agrees, Expected
<1>. QED
  BY <1>1, <1>2, <1>3, <1>4

-----------------------------------------------------------------------------
\* What became of the first request.
Fulfilled ==
    IF todo[1].kind = "set" THEN Agrees(todo[1].attr) ELSE todo[1].attr \in cleared

\* A talk that returns, whatever it returns: if every acknowledgement was read then it
\* returns an error or the request was carried out, and the call goes on or ends.
LEMMA ReturnKeeps ==
    ASSUME NInv, pc # "idle", NEW err \in Status, Return(err),
           UNCHANGED <<kernel, cleared, state>>,
           AllRead' => AllRead /\ (err # 0 \/ Fulfilled)
    PROVE  /\ status' \in [Attr -> Status] /\ todo' \in Seq(Request)
           /\ pc' \in {"idle", "send"} /\ (pc' = "idle" <=> Len(todo') = 0)
           /\ ret' \in Status
           /\ Task' /\ Warned'
<1> USE DEF NInv
<1>0. /\ status' = IF todo[1].kind = "set" THEN [status EXCEPT ![todo[1].attr] = err]
                   ELSE status
      /\ IF err # 0 \/ Len(todo) = 1
         THEN pc' = "idle" /\ todo' = <<>> /\ ret' = err
         ELSE pc' = "send" /\ todo' = Tail(todo) /\ UNCHANGED ret
  BY DEF Return
<1>1. status' \in [Attr -> Status]
  BY <1>0, TodoTypes DEF TypeOK
<1>2. /\ todo' \in Seq(Request) /\ pc' \in {"idle", "send"}
      /\ (pc' = "idle" <=> Len(todo') = 0) /\ ret' \in Status
  <2>1. CASE err # 0 \/ Len(todo) = 1
    <3>1. pc' = "idle" /\ todo' = <<>> /\ ret' = err
      BY <1>0, <2>1
    <3>2. todo' \in Seq(Request) /\ Len(todo') = 0
      BY <3>1
    <3>. QED
      BY <3>1, <3>2, Zenon
  <2>2. CASE err = 0 /\ Len(todo) # 1
    <3>1. pc' = "send" /\ todo' = Tail(todo) /\ ret' = ret
      BY <1>0, <2>2
    <3>2. Tail(todo) \in Seq(Request) /\ Len(Tail(todo)) # 0
      BY <2>2, TodoTypes
    <3>3. ret \in Status
      BY Zenon DEF TypeOK
    <3>. QED
      BY <3>1, <3>2, <3>3, Zenon
  <2>. QED
    BY <2>1, <2>2
<1>3. \A a \in Attr : Expected(a)' = Expected(a) /\ Agrees(a)' = Agrees(a)
  BY DEF Expected, Agrees
<1>4. Task'
  <2>1. CASE err # 0 \/ Len(todo) = 1
    BY <1>0, <2>1 DEF Task
  <2>2. CASE err = 0 /\ Len(todo) # 1
    <3>1. /\ Len(todo) <= Len(FlushOrder)
          /\ \A j \in 1 .. Len(todo) : todo[j] = FlushOrder[Done + j]
          /\ cleared \subseteq {FlushOrder[k].attr : k \in 1 .. Len(FlushOrder)}
          /\ AllRead => \A k \in 1 .. Done : FlushOrder[k].attr \in cleared
      BY <2>2 DEF Task
    <3>2. /\ todo' = Tail(todo) /\ Len(todo') = Len(todo) - 1
          /\ \A j \in 1 .. Len(todo') : todo'[j] = todo[j + 1]
      BY <1>0, <2>2, TodoTypes
    <3>3. Done' = Done + 1 /\ Done \in Nat
      BY <3>1, <3>2, TodoTypes, FlushTypes DEF Done
    <3>4. \A j \in 1 .. Len(todo') : todo'[j] = FlushOrder[Done' + j]
      <4> SUFFICES ASSUME NEW j \in 1 .. Len(todo') PROVE todo'[j] = FlushOrder[Done' + j]
        OBVIOUS
      <4>1. j + 1 \in 1 .. Len(todo) /\ Done + (j + 1) = Done' + j
        BY <3>2, <3>3, TodoTypes
      <4>. QED
        BY <3>1, <3>2, <4>1
    <3>5. AllRead' => \A k \in 1 .. Done' : FlushOrder[k].attr \in cleared'
      <4> SUFFICES ASSUME AllRead', NEW k \in 1 .. Done' PROVE FlushOrder[k].attr \in cleared
        OBVIOUS
      <4>1. todo[1] = FlushOrder[Done + 1] /\ todo[1].kind = "flush"
        <5>1. 1 \in 1 .. Len(todo) /\ Done + 1 \in 1 .. Len(FlushOrder)
          BY <3>1, <3>3, TodoTypes, FlushTypes DEF Done
        <5>. QED
          BY <3>1, <5>1, FlushTypes
      <4>2. CASE k = Done + 1
        BY <2>2, <4>1, <4>2 DEF Fulfilled
      <4>3. CASE k # Done + 1
        <5>1. k \in 1 .. Done
          BY <4>3, <3>3
        <5>. QED
          BY <5>1, <3>1
      <4>. QED
        BY <4>2, <4>3
    <3>6. Len(todo') <= Len(FlushOrder)
      BY <3>1, <3>2, TodoTypes, FlushTypes
    <3>. QED
      BY <3>1, <3>4, <3>5, <3>6 DEF Task
  <2>. QED
    BY <2>1, <2>2
<1>5. Warned'
  <2> SUFFICES ASSUME AllRead', NEW a \in Attr
               PROVE  Agrees(a) \/ status'[a] # 0
    BY <1>3 DEF Warned
  <2>1. CASE todo[1].kind = "set" /\ todo[1].attr = a
    BY <1>0, <2>1, TodoTypes DEF Fulfilled, TypeOK
  <2>2. CASE ~(todo[1].kind = "set" /\ todo[1].attr = a)
    <3>1. status'[a] = status[a]
      BY <1>0, <2>2, TodoTypes DEF TypeOK
    <3>. QED
      BY <2>2, <3>1 DEF Warned
  <2>. QED
    BY <2>1, <2>2
<1>. QED
  BY <1>1, <1>2, <1>4, <1>5

-----------------------------------------------------------------------------
\* A request that could not be sent returns an error.
LEMMA SendFailsKeeps ==
    ASSUME NInv, sendmsg_fails
    PROVE  NInv'
<1> USE DEF NInv, sendmsg_fails
<1>1. /\ status' \in [Attr -> Status] /\ todo' \in Seq(Request)
      /\ pc' \in {"idle", "send"} /\ (pc' = "idle" <=> Len(todo') = 0)
      /\ ret' \in Status /\ Task' /\ Warned'
  BY ReturnKeeps DEF Status, AllRead
<1>2. TypeOK'
  BY <1>1 DEF TypeOK
<1>3. SocketBounded' /\ InStep'
  BY <1>1 DEF SocketBounded, InStep, AllRead
<1>. QED
  BY <1>1, <1>2, <1>3

\* A receive that fails does, too; from then on not every acknowledgement was read.
LEMMA RecvFailsKeeps ==
    ASSUME NInv, rtnl_recvmsg_fails
    PROVE  NInv'
<1> USE DEF NInv, rtnl_recvmsg_fails
<1>1. ~AllRead'
  BY DEF AllRead, TypeOK
<1>2. /\ status' \in [Attr -> Status] /\ todo' \in Seq(Request)
      /\ pc' \in {"idle", "send"} /\ (pc' = "idle" <=> Len(todo') = 0)
      /\ ret' \in Status /\ Task' /\ Warned'
  BY <1>1, ReturnKeeps DEF Status
<1>3. TypeOK'
  <2>1. noBufs' \in BOOLEAN
    BY Zenon
  <2>. QED
    BY <1>2, <2>1 DEF TypeOK
<1>4. SocketBounded' /\ InStep'
  BY <1>1, <1>2 DEF SocketBounded, InStep, TypeOK
<1>. QED
  BY <1>2, <1>3, <1>4

\* An acknowledgement is read.  When all were, it is the one of the request.
LEMMA RecvKeeps ==
    ASSUME NInv, rtnl_recvmsg
    PROVE  NInv'
<1> USE DEF NInv, rtnl_recvmsg, AfterAnswer
<1>1. /\ sock \in Seq(Ack) /\ Len(sock) \in Nat \ {0} /\ Head(sock) = sock[1]
      /\ sock[1] \in Ack
      /\ sock' = Tail(sock) /\ sock' \in Seq(Ack) /\ Len(sock') = Len(sock) - 1
  <2>1. sock \in Seq(Ack) /\ Len(sock) > 0 /\ sock' = Tail(sock)
    BY DEF TypeOK
  <2>. QED
    BY <2>1
<1>2. sock[1].seq \in Nat /\ sock[1].err \in Status
  BY <1>1 DEF Ack
<1>3. CASE IsAnswer(Head(sock))
  <2>1. Return(sock[1].err)
    BY <1>1, <1>3
  <2>2. AllRead' => AllRead /\ (sock[1].err # 0 \/ Fulfilled)
    BY DEF InStep, AllRead, Fulfilled
  <2>3. /\ status' \in [Attr -> Status] /\ todo' \in Seq(Request)
        /\ pc' \in {"idle", "send"} /\ (pc' = "idle" <=> Len(todo') = 0)
        /\ ret' \in Status /\ Task' /\ Warned'
    BY <1>2, <2>1, <2>2, ReturnKeeps
  <2>4. TypeOK'
    BY <1>1, <2>3 DEF TypeOK
  <2>5. SocketBounded'
    BY <1>1, <2>3 DEF SocketBounded, TypeOK
  <2>6. InStep'
    <3>1. AllRead' => Len(sock') = 0
      BY <1>1 DEF InStep, AllRead
    <3>2. Len(sock') = 0 => sock' = <<>>
      BY <1>1
    <3>. QED
      BY <2>3, <3>1, <3>2 DEF InStep
  <2>. QED
    BY <2>3, <2>4, <2>5, <2>6
<1>4. CASE ~IsAnswer(Head(sock))
  <2>1. UNCHANGED <<todo, pc, status, ret>>
    BY <1>4
  <2>2. ~AllRead'
    <3>1. ~AllRead
      BY <1>1, <1>4 DEF InStep, IsAnswer, TypeOK
    <3>. QED
      BY <3>1 DEF AllRead
  <2>3. TypeOK' /\ SocketBounded'
    BY <1>1, <2>1 DEF TypeOK, SocketBounded
  <2>4. Task'
    BY <2>1, <2>2 DEF Task, Done, Expected
  <2>. QED
    BY <2>2, <2>3, <2>4 DEF InStep, Warned
<1>. QED
  BY <1>3, <1>4

\* The kernel carries a request out or refuses it, and acknowledges it unless there is
\* no room for that.
LEMMA SendKeeps ==
    ASSUME NInv, sendmsg
    PROVE  NInv'
<1> USE DEF NInv
<1> DEFINE r == todo[1]
<1>1. PICK err \in Status :
          /\ IF err = 0 THEN Carried(r) ELSE UNCHANGED <<kernel, cleared>>
          /\ \/ sock' = Append(sock, [seq |-> seq + 1, err |-> err]) /\ UNCHANGED noBufs
             \/ lost < MaxLost /\ noBufs' = TRUE /\ UNCHANGED sock
  BY DEF sendmsg
<1>2. /\ pc = "send" /\ pc' = "recv" /\ seq' = seq + 1
      /\ UNCHANGED <<state, status, todo, ret, calls, lost>>
  BY DEF sendmsg
<1>3. /\ kernel' \in [Attr -> Value] /\ cleared' \subseteq Port
      /\ err = 0 /\ r.kind = "set" => kernel' = [kernel EXCEPT ![r.attr] = r.val]
      /\ ~(err = 0 /\ r.kind = "set") => kernel' = kernel
      /\ err = 0 /\ r.kind = "flush" => cleared' = cleared \cup {r.attr}
      /\ ~(err = 0 /\ r.kind = "flush") => cleared' = cleared
  BY <1>1, <1>2, TodoTypes DEF Carried, TypeOK
<1>4. /\ sock \in Seq(Ack) /\ seq \in Nat /\ lost \in Nat
      /\ sock' \in Seq(Ack) /\ Len(sock') <= Len(sock) + 1
      /\ AllRead' => AllRead /\ sock' = Append(sock, [seq |-> seq + 1, err |-> err])
  <2>1. [seq |-> seq + 1, err |-> err] \in Ack /\ sock \in Seq(Ack) /\ seq \in Nat /\ lost \in Nat
    BY DEF TypeOK, Ack
  <2>2. CASE sock' = Append(sock, [seq |-> seq + 1, err |-> err]) /\ UNCHANGED noBufs
    BY <1>2, <2>1, <2>2 DEF AllRead
  <2>3. CASE lost < MaxLost /\ noBufs' = TRUE /\ UNCHANGED sock
    BY <2>1, <2>3 DEF AllRead
  <2>. QED
    BY <1>1, <2>2, <2>3
<1>5. TypeOK'
  <2>1. noBufs' \in BOOLEAN
    BY <1>1, Zenon DEF TypeOK
  <2>. QED
    BY <1>2, <1>3, <1>4, <2>1 DEF TypeOK
<1>6. SocketBounded'
  BY <1>2, <1>4 DEF SocketBounded
<1>7. \A a : Expected(a)' = Expected(a)
  BY <1>2 DEF Expected
<1>8. CASE r.kind = "set"
  <2>1. Len(todo) = 1 /\ r.val = Expected(r.attr)
    <3>1. ASSUME Len(todo) <= Len(FlushOrder),
                 \A j \in 1 .. Len(todo) : todo[j] = FlushOrder[Done + j]
          PROVE  FALSE
      <4>1. 1 \in 1 .. Len(todo) /\ Done + 1 \in 1 .. Len(FlushOrder)
        BY <1>2, <3>1, TodoTypes, FlushTypes DEF Done
      <4>2. r = FlushOrder[Done + 1] /\ FlushOrder[Done + 1].kind = "flush"
        BY <3>1, <4>1, FlushTypes
      <4>. QED
        BY <1>8, <4>2
    <3>. QED
      BY <1>2, <3>1 DEF Task
  <2>2. \A a \in Attr : (a # r.attr \/ err # 0) => Agrees(a)' = Agrees(a)
    BY <1>2, <1>3, <1>7, TodoTypes DEF Agrees, TypeOK
  <2>3. err = 0 => Agrees(r.attr)'
    BY <1>2, <1>3, <1>7, <1>8, <2>1, TodoTypes DEF Agrees, TypeOK
  <2>4. Task'
    BY <1>2, <1>7, <1>8, <2>1 DEF Task
  <2>5. InStep'
    BY <1>2, <1>4, <1>8, <2>3 DEF InStep
  <2>6. Warned'
    BY <1>2, <1>4, <1>8, <2>2 DEF Warned
  <2>. QED
    BY <1>5, <1>6, <2>4, <2>5, <2>6
<1>9. CASE r.kind = "flush"
  <2>1. kernel' = kernel /\ \A a \in Attr : Agrees(a)' = Agrees(a)
    BY <1>3, <1>7, <1>9 DEF Agrees
  <2>2. /\ Len(todo) <= Len(FlushOrder)
        /\ \A j \in 1 .. Len(todo) : todo[j] = FlushOrder[Done + j]
        /\ cleared \subseteq {FlushOrder[k].attr : k \in 1 .. Len(FlushOrder)}
        /\ AllRead => \A k \in 1 .. Done : FlushOrder[k].attr \in cleared
    BY <1>2, <1>9 DEF Task
  <2>3. Done + 1 \in 1 .. Len(FlushOrder) /\ r = FlushOrder[Done + 1]
    BY <1>2, <2>2, TodoTypes, FlushTypes DEF Done
  <2>4. Done' = Done
    BY <1>2 DEF Done
  <2>5. cleared' \subseteq {FlushOrder[k].attr : k \in 1 .. Len(FlushOrder)}
    BY <1>3, <1>9, <2>2, <2>3
  <2>6. AllRead' => \A k \in 1 .. Done' : FlushOrder[k].attr \in cleared'
    BY <1>3, <1>4, <1>9, <2>2, <2>4
  <2>7. Task'
    BY <1>2, <2>2, <2>4, <2>5, <2>6 DEF Task
  <2>8. InStep'
    BY <1>2, <1>3, <1>4, <1>9 DEF InStep
  <2>9. Warned'
    BY <1>2, <1>4, <1>9, <2>1 DEF Warned
  <2>. QED
    BY <1>5, <1>6, <2>7, <2>8, <2>9
<1>. QED
  BY <1>2, <1>8, <1>9, TodoTypes

-----------------------------------------------------------------------------
\* Every step keeps the invariant.
LEMMA NetlinkStep == NInv /\ [Next]_vars => NInv'
<1> SUFFICES ASSUME NInv, [Next]_vars PROVE NInv'
  OBVIOUS
<1>1. ASSUME NEW p \in Port, NEW s \in State, mrp_port_set_state(p, s) PROVE NInv'
  <2>1. p \in Attr /\ s \in Value /\ p # "ring_role"
    BY NetlinkAssumption DEF Attr, Value
  <2>. QED
    BY <1>1, <2>1, SetKeeps DEF mrp_port_set_state
<1>2. ASSUME NEW role \in RingRole, mrp_set_ring_role(role) PROVE NInv'
  <2>1. /\ "ring_role" \in Attr /\ role \in Value /\ role # "none"
        /\ RingRoleSent(role) \in Value
    BY DEF Attr, Value, RingRole, RingRoleSent
  <2>. QED
    BY <1>2, <2>1, SetKeeps DEF mrp_set_ring_role
<1>3. ASSUME NEW role \in InRole, mrp_set_in_role(role) PROVE NInv'
  <2>1. "in_role" \in Attr /\ role \in Value
    BY DEF Attr, Value
  <2>. QED
    BY <1>3, <2>1, SetKeeps DEF mrp_set_in_role
<1>4. CASE netlink_flush
  BY <1>4, FlushKeeps
<1>5. CASE sendmsg
  BY <1>5, SendKeeps
<1>6. CASE sendmsg_fails
  BY <1>6, SendFailsKeeps
<1>7. CASE rtnl_recvmsg
  BY <1>7, RecvKeeps
<1>8. CASE rtnl_recvmsg_fails
  BY <1>8, RecvFailsKeeps
<1>9. CASE UNCHANGED vars
  <2>1. /\ UNCHANGED <<seq, sock, noBufs, kernel, cleared, state>>
        /\ UNCHANGED <<status, todo, pc, ret, calls, lost>>
    BY <1>9 DEF vars
  <2>. QED
    BY <2>1 DEF NInv, TypeOK, SocketBounded, Task, Done, InStep, Warned, AllRead, Agrees,
                Expected
<1>. QED
  BY <1>1, <1>2, <1>3, <1>4, <1>5, <1>6, <1>7, <1>8, <1>9 DEF Next

\* The inductive invariant holds throughout.
THEOREM NetlinkInvariant == Spec => []NInv
BY NetlinkInit, NetlinkStep, PTL DEF Spec

\* For any number of ports and calls, an instance whose belief differs from the kernel was
\* warned of it, as long as every acknowledgement could be read.
THEOREM BeliefWarnedTheorem == Spec => []BeliefWarned
<1>1. NInv => BeliefWarned
  BY DEF NInv, Warned, BeliefWarned
<1>. QED
  BY <1>1, NetlinkInvariant, PTL

\* However many receives fail, the backlog in the socket is no longer than their number.
THEOREM SocketBoundedTheorem == Spec => []SocketBounded
<1>1. NInv => SocketBounded
  BY DEF NInv
<1>. QED
  BY <1>1, NetlinkInvariant, PTL

\* A flush that reports success has cleared every port.
THEOREM FlushCompleteTheorem == Spec => FlushComplete
<1> DEFINE A == AllRead /\ pc = "recv" /\ pc' = "idle" /\ todo[1].kind = "flush" /\ ret' = 0 =>
                   cleared = {FlushOrder[k].attr : k \in 1 .. Len(FlushOrder)}
<1>1. NInv /\ [Next]_vars => [A]_vars
  <2> SUFFICES ASSUME NInv, Next, AllRead, pc = "recv", pc' = "idle",
                      todo[1].kind = "flush", ret' = 0
               PROVE  cleared = {FlushOrder[k].attr : k \in 1 .. Len(FlushOrder)}
    BY DEF NInv
  <2>1. rtnl_recvmsg \/ rtnl_recvmsg_fails
    BY DEF Next, mrp_port_set_state, mrp_set_ring_role, mrp_set_in_role, Set, netlink_flush,
           sendmsg, sendmsg_fails
  <2>2. ~rtnl_recvmsg_fails
    <3> SUFFICES ASSUME rtnl_recvmsg_fails PROVE FALSE
      OBVIOUS
    <3>1. ret' = -1
      BY DEF rtnl_recvmsg_fails, Return
    <3>. QED
      BY <3>1
  <2>3. IsAnswer(Head(sock)) /\ Return(Head(sock).err)
    BY <2>1, <2>2 DEF rtnl_recvmsg
  <2>4. Head(sock).err = 0 /\ Len(todo) = 1
    BY <2>3 DEF Return
  <2>5. todo[1].attr \in cleared
    <3>1. Head(sock) = sock[1] /\ Len(sock) = 1
      BY DEF NInv, InStep, TypeOK
    <3>. QED
      BY <2>4, <3>1 DEF NInv, InStep
  <2>6. /\ Len(todo) <= Len(FlushOrder)
        /\ \A j \in 1 .. Len(todo) : todo[j] = FlushOrder[Done + j]
        /\ cleared \subseteq {FlushOrder[k].attr : k \in 1 .. Len(FlushOrder)}
        /\ \A k \in 1 .. Done : FlushOrder[k].attr \in cleared
    BY DEF NInv, Task
  <2>7. Done + 1 = Len(FlushOrder) /\ todo[1] = FlushOrder[Done + 1]
    BY <2>4, <2>6, FlushTypes DEF Done
  <2>8. \A k \in 1 .. Len(FlushOrder) : FlushOrder[k].attr \in cleared
    <3> SUFFICES ASSUME NEW k \in 1 .. Len(FlushOrder) PROVE FlushOrder[k].attr \in cleared
      OBVIOUS
    <3>1. CASE k = Len(FlushOrder)
      BY <2>5, <2>7, <3>1
    <3>2. CASE k # Len(FlushOrder)
      <4>1. k \in 1 .. Done
        BY <2>7, <3>2, FlushTypes DEF Done
      <4>. QED
        BY <2>6, <4>1
    <3>. QED
      BY <3>1, <3>2
  <2>. QED
    BY <2>6, <2>8
<1>. QED
  BY <1>1, NetlinkInvariant, PTL DEF Spec, FlushComplete

-----------------------------------------------------------------------------
(***************************************************************************)
(* Notify: LinkFollows for every socket size and every set of reported     *)
(* states.                                                                 *)
(***************************************************************************)
\* The types of its variables.
NotifyTypeOK ==
    /\ oper \in OperState /\ queue \in Seq(OperState) /\ overrun \in BOOLEAN
    /\ exists \in BOOLEAN /\ operstate \in {"UNKNOWN", "UP", "DOWN"} /\ told \in BOOLEAN
    /\ listening \in BOOLEAN /\ sent \in Nat /\ missed \in BOOLEAN

\* As long as every message fitted, the last one in the socket has the present state.
LastIsOper == ~missed /\ queue # <<>> => queue[Len(queue)] = oper

\* What the instance remembers tells what its state machine was told.
Remembers == told <=> operstate = "UP"

\* A message that finds the remembered state equal to its own is ignored, so LinkFollows
\* needs the memory to be right, and the next message to be the last one to matter.
NotifyInv == NotifyTypeOK /\ LastIsOper /\ Remembers /\ LinkFollows

-----------------------------------------------------------------------------
\* A message brings the state machine to the state it reports, unless it reports UNKNOWN,
\* which is also what the daemon remembers of a port it has not heard of.
LEMMA ListenTells ==
    ASSUME NEW s \in OperState, NotifyTypeOK, Remembers, netlink_listen(s)
    PROVE  /\ operstate' \in {"UNKNOWN", "UP", "DOWN"} /\ told' \in BOOLEAN
           /\ Remembers'
           /\ exists /\ s # "UNKNOWN" => (told' <=> s \in Up)
<1>1. CASE exists /\ operstate # s
  <2>1. told' = (s \in Up) /\ operstate' = IF s \in Up THEN "UP" ELSE "DOWN"
    BY <1>1, Zenon DEF netlink_listen, mrp_port_link_change
  <2>2. told' \in BOOLEAN /\ (told' <=> s \in Up)
    <3>1. told' <=> s \in Up
      BY <2>1, Zenon
    <3>2. told' \in BOOLEAN
      BY <2>1
    <3>. QED
      BY <3>1, <3>2
  <2>. QED
    BY <2>1, <2>2 DEF Remembers
<1>2. CASE ~exists /\ UNCHANGED <<operstate, told>>
  BY <1>2 DEF NotifyTypeOK, Remembers
<1>3. CASE operstate = s /\ UNCHANGED <<operstate, told>>
  BY <1>3 DEF NotifyTypeOK, Remembers, Up
<1>. QED
  BY <1>1, <1>2, <1>3 DEF netlink_listen

\* Every step keeps the invariant; the one that reads a message also needs that the last
\* message is the one with the present state.
LEMMA NotifyNextKeeps == NotifyInv /\ [NotifyNext]_notifyVars => NotifyInv'
<1> SUFFICES ASSUME NotifyInv, [NotifyNext]_notifyVars PROVE NotifyInv'
  OBVIOUS
<1> USE DEF NotifyInv
<1>1. CASE rtmsg_ifinfo
  <2>1. /\ oper' \in OperState /\ sent' \in Nat
        /\ UNCHANGED <<exists, operstate, told, listening>>
    BY <1>1, NotifyAssumption DEF rtmsg_ifinfo, NotifyTypeOK
  <2>2. CASE queue' = Append(queue, oper') /\ UNCHANGED <<overrun, missed>>
    <3>1. /\ queue' \in Seq(OperState) /\ queue' # <<>> /\ queue'[Len(queue')] = oper'
      BY <2>1, <2>2, AppendProperties DEF NotifyTypeOK
    <3>. QED
      BY <2>1, <2>2, <3>1 DEF NotifyTypeOK, LastIsOper, Remembers, LinkFollows, Drained
  <2>3. CASE overrun' = TRUE /\ missed' = TRUE /\ UNCHANGED queue
    BY <2>1, <2>3 DEF NotifyTypeOK, LastIsOper, Remembers, LinkFollows, Drained
  <2>. QED
    BY <1>1, <2>2, <2>3, Zenon DEF rtmsg_ifinfo
<1>2. CASE mrp_port_init
  <2>1. /\ told' \in BOOLEAN /\ (told' <=> oper \in Up)
        /\ operstate' = IF oper \in Up THEN "UP" ELSE "UNKNOWN"
    <3>1. CASE oper \in Up
      BY <1>2, <3>1, Zenon DEF mrp_port_init, mrp_port_link_change
    <3>2. CASE oper \notin Up
      BY <1>2, <3>2, Zenon DEF mrp_port_init
    <3>. QED
      BY <3>1, <3>2
  <2>2. exists' = TRUE /\ UNCHANGED <<oper, queue, overrun, listening, sent, missed>>
    BY <1>2 DEF mrp_port_init
  <2>. QED
    BY <2>1, <2>2 DEF NotifyTypeOK, LastIsOper, Remembers, LinkFollows, Drained
<1>3. CASE mrp_port_uninit
  BY <1>3 DEF mrp_port_uninit, NotifyTypeOK, LastIsOper, Remembers, LinkFollows, Drained
<1>4. CASE netlink_rcv
  BY <1>4 DEF netlink_rcv, NotifyTypeOK, LastIsOper, Remembers, LinkFollows, Drained
<1>5. CASE rtnl_listen
  <2>1. /\ queue # <<>> /\ netlink_listen(Head(queue)) /\ queue' = Tail(queue)
        /\ UNCHANGED <<oper, overrun, exists, listening, sent, missed>>
    BY <1>5 DEF rtnl_listen
  <2>2. /\ Head(queue) = queue[1] /\ Head(queue) \in OperState /\ queue' \in Seq(OperState)
        /\ Len(queue') = Len(queue) - 1 /\ Len(queue) \in Nat \ {0}
        /\ \A i \in 1 .. Len(queue') : queue'[i] = queue[i + 1]
    BY <2>1, HeadTailProperties, LenProperties, EmptySeq DEF NotifyTypeOK
  <2>3. /\ operstate' \in {"UNKNOWN", "UP", "DOWN"} /\ told' \in BOOLEAN /\ Remembers'
        /\ exists /\ Head(queue) # "UNKNOWN" => (told' <=> Head(queue) \in Up)
    BY <2>1, <2>2, ListenTells
  <2>4. LastIsOper'
    <3>1. queue' # <<>> => Len(queue') \in 1 .. Len(queue')
      BY <2>2, EmptySeq
    <3>. QED
      BY <2>1, <2>2, <3>1 DEF LastIsOper
  <2>5. LinkFollows'
    <3>1. queue' = <<>> => Len(queue) = 1
      BY <2>2
    <3>2. queue' = <<>> /\ ~missed => Head(queue) = oper
      BY <2>1, <2>2, <3>1 DEF LastIsOper
    <3>. QED
      BY <2>1, <2>3, <3>2 DEF LinkFollows, Drained
  <2>. QED
    BY <2>1, <2>2, <2>3, <2>4, <2>5 DEF NotifyTypeOK
<1>6. CASE rtnl_listen_ends
  BY <1>6 DEF rtnl_listen_ends, NotifyTypeOK, LastIsOper, Remembers, LinkFollows, Drained
<1>7. CASE UNCHANGED notifyVars
  BY <1>7 DEF notifyVars, NotifyTypeOK, LastIsOper, Remembers, LinkFollows, Drained
<1>. QED
  BY <1>1, <1>2, <1>3, <1>4, <1>5, <1>6, <1>7 DEF NotifyNext

\* Whatever was in the socket when the instance came, and however often instances come and
\* go: a daemon that has read all its messages has told the state machine the link there is.
THEOREM LinkFollowsHolds == NotifySpec => []LinkFollows
<1>1. NotifyInit => NotifyInv
  <2> SUFFICES ASSUME NotifyInit PROVE NotifyInv
    OBVIOUS
  <2>1. oper \in OperState /\ queue \in Seq(OperState) /\ sent \in Nat
    BY NotifyAssumption DEF NotifyInit
  <2>2. NotifyTypeOK /\ LastIsOper /\ LinkFollows
    BY <2>1, Zenon DEF NotifyInit, NotifyTypeOK, LastIsOper, LinkFollows
  <2>3. Remembers
    BY DEF NotifyInit, Remembers
  <2>. QED
    BY <2>2, <2>3 DEF NotifyInv
<1>2. NotifyInv => LinkFollows
  BY DEF NotifyInv
<1>. QED
  BY <1>1, <1>2, NotifyNextKeeps, PTL DEF NotifySpec

=============================================================================
