---------------------------- MODULE FrameFilter ----------------------------
(***************************************************************************)
(* What an instance does with a ring frame before any state machine sees   *)
(* it: is the frame dropped, which ports is it forwarded to, and is it     *)
(* processed.  These are decisions of a frame type and of the roles and    *)
(* port states of the instance; nothing of them is remembered.             *)
(***************************************************************************)
EXTENDS MrpInstance

RingFrameType == {"RING_TEST", "RING_TOPO", "RING_LINK_DOWN", "RING_LINK_UP", "OPTION"}

\* Every type of ring frame passes a blocked ring port.
mrp_should_drop(m, p, type) ==
    \/ m.state[p] = "DISABLED"
    \/ /\ m.state[p] = "BLOCKED"
       /\ type \notin RingFrameType \cup {"IN_TOPO", "IN_LINK_UP", "IN_LINK_DOWN"}

\* Mutant: MRP_Option frames are processed in every role.
mrp_should_process_Option(m, type) ==
    CASE type = "RING_TEST" -> m.ring_role = "MRM" \/ m.mra_support
      [] type \in {"RING_LINK_DOWN", "RING_LINK_UP"} -> m.ring_role = "MRM"
      [] type = "RING_TOPO" -> m.ring_role = "MRC" \/ m.mra_support
      [] type = "OPTION" -> TRUE

\* An MRP_Option frame falls through to the test on in_role of MRP_InTest frames.
mrp_should_process(m, type) ==
    CASE type = "RING_TEST" -> m.ring_role = "MRM" \/ m.mra_support
      [] type \in {"RING_LINK_DOWN", "RING_LINK_UP"} -> m.ring_role = "MRM"
      [] type = "RING_TOPO" -> m.ring_role = "MRC" \/ m.mra_support
      [] type = "OPTION" -> m.mra_support \/ m.in_role = "MIM"

\* Mutant: a client keeps the frames it receives.
ForwardPorts_Keeps(m, p, type) == {}

\* The ring ports that a ring frame received on ring port p leaves by.
ForwardPorts(m, p, type) ==
    IF m.ring_role = "MRM" \/ (type = "OPTION" /\ ~m.mra_support)
    THEN {}
    ELSE BothPorts(m) \ {p}

mrp_check_and_forward(m, p, f) == mrp_send(m, ForwardPorts(m, p, f.type), f)

=============================================================================
