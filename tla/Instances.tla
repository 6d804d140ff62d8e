----------------------------- MODULE Instances ------------------------------
(***************************************************************************)
(* The table of MRP instances of one server: how an instance comes to be,  *)
(* how it is found, and how it goes, with every call on the way that can   *)
(* fail.  What an instance does while it lives is the business of RingNode *)
(* and InNode; here it is reduced to the timers it has armed, in classes   *)
(* that mrp_timer_stop treats alike.  A server is a record of              *)
(*   list   the instances, in list order,                                  *)
(*   freed  the timers left armed in freed memory, with the role and the   *)
(*          mode of the instance they belonged to,                         *)
(*   meps   the CFM end points in the kernel, one per LC instance.         *)
(***************************************************************************)
EXTENDS Integers, SequencesExt

CONSTANTS
    Id,                 \* bridge and ring number, which name an instance
    Ifindex             \* the ports of the bridges

ASSUME IfindexAssumption == Ifindex \subseteq Nat \ {0}

NoPort == 0             \* iport not given

PortField == {"p_port", "s_port", "i_port"}
Timer == {"ring", "in", "in_test", "in_link_status", "cfm_ccm"}
InRole == {"DISABLED", "MIM", "MIC"}
InMode == {"RC", "LC"}

\* The calls of mrp_add that may fail: the allocations and the two requests to the driver.
Call == {"create", "ring_role", "in_role"} \cup PortField

\* The arguments of addmrp; the client insists on both ring ports.
Config ==
    [id : Id, p_port : Ifindex, s_port : Ifindex, i_port : Ifindex \cup {NoPort},
     in_role : InRole, in_mode : InMode]

Instance ==
    [id : Id, p_port : Ifindex \cup {NoPort}, s_port : Ifindex \cup {NoPort},
     i_port : Ifindex \cup {NoPort}, in_role : InRole, in_mode : InMode,
     timers : SUBSET Timer, refused : SUBSET {"ring_role", "in_role"}]

NoInstances == [list |-> <<>>, freed |-> {}, meps |-> {}]

-----------------------------------------------------------------------------
\* Positions in the list, 0 for none.
mrp_find(S, id) == SelectInSeq(S.list, LAMBDA x : x.id = id)

mrp_get_port(S, ifindex) ==
    SelectInSeq(S.list, LAMBDA x : \E p \in PortField : x[p] = ifindex)

\* The timers mrp_timer_stop stops.
Stopped(x) ==
    {"ring"} \cup CASE x.in_role = "DISABLED" -> {}
                    [] x.in_mode = "RC" -> {"in", "in_test"}
                    [] OTHER -> {"in", "in_link_status", "cfm_ccm"}

\* The classes of timers that the callbacks of instance x may arm.
Armable(x) ==
    {"ring"} \cup CASE x.in_role = "DISABLED" -> {}
                    [] x.in_mode = "RC" -> {"in", "in_test"}
                    [] OTHER -> {"in", "in_test", "in_link_status"}

\* A bug: the ring timers of an instance without an interconnection role keep running.
mrp_timer_stop_Late(x) == [x EXCEPT !.timers = IF x.in_role = "DISABLED" THEN @ ELSE @ \ Stopped(x)]

mrp_timer_stop(x) == [x EXCEPT !.timers = @ \ Stopped(x)]

mrp_reset_ring_state(x) == mrp_timer_stop(x)

\* The timers of x that free leaves armed.
StillArmed(x) == {<<x.in_role, x.in_mode, t>> : t \in x.timers}

\* A bug: the end point of an LC instance stays.
mrp_destroy_KeepsMep(S, id) ==
    LET k == mrp_find(S, id)
    IN IF k = 0 THEN S ELSE [S EXCEPT !.list = RemoveAt(@, k)]

mrp_destroy(S, id) ==
    LET k == mrp_find(S, id)
        x == mrp_reset_ring_state(S.list[k])
    IN IF k = 0 THEN S
       ELSE [list |-> RemoveAt(S.list, k),
             freed |-> S.freed \cup StillArmed(x),
             meps |-> IF x.in_mode = "LC" THEN S.meps \ {id} ELSE S.meps]

-----------------------------------------------------------------------------
(***************************************************************************)
(* mrp_add works on r, the new instance with the error so far.  The calls  *)
(* in bad fail; the link changes that a role setter replays for the ports  *)
(* that are up arm the timers of armed.                                    *)
(***************************************************************************)
mrp_create(id) ==
    [id |-> id, p_port |-> NoPort, s_port |-> NoPort, i_port |-> NoPort,
     in_role |-> "DISABLED", in_mode |-> "RC", timers |-> {}, refused |-> {}]

mrp_port_init(r, port, ifindex, bad) ==
    IF r.err \/ ifindex = NoPort THEN r
    ELSE IF port \in bad THEN [r EXCEPT !.err = TRUE]
    ELSE [r EXCEPT !.x[port] = ifindex]

mrp_start_cfm(r) ==
    IF r.err \/ r.x.in_mode = "RC" THEN r ELSE [r EXCEPT !.x.timers = @ \cup {"cfm_ccm"}]

\* mrp_set_mra_role, mrp_set_mrm_role and mrp_set_mrc_role do the same to the timers.
mrp_set_ring_role(r, bad, armed) ==
    LET x == mrp_reset_ring_state(r.x)
    IN IF "ring_role" \in bad
       THEN [x |-> [x EXCEPT !.refused = @ \cup {"ring_role"}], err |-> TRUE]
       ELSE [x |-> [x EXCEPT !.timers = @ \cup (armed \cap {"ring"})], err |-> FALSE]

\* mrp_set_mim_role and mrp_set_mic_role; the error of the ring role is overwritten.
mrp_set_in_role(r, role, bad, armed) ==
    LET x == [r.x EXCEPT !.in_role = role]
    IN IF role = "DISABLED" THEN r
       ELSE IF r.x.i_port = NoPort THEN [r EXCEPT !.err = TRUE]
       ELSE IF "in_role" \in bad
       THEN [x |-> [x EXCEPT !.refused = @ \cup {"in_role"}], err |-> TRUE]
       ELSE [x |-> [x EXCEPT !.timers = @ \cup (armed \cap Armable(x))], err |-> FALSE]

Ports(c, bad) ==
    LET r0 == [x |-> [mrp_create(c.id) EXCEPT !.in_mode = c.in_mode], err |-> FALSE]
        r1 == mrp_port_init(r0, "p_port", c.p_port, bad)
        r2 == mrp_port_init(r1, "s_port", c.s_port, bad)
    IN mrp_port_init(r2, "i_port", c.i_port, bad)

\* The new instance when mrp_add has set it up, or has met an error.
Built(c, bad, armed) ==
    LET r == mrp_start_cfm(Ports(c, bad))
    IN IF r.err THEN r
       ELSE mrp_set_in_role(mrp_set_ring_role(r, bad, armed), c.in_role, bad, armed)

\* The server with the new instance x at the end of its list.
Listed(S, x) ==
    [S EXCEPT !.list = Append(@, x),
              !.meps = IF "cfm_ccm" \in x.timers THEN @ \cup {x.id} ELSE @]

\* A bug: an error leaves the instance in the list, with its ports released.
mrp_add_KeepsEntry(S, c, bad, armed) ==
    LET r == Built(c, bad, armed)
    IN IF mrp_find(S, c.id) # 0 \/ "create" \in bad THEN [S |-> S, res |-> "error"]
       ELSE [S |-> Listed(S, r.x), res |-> IF r.err THEN "error" ELSE "ok"]

mrp_add(S, c, bad, armed) ==
    LET r == Built(c, bad, armed)
    IN IF mrp_find(S, c.id) # 0 \/ "create" \in bad THEN [S |-> S, res |-> "error"]
       ELSE IF r.err THEN [S |-> mrp_destroy(Listed(S, r.x), c.id), res |-> "error"]
       ELSE [S |-> Listed(S, r.x), res |-> "ok"]

mrp_del(S, id) ==
    IF mrp_find(S, id) = 0 THEN [S |-> S, res |-> "error"]
    ELSE [S |-> mrp_destroy(S, id), res |-> "ok"]

\* The names that mrp_get copies out.
mrp_get(S) == {S.list[k].id : k \in DOMAIN S.list}

LcNames(S) == {S.list[k].id : k \in {j \in DOMAIN S.list : S.list[j].in_mode = "LC"}}

\* mrp_uninit destroys one instance after the other; each call finds the one it is for, as
\* their names are distinct.
mrp_uninit(S) ==
    [list |-> <<>>,
     freed |-> S.freed \cup
               UNION {StillArmed(mrp_reset_ring_state(S.list[k])) : k \in DOMAIN S.list},
     meps |-> S.meps \ LcNames(S)]

\* A bug: the first instance goes, whichever has the port.
leave_bridge_First(S, ifindex) ==
    IF mrp_get_port(S, ifindex) = 0 THEN S ELSE mrp_destroy(S, S.list[1].id)

\* The last step of netlink_listen: the port has no master, so its instance goes.
leave_bridge(S, ifindex) ==
    LET k == mrp_get_port(S, ifindex)
    IN IF k = 0 THEN S ELSE mrp_destroy(S, S.list[k].id)

=============================================================================
