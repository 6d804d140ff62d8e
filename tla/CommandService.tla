--------------------------- MODULE CommandService ---------------------------
(***************************************************************************)
(* What the mrp command promises its user.  Every run of the command asks  *)
(* for one operation on the table of instances.  The operation takes       *)
(* effect at most once and at one moment, and never before it is asked     *)
(* for.  The command reports what the operation returned, or gives up with *)
(* an error; then nobody knows whether the operation took effect, or will. *)
(* Instances also disappear by themselves.                                 *)
(***************************************************************************)
CONSTANTS
    Client,             \* the runs of the command
    Id                  \* the names of instances

VARIABLES
    table,              \* the instances there are
    op,                 \* what each run asks for
    asked,              \* the runs whose operation is on its way
    effect,             \* what the operation of each run returned
    out                 \* what each run reported

vars == <<table, op, asked, effect, out>>

Op == [cmd : {"add", "del", "get"}, id : Id]
Result(r, ids) == [res |-> r, ids |-> ids]
None == Result("none", {})
Error == Result("error", {})

Init ==
    /\ table = {} /\ op \in [Client -> Op] /\ asked = {}
    /\ effect = [c \in Client |-> None] /\ out = [c \in Client |-> None]

Ask(c) ==
    /\ c \notin asked /\ out[c] = None
    /\ asked' = asked \cup {c}
    /\ UNCHANGED <<table, op, effect, out>>

\* The operation of c returns r and leaves the table t.
Takes(c, t, r) ==
    /\ c \in asked /\ effect[c] = None
    /\ table' = t /\ effect' = [effect EXCEPT ![c] = r]
    /\ UNCHANGED <<op, asked, out>>

Add(c) ==
    /\ op[c].cmd = "add" /\ op[c].id \notin table
    /\ Takes(c, table \cup {op[c].id}, Result("ok", {}))

Del(c) ==
    /\ op[c].cmd = "del" /\ op[c].id \in table
    /\ Takes(c, table \ {op[c].id}, Result("ok", {}))

Get(c) == op[c].cmd = "get" /\ Takes(c, table, Result("ok", table))

\* An instance that exists cannot be added, nor one that does not exist be deleted; and
\* adding may fail for want of memory or because the driver refuses.
Refuse(c) ==
    /\ \/ op[c].cmd = "add"
       \/ op[c].cmd = "del" /\ op[c].id \notin table
    /\ Takes(c, table, Error)

Report(c) ==
    /\ out[c] = None /\ effect[c] # None
    /\ out' = [out EXCEPT ![c] = effect[c]]
    /\ UNCHANGED <<table, op, asked, effect>>

GiveUp(c) ==
    /\ out[c] = None /\ out' = [out EXCEPT ![c] = Error]
    /\ UNCHANGED <<table, op, asked, effect>>

\* A port of an instance leaves its bridge, or the server stops.
Disappear ==
    /\ \E t \in SUBSET table : table' = t
    /\ UNCHANGED <<op, asked, effect, out>>

Next ==
    \/ \E c \in Client :
          \/ Ask(c) \/ Add(c) \/ Del(c) \/ Get(c)
          \/ Refuse(c) \/ Report(c) \/ GiveUp(c)
    \/ Disappear

Spec == Init /\ [][Next]_vars

=============================================================================
