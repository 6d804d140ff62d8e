------------------------------ MODULE MCServer ------------------------------
(***************************************************************************)
(* Instances of Server for TLC.                                            *)
(***************************************************************************)
EXTENDS Server, TLC

Conf(id, p, i, role, mode) ==
    [id |-> id, p_port |-> p, s_port |-> p + 1, i_port |-> i, in_role |-> role, in_mode |-> mode]

Addmrp(conf) == [cmd |-> "add", id |-> conf.id, conf |-> conf]
Simple(cmd, id) == [cmd |-> cmd, id |-> id]

\* Runs that ask for these operations; who asks for which does not matter.
Runs(a, b, c) == <<a, b, c>>

ring1 == Addmrp(Conf(1, 1, NoPort, "DISABLED", "RC"))
ring2 == Addmrp(Conf(2, 4, NoPort, "DISABLED", "RC"))
mim1 == Addmrp(Conf(1, 1, 3, "MIM", "RC"))
mic2 == Addmrp(Conf(2, 4, 6, "MIC", "RC"))
lc1 == Addmrp(Conf(1, 1, 3, "MIM", "LC"))
lcRing1 == Addmrp(Conf(1, 1, NoPort, "DISABLED", "LC"))
noIport == Addmrp(Conf(1, 1, NoPort, "MIM", "RC"))
del1 == Simple("del", 1)
get == Simple("get", 1)

\* Instances with ports of their own, in RC mode.
Separate ==
    {Runs(mim1, ring2, del1), Runs(mim1, ring1, del1), Runs(mim1, mic2, get),
     Runs(noIport, ring1, get), Runs(mim1, del1, del1)}

\* The same in LC mode.
Lc == {Runs(lc1, lcRing1, del1), Runs(lc1, ring2, get)}

Both == Separate \cup Lc

\* At most two calls of an addmrp fail.
Failures == {{}} \cup {{a, b} : a, b \in Call}

=============================================================================
