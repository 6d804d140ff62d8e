----------------------------- MODULE MCRingNode -----------------------------
(***************************************************************************)
(* Instances of RingNode for TLC.                                          *)
(***************************************************************************)
EXTENDS RingNode

\* Managers and clients, with and without reaction on link changes.
FixedConfig ==
    [ring_role : {"MRM", "MRC"}, macaddr : {2}, prio : Prio,
     react_on_link_change : BOOLEAN, in_role : {"DISABLED"}]

\* A manager that is also an interconnection manager.
MimConfig ==
    [ring_role : {"MRM"}, macaddr : {2}, prio : Prio,
     react_on_link_change : {FALSE}, in_role : {"MIM"}]

NodeConfig == FixedConfig \cup MimConfig

AutoConfig ==
    [ring_role : {"MRA"}, macaddr : {2}, prio : Prio,
     react_on_link_change : {TRUE}, in_role : {"DISABLED"}]

=============================================================================
