----------------------------- MODULE MCAutoRing -----------------------------
(***************************************************************************)
(* Instances of AutoRing for TLC.                                          *)
(***************************************************************************)
EXTENDS AutoRing

Command(mac, prio) ==
    [ring_role |-> "MRA", macaddr |-> mac, prio |-> prio,
     react_on_link_change |-> FALSE, in_role |-> "DISABLED"]

\* Two automanagers, of different priorities or of equal ones.
Autos == {<<Command(1, p), Command(2, q)>> : p \in {1, 2}, q \in {1, 2}}

=============================================================================
