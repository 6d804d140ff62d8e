------------------------------- MODULE MCRing -------------------------------
(***************************************************************************)
(* Instances of Ring for TLC.                                              *)
(***************************************************************************)
EXTENDS Ring

Command(role, mac, prio, react) ==
    [ring_role |-> role, macaddr |-> mac, prio |-> prio,
     react_on_link_change |-> react, in_role |-> "DISABLED"]

\* A manager and a client, without and with reaction on link changes.
Pairs == {<<Command("MRM", 1, 1, r), Command("MRC", 2, 1, r)>> : r \in BOOLEAN}

\* A manager and two clients.
Triples == {<<Command("MRM", 1, 1, r), Command("MRC", 2, 1, r), Command("MRC", 3, 1, r)>> :
               r \in BOOLEAN}

=============================================================================
