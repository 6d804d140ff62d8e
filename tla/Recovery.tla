------------------------------ MODULE Recovery ------------------------------
(***************************************************************************)
(* The recovery profiles.  addmrp selects a recovery time for the ring and *)
(* one for the interconnection, and mrp_update_recovery derives from them  *)
(* how often an instance tests, when it gives up, and how it announces a   *)
(* change.  Times are in microseconds, a profile is named by its promise   *)
(* in milliseconds.                                                        *)
(***************************************************************************)
EXTENDS Naturals

RingRecv == {500, 200, 30, 10}
InRecv == {500, 200}

Profile(test, tests, topo, topos, link, links) ==
    [test_interval |-> test, test_max |-> tests, topo_interval |-> topo, topo_max |-> topos,
     link_interval |-> link, link_max |-> links]

ring_recovery(recv) ==
    CASE recv = 500 -> Profile(50000, 5, 20000, 3, 100000, 4)
      [] recv = 200 -> Profile(20000, 3, 10000, 3, 20000, 4)
      [] recv = 30 -> Profile(3500, 3, 500, 3, 1000, 4)
      [] recv = 10 -> Profile(1000, 3, 500, 3, 1000, 4)

\* The interval after a test that a client's link change asks for.
ring_test_conf_short(recv) ==
    CASE recv = 500 -> 30000 [] recv = 200 -> 10000 [] recv = 30 -> 1000 [] recv = 10 -> 500

in_recovery(recv) ==
    CASE recv = 500 -> Profile(50000, 8, 20000, 3, 20000, 4)
      [] recv = 200 -> Profile(20000, 8, 10000, 3, 20000, 4)

=============================================================================
