------------------------------ MODULE AutoRing ------------------------------
(***************************************************************************)
(* A ring of automanagers.  They all test at the same interval: between    *)
(* two expiries of the test timer of one node, the one of every other node *)
(* that has it armed expires once.  Links stay as they are, frames may be  *)
(* lost.                                                                   *)
(***************************************************************************)
EXTENDS Ring

VARIABLE ticked         \* the nodes whose test timer has expired in this interval

autoVars == <<vars, ticked>>

AutoInit == Init /\ ticked = {}

Testing == {n \in Node : "ring_test" \in mrp'[n].timers}

Interval(n) ==
    /\ n \notin ticked /\ ring_test_work(n)
    /\ ticked' = IF Testing \subseteq ticked \cup {n} THEN {} ELSE ticked \cup {n}

\* The interval also ends when the last timer that it waits for is stopped.
Frames == \E n \in Node : packet_rcv(n)
Timers == \E n \in Node : ring_topo_work(n) \/ ring_link_up_work(n) \/ ring_link_down_work(n)
                            \/ clear_fdb_work(n)
Links == \E n \in Node : netlink_listen(n)

Others ==
    /\ Frames \/ Timers \/ Links \/ Lose
    /\ ticked' = IF Testing \subseteq ticked THEN {} ELSE ticked

AutoNext == (\E n \in Node : Interval(n)) \/ Others

AutoSpec == AutoInit /\ [][AutoNext]_autoVars

\* As for Ring: sockets are served and armed timers expire, again and again withheld
\* while frames travel; losses are finitely many.
AutoFairSpec ==
    /\ AutoSpec
    /\ WF_autoVars(Others /\ Frames)
    /\ WF_autoVars(Others /\ Links)
    /\ SF_autoVars(Others /\ Timers)
    /\ \A n \in Node : SF_autoVars(Interval(n))

-----------------------------------------------------------------------------
Managers == {n \in Node : mrp[n].ring_role = "MRM"}

\* The lower priority value wins, and the lower address if the values are equal.
Better(n, k) ==
    \/ mrp[n].prio < mrp[k].prio
    \/ mrp[n].prio = mrp[k].prio /\ mrp[n].macaddr < mrp[k].macaddr

Best == CHOOSE n \in Node : \A k \in Node \ {n} : Better(n, k)

Connected == Cardinality({n \in Node : ~link[n]}) <= 1

\* The election never takes the last manager: the best automanager of the ring stays a
\* manager, whoever refuses whom and whatever frames are lost.
BestStays == Best \in Managers

\* Every other automanager of a ring that stays connected steps down, and does so again
\* each time after it has taken over.
OthersStepDown == []<>(Connected => Managers = {Best})

=============================================================================
