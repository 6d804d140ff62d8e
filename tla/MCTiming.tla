------------------------------ MODULE MCTiming ------------------------------
(***************************************************************************)
(* RingTiming and InTiming for TLC: a ring of any profile or an            *)
(* interconnection of any profile breaks.  The limits and intervals of the *)
(* instances are those of the profile.                                     *)
(***************************************************************************)
EXTENDS RingTiming

VARIABLES
    broken,             \* what breaks: the ring, or an interconnection of a profile
    mim, in_clock, in_due, in_frames, in_recovered

inVars == <<mim, in_clock, in_due, in_frames, in_recovered>>

\* The resolution of time: a common divisor of the intervals of the profile.
RingQuantum == [r \in RingRecv |-> IF r >= 200 THEN 10000 ELSE 500]
InQuantum == 10000

ASSUME QuantumAssumption ==
    \A r \in InRecv : /\ in_recovery(r).test_interval % InQuantum = 0
                      /\ in_recovery(r).topo_interval % InQuantum = 0

\* No address starts with two bytes that read as an identifier.
In(r) == INSTANCE InTiming WITH
    in_recv <- r, Quantum <- InQuantum, Mac <- {1, 2}, InId <- {1, 2}, Oui <- [n \in {1, 2} |-> 7],
    in_test_conf_max <- in_recovery(r).test_max,
    in_topo_conf_max <- in_recovery(r).topo_max,
    in_link_conf_max <- in_recovery(r).link_max,
    in_link_status_conf_max <- in_recovery(r).test_max,
    mrp <- mim, clock <- in_clock, due <- in_due, frames <- in_frames, recovered <- in_recovered

InBreaks(r) == broken = <<"interconnection", r>>

\* Where one of the two breaks, the other one is left out.
MCInit ==
    \/ /\ broken = <<"ring">> /\ Init
       /\ mim = 0 /\ in_clock = 0 /\ in_due = 0 /\ in_frames = 0 /\ in_recovered = FALSE
    \/ /\ \E r \in InRecv : InBreaks(r) /\ In(r)!Init
       /\ Init /\ ring_recv = 500 /\ ~mrp.react_on_link_change

MCNext ==
    /\ UNCHANGED broken
    /\ \/ broken = <<"ring">> /\ Next /\ UNCHANGED inVars
       \/ \E r \in InRecv : InBreaks(r) /\ In(r)!Next /\ UNCHANGED vars

MCSpec == MCInit /\ [][MCNext]_<<broken, vars, inVars>>

-----------------------------------------------------------------------------
\* Both profiles keep their promise for an interconnection, up to the one test interval
\* that mrp_recv_in_link grants.
InRecoversSoon == \A r \in InRecv : InBreaks(r) => In(r)!InRecoversSoon

=============================================================================
