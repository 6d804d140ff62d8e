----------------------------- MODULE MCNetlink ------------------------------
(***************************************************************************)
(* Instances of Netlink for TLC.                                           *)
(***************************************************************************)
EXTENDS Netlink

\* p_port, s_port and i_port in turn.
PSI == <<[kind |-> "flush", attr |-> "p"], [kind |-> "flush", attr |-> "s"],
         [kind |-> "flush", attr |-> "i"]>>

=============================================================================
