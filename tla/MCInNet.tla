------------------------------ MODULE MCInNet -------------------------------
(***************************************************************************)
(* Instances of InNet for TLC.                                             *)
(***************************************************************************)
EXTENDS InNet

\* No address starts with two bytes that read as the identifier of the interconnection.
Ouis == [n \in Mac |-> 7]

\* The network looks the same from all four nodes: any of them is the manager.
OneManager == {[n \in 1 .. 4 |-> IF n = 1 THEN "MIM" ELSE "MIC"]}

\* No interconnection link works at first.
NoLink == {[k \in Link |-> FALSE]}

=============================================================================
