------------------------------ MODULE MCInNode ------------------------------
(***************************************************************************)
(* Instances of InNode for TLC.                                            *)
(***************************************************************************)
EXTENDS InNode, TLC

\* Address 1 starts with two bytes that read as 7, address 2 with two that read as 1.
Ouis == (1 :> 7) @@ (2 :> 1)

Commands(roles, mode) ==
    [macaddr : {1}, in_id : {1}, in_role : roles, in_mode : {mode},
     ring_role : {"MRC"}, blocked : {{}}]

InRole == {"DISABLED", "MIM", "MIC"}
AnyConfig == Commands(InRole, "RC") \cup Commands(InRole, "LC")
MimLcConfig == Commands({"MIM"}, "LC")

\* The outputs of the last callback have no influence on the next one.
NoOutputs == <<Idle(mrp), alive, silence>>

=============================================================================
