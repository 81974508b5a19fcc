----------------------------- MODULE MCDlrNode -----------------------------
(* Supervisors of DlrNode for TLC: "high" outranks "low" by precedence, and *)
(* in the tie maps "high" has the higher MAC address.                      *)
EXTENDS DlrNode

MCSupervisors == {"low", "high"}
MCPrecedence == [s \in MCSupervisors |-> IF s = "high" THEN 2 ELSE 1]
MCTiedPrecedence == [s \in MCSupervisors |-> 1]
MCMac == [s \in MCSupervisors |-> IF s = "high" THEN <<5, 9>> ELSE <<5, 7>>]
MCOneSupervisor == {"low"}
MCOnePrecedence == [s \in MCOneSupervisor |-> 1]
MCOneMac == [s \in MCOneSupervisor |-> <<5, 7>>]
=============================================================================
