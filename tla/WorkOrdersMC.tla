---------------------------- MODULE WorkOrdersMC -----------------------------
(* A post that cannot be repeated blindly and a design audit; two orders. *)
EXTENDS WorkOrders

CONSTANTS post, audit

HistoryMC == [n \in Nodes |-> IF n = post THEN 2 ELSE 1]

ForMC == [o \in Orders |-> IF o = 3 THEN audit ELSE post]
=============================================================================
