------------------------------ MODULE LedgerMC -------------------------------
(* A small business: two nodes that cost money and share the waivers. *)
EXTENDS Ledger, TLC

CONSTANTS cheap, dear

CostMC == (cheap :> 1) @@ (dear :> 2)
CapMC == (1 :> 4) @@ (2 :> 2)
=============================================================================
