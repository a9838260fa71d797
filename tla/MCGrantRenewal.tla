--------------------------- MODULE MCGrantRenewal ---------------------------
(***************************************************************************)
(* GrantRenewal with two callers in one process.                           *)
(***************************************************************************)
EXTENDS GrantRenewal

CONSTANTS c1, c2, gateway

OneHost == [c \in Callers |-> gateway]

=============================================================================
