------------------------- MODULE MCMaintenanceLoop --------------------------
(***************************************************************************)
(* MaintenanceLoop on small instances: two members, a clock of a few       *)
(* instants, so that moments come before, during and after a pass.         *)
(***************************************************************************)
EXTENDS MaintenanceLoop

=============================================================================
