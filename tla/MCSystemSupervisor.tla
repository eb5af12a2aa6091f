------------------------- MODULE MCSystemSupervisor -------------------------
(* SystemSupervisor for TLC. *)
EXTENDS SystemSupervisor
=============================================================================
