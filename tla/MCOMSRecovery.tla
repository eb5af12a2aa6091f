--------------------------- MODULE MCOMSRecovery ----------------------------
(* OMSRecovery for TLC: small sets of model values.  The run checks        *)
(* liveness too, so that no symmetry is declared.                          *)
EXTENDS OMSRecovery
=============================================================================
