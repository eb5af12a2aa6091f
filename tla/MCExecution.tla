---------------------------- MODULE MCExecution -----------------------------
(* Execution for TLC: small sets of model values.  The client ids differ   *)
(* (active or not) and no set is symmetric.                                *)
EXTENDS Execution
=============================================================================
