------------------------------- MODULE MCOMS --------------------------------
(* OMS for TLC: small sets of model values; liveness is not checked here.  *)
EXTENDS OMS
=============================================================================
