-------------------------- MODULE MCLivePositions ---------------------------
(* LivePositions for TLC: one market's outcome, few orders, two ticks.     *)
EXTENDS LivePositions
=============================================================================
