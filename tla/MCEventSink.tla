---------------------------- MODULE MCEventSink -----------------------------
(* EventSink for TLC: small batches, a small buffer, few failures.         *)
EXTENDS EventSink
=============================================================================
