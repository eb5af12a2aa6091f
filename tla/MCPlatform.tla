----------------------------- MODULE MCPlatform -----------------------------
(* Platform for TLC. *)
EXTENDS Platform

Request(type, s, id, v) == [type |-> type, strategy |-> s, id |-> id, expected |-> v]

NoRequests == {}

(* Two commands for the version the table starts with, and one for a       *)
(* strategy.                                                               *)
SomeRequests ==
    { Request("enable", "none", "r1", 1), Request("disable", "none", "r2", 1),
      Request("add", "a", "r3", NoVersion) }

OneRemoval == { Request("remove", "a", "r1", NoVersion) }
=============================================================================
