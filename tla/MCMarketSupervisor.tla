------------------------- MODULE MCMarketSupervisor ------------------------
(* The instance TLC checks: its constants are in the configurations.      *)
EXTENDS MarketSupervisor
=============================================================================
