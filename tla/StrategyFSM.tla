---------------------------- MODULE StrategyFSM -----------------------------
(* The strategy state machine, strategies/lifecycle.py. *)

States == {"STOPPED", "STARTING", "RUNNING", "PAUSED", "DRAINING", "STOPPING", "ERROR"}

ValidTransitions ==
    { <<"STOPPED", "STARTING">>, <<"STARTING", "RUNNING">>, <<"STARTING", "ERROR">>,
      <<"RUNNING", "PAUSED">>, <<"PAUSED", "RUNNING">>,
      <<"RUNNING", "DRAINING">>, <<"DRAINING", "STOPPING">>, <<"STOPPING", "STOPPED">>,
      <<"RUNNING", "ERROR">>, <<"PAUSED", "ERROR">>, <<"ERROR", "STOPPED">>,
      <<"RUNNING", "STOPPING">>, <<"PAUSED", "STOPPING">> }

CanTransition(from, to) == from = to \/ <<from, to>> \in ValidTransitions
=============================================================================
