------------------------------ MODULE OrderFSM ------------------------------
(***************************************************************************)
(* The order state machine of polytrader/oms/fsm.py.  It is pure: the OMS  *)
(* and its store call transition_order_state and either get the order in   *)
(* the new state or an InvalidTransitionError.                             *)
(***************************************************************************)
EXTENDS Naturals

(* OrderState, oms/models.py. *)
OrderStates == {"NEW", "PENDING_SUBMIT", "SUBMITTED", "ACKED",
                "PARTIALLY_FILLED", "FILLED", "CANCELLED", "REJECTED"}

(* _get_valid_transitions: every pair the FSM lets through. *)
ValidTransitions ==
    { <<"NEW", "PENDING_SUBMIT">>,
      <<"PENDING_SUBMIT", "SUBMITTED">>,  <<"PENDING_SUBMIT", "CANCELLED">>,
      <<"SUBMITTED", "ACKED">>,           <<"SUBMITTED", "REJECTED">>,
      <<"ACKED", "PARTIALLY_FILLED">>,    <<"ACKED", "FILLED">>,
      <<"PARTIALLY_FILLED", "FILLED">>,
      <<"ACKED", "CANCELLED">>,           <<"PARTIALLY_FILLED", "CANCELLED">> }

(* Used by a mutant: a late ack reopens a cancelled order. *)
CanTransition_Reopening(from, to) ==
    <<from, to>> \in ValidTransitions \cup {<<"CANCELLED", "ACKED">>}

CanTransition(from, to) == <<from, to>> \in ValidTransitions

(* is_terminal_state, Order.is_terminal. *)
TerminalStates == {"FILLED", "CANCELLED", "REJECTED"}

(* transition_order_state succeeds: the order is in the target state       *)
(* already (idempotent) or the pair is valid; otherwise it raises.         *)
Transitions(from, to) == from = to \/ CanTransition(from, to)
=============================================================================
