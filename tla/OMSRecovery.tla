---------------------------- MODULE OMSRecovery -----------------------------
(***************************************************************************)
(* The OMS with restarts of its supervisor inside one process: the bus and *)
(* its event store stay, the OMS core is made anew and its order store is  *)
(* rebuilt from the stored events (ops/replay.py, rebuild_from_events of   *)
(* oms/store.py, _reconstruct_state of supervisor/system.py).              *)
(*                                                                         *)
(* The idempotency store is not rebuilt, and the queues of the old core    *)
(* are read by nobody.  The rebuild applies the events that were           *)
(* published, in the order of their ts_mono.  They are not only the OMS's  *)
(* own: ExecutionRouter publishes OrderAckEvent, FillEvent and             *)
(* OrderRejectedEvent with the OMS's order ids on the same bus, and the    *)
(* running store, which listens to the user stream alone, never applies    *)
(* those.  The module therefore has a router beside the OMS, as far as     *)
(* these three events go (Execution has the rest of it).                   *)
(***************************************************************************)
EXTENDS OMS

CONSTANT MaxRestarts  \* bound: restarts of the supervisor
ASSUME RestartsAssumption == MaxRestarts \in Nat

VARIABLES
    restarts,  \* restarts so far
    routed     \* what the router makes of each order it was told to submit
recoveryVars == <<vars, restarts, routed>>

(* An order at the router: its command is queued or its adapter called     *)
(* ("sent"), the event named is being published, all is said ("done"), or  *)
(* the router was stopped before ("gone").                                 *)
RouterEvents == {"Rejected", "Fill", "Ack"}
Route == [client: ClientIds, st: {"sent", "done", "gone"} \cup RouterEvents, at: Nat]

Answering == {o \in DOMAIN routed : routed[o].st \in RouterEvents}

-----------------------------------------------------------------------------
(* The rebuild: a fold over the events.  It starts from empty maps and     *)
(* ends with the first event whose handler raises; what was applied before *)
(* stays, and the exception is logged by _reconstruct_state.               *)
Empty == [ok |-> TRUE, orders |-> <<>>,
          clientMap |-> [c \in ClientIds |-> NoOrder],
          venueMap  |-> [c \in ClientIds |-> NoOrder]]

(* _handle_order_created: the order enters the store in state NEW. *)
Created(s, e) ==
    [s EXCEPT !.orders = [x \in DOMAIN s.orders \cup {e.order} |->
                            IF x = e.order THEN [client |-> e.client, state |-> "NEW",
                                                 filled |-> 0, venue |-> FALSE]
                                           ELSE s.orders[x]],
              !.clientMap[e.client] = e.order]

(* The state each handler of the store moves its order to, ...            *)
Target(ord, e) ==
    CASE e.type = "Submitted" -> "SUBMITTED"
      [] e.type = "Ack"       -> "ACKED"
      [] e.type = "Rejected"  -> "REJECTED"
      [] e.type = "Fill"      -> StateAfterFill(ord, e.size)
      [] e.type = "Canceled"  -> "CANCELLED"

(* ... and whether it does: NEW goes to SUBMITTED and to REJECTED through  *)
(* the states between, everything else is up to the FSM.                   *)
Takes(ord, e) ==
    \/ ord.state = "NEW" /\ e.type \in {"Submitted", "Rejected"}
    \/ ord.state = "PENDING_SUBMIT" /\ e.type = "Rejected"
    \/ Transitions(ord.state, Target(ord, e))

(* handle_order_submitted, _ack, _rejected, handle_fill and                *)
(* handle_order_canceled of the store, on replayed events.                 *)
(* Mutant: a fill replaces what was filled before.                         *)
Booked_LastFill(ord, e) ==
    [ord EXCEPT !.state  = Target(ord, e),
                !.filled = IF e.type = "Fill" THEN e.size ELSE @,
                !.venue  = @ \/ e.type = "Ack"]
Booked(ord, e) ==
    [ord EXCEPT !.state  = Target(ord, e),
                !.filled = IF e.type = "Fill" THEN FilledAfter(ord, e.size) ELSE @,
                !.venue  = @ \/ e.type = "Ack"]

Moved(s, e) ==
    [s EXCEPT !.orders[e.order] = Booked(@, e),
              !.venueMap = IF e.type = "Ack" THEN [@ EXCEPT ![e.client] = e.order] ELSE @]

(* One event of the replay.  CancelRequestedEvent is not among the types   *)
(* that are replayed; an event of an unknown order changes nothing, nor    *)
(* does the creation of a known one.                                       *)
Replay(e, s) ==
    LET known == e.order \in DOMAIN s.orders IN
    IF ~s.ok \/ e.type = "CancelRequested" \/ (known <=> e.type = "Created") THEN s
    ELSE IF ~known                      THEN Created(s, e)
    ELSE IF Takes(s.orders[e.order], e) THEN Moved(s, e)
    ELSE [s EXCEPT !.ok = FALSE]

Rebuild(events) ==
    LET s[n \in 0..Len(events)] == IF n = 0 THEN Empty ELSE Replay(events[n], s[n - 1])
    IN s[Len(events)]

-----------------------------------------------------------------------------
(* Without an append that suspends, nobody is scheduled between the        *)
(* events of one handler.                                                  *)
Suspended == {t \in Tasks : task[t].pc \notin {"idle", "dead"}}
Uninterrupted == Suspends \/ (Suspended = {} /\ Answering = {})

(* The router (ExecutionRouter._handle_submit_command).  The venue answers *)
(* the call of its adapter, or a gate or a fatal error keeps the order     *)
(* from it.  A router that throttles an order, or has a retryable error,   *)
(* says nothing of it here.  The venue knows an order by its client id, as *)
(* in OMS: a second submission of it finds the first.                      *)

RouterSays(o, type, n) ==
    /\ log' = Append(log, Ev(type, o, routed[o].client, n))
    /\ routed' = [routed EXCEPT ![o].st = type, ![o].at = Len(log) + 1]

(* OrderRejectedEvent: execution is disabled, the strategy is not active,  *)
(* or the venue has refused the order.                                     *)
RouterRejects(o) ==
    /\ routed[o].st = "sent" /\ Uninterrupted
    /\ venue[routed[o].client].st \in {"none", "rejected"}
    /\ RouterSays(o, "Rejected", 0)

(* FillEvent, if the answer says that the order is filled.                 *)
RouterFills(o) ==
    /\ routed[o].st = "sent" /\ Uninterrupted
    /\ venue[routed[o].client].matched = Size
    /\ RouterSays(o, "Fill", Size)

(* OrderAckEvent, after that or at once.                                   *)
RouterAcks(o) ==
    /\ \/ routed[o].st = "Fill"
       \/ /\ routed[o].st = "sent" /\ Uninterrupted
          /\ venue[routed[o].client].st \in {"open", "closed"}
    /\ RouterSays(o, "Ack", 0)

RouterRests(o) ==
    /\ routed[o].st \in {"Rejected", "Ack"}
    /\ routed' = [routed EXCEPT ![o].st = "done", ![o].at = 0]
    /\ UNCHANGED log

Router ==
    /\ \E o \in DOMAIN routed :
          RouterRejects(o) \/ RouterFills(o) \/ RouterAcks(o) \/ RouterRests(o)
    /\ UNCHANGED <<riskVars, storeVars, idem, cmdVars, inbox, task, venueVars, restarts>>

(* The bus hands a submit command to the router, ...                       *)
Routes ==
    routed' = IF submitCmds' = submitCmds THEN routed
              ELSE LET e == Pending("proposals") IN
                   [o \in DOMAIN routed \cup {e.order} |->
                       IF o = e.order THEN [client |-> e.client, st |-> "sent", at |-> 0]
                                      ELSE routed[o]]

(* ... which is the only way for an order to get to the venue: before the  *)
(* router has spoken of it, or after it was stopped in the call.           *)
VenueIsAsked ==
    \A c \in ClientIds : venue[c].st = "none" /\ venue'[c].st # "none" =>
        \E o \in DOMAIN routed : routed[o].client = c /\ routed[o].st \in {"sent", "gone"}

-----------------------------------------------------------------------------
(* The supervisor is stopped, which cancels the tasks of the OMS and of    *)
(* the router, and started again.  A handler can only be cancelled where   *)
(* it is suspended: in the append of an event, which then is stored or     *)
(* not, or in the call of the adapter.                                     *)
Appending == {task[t].at : t \in Suspended} \cup {routed[o].at : o \in Answering}

Without(events, lost) ==
    LET w[n \in 0..Len(events)] ==
            IF n = 0 THEN <<>>
            ELSE IF n \in lost THEN w[n - 1] ELSE Append(w[n - 1], events[n])
    IN w[Len(events)]

Forgotten == [c \in ClientIds |-> NoOrder]

Restart ==
    /\ restarts < MaxRestarts
    /\ restarts' = restarts + 1
    /\ Uninterrupted
    /\ \E lost \in SUBSET Appending : log' = Without(log, lost)
    /\ LET r == Rebuild(log') IN
          /\ orders' = r.orders /\ clientMap' = r.clientMap /\ venueMap' = r.venueMap
    /\ idem' = Forgotten
    /\ proposals' = <<>> /\ inbox' = [t \in Topics |-> <<>>]
    /\ task' = [t \in Tasks |-> Idle]
    /\ routed' = [o \in DOMAIN routed |->
                   [routed[o] EXCEPT !.st = IF @ = "done" THEN "done" ELSE "gone", !.at = 0]]
    /\ UNCHANGED <<approvals, cmdVars, venueVars>>

(* A uuid is never drawn twice, though the order of the first may have     *)
(* been forgotten.                                                         *)
FreshIds == \A o \in DOMAIN orders' \ DOMAIN orders :
                \A i \in 1..Len(log) : log[i].order # o

Run == /\ Suspends \/ Answering = {}
       /\ Next
       /\ FreshIds /\ VenueIsAsked /\ Routes
       /\ UNCHANGED restarts

RecoveryInit == Init /\ restarts = 0 /\ routed = <<>>
RecoveryNext == Run \/ Router \/ Restart
RecoverySpec == RecoveryInit /\ [][RecoveryNext]_recoveryVars

(* The tasks are as fair as in OMS; nobody has to restart anything.        *)
RecoveryFairSpec == RecoverySpec /\ Fairness

-----------------------------------------------------------------------------
(* Properties *)

(* A rebuild that runs to its end brings back all that the OMS knows, at   *)
(* any time: every order, with as much filled as it has booked, under the  *)
(* venue's id if it knows one, and closed in the way it is closed.  It may *)
(* know more than the OMS, since it applies what only the router said.     *)
RebuildForgetsNothing ==
    LET r == Rebuild(log) IN
    r.ok => /\ r.clientMap = clientMap
            /\ \A o \in DOMAIN orders :
                  /\ o \in DOMAIN r.orders
                  /\ r.orders[o].client = orders[o].client
                  /\ orders[o].filled <= r.orders[o].filled
                  /\ orders[o].venue => r.orders[o].venue
                  /\ orders[o].state \in TerminalStates =>
                        r.orders[o].state = orders[o].state

(* The commands of one life of the OMS: however often an intent is         *)
(* approved, it is submitted at most once between two restarts.  It is     *)
(* submitted again after one, since nothing rebuilds the idempotency keys. *)
SubmittedOncePerLife ==
    \A c \in ClientIds :
        Cardinality({i \in 1..Len(submitCmds) : submitCmds[i] = c}) <= 1 + restarts

(* Every approved proposal is submitted, or was in the queue of an OMS     *)
(* that was stopped.                                                       *)
ApprovedIsSubmittedOrStopped ==
    \A c \in ClientIds :
        (restarts = 0 /\ \E i \in 1..Len(proposals) : proposals[i] = c)
            ~> (Submitted(c) \/ restarts > 0)

-----------------------------------------------------------------------------
(* What the documents say of the rebuild.  Both fail: the log has events   *)
(* that the running store has refused, or never heard of.                  *)

(* flows.mdc, section 14: "Rebuild projections from event log".  Whenever  *)
(* no handler is under way, a rebuild gives the orders of the running OMS. *)
RebuildIsTheStore ==
    Suspended = {} /\ Answering = {} =>
        LET r == Rebuild(log) IN r.ok => r.orders = orders

(* ops/replay.py:88 "Missing events are handled gracefully (replay         *)
(* continues)": the rebuild reads the log to its end.                      *)
ReplayGoesOn == Rebuild(log).ok
=============================================================================
