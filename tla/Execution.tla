----------------------------- MODULE Execution ------------------------------
(***************************************************************************)
(* Execution: the ExecutionRouters on one bus (execution/router.py), each  *)
(* with its throttle (execution/throttle.py), its venue adapter (paper:    *)
(* execution/paper.py; live: the venue behind adapters/polymarket) and the *)
(* ExecutionControl they may consult (ops/control.py).                     *)
(*                                                                         *)
(* A lane is an OMS and a router (platform/orchestrator.py).  All lanes    *)
(* share the bus: every router takes the commands of every OMS.  A router  *)
(* runs two tasks, one for submit and one for cancel commands.  A task     *)
(* gives up the event loop in every await of its adapter, and in the       *)
(* publish of an event if the bus's store suspends; `proc` names the event *)
(* it is publishing, or the adapter's await it is in: "call" of the paper  *)
(* adapter, "lookup", "balance" and "post" of the live one.                *)
(***************************************************************************)
EXTENDS Naturals, Sequences

CONSTANTS
    Lanes,          \* the lanes on the bus
    Live,           \* those whose adapter trades at the venue
    Controlled,     \* those whose router was given the ExecutionControl
    StrategyChecked,\* those whose router has is_paper_mode = False
    ClientIds,      \* client_order_ids: one per approved intent, same in all lanes
    Active,         \* those of strategies active for live trading
    Suspends,       \* TRUE iff the bus's event store suspends in append()
    ZeroPrices,     \* TRUE iff a paper fill may be priced 0 (an empty book)
    MaxPerSecond,   \* the throttle's limit for one client id
    MaxCancels      \* bound: cancel commands the OMSs publish

ASSUME LanesAssumption ==
    Live \subseteq Lanes /\ Controlled \subseteq Lanes /\ StrategyChecked \subseteq Lanes
ASSUME ExecutionFlags == Suspends \in BOOLEAN /\ ZeroPrices \in BOOLEAN
ASSUME ExecutionBounds == MaxPerSecond \in Nat \ {0} /\ MaxCancels \in Nat

VARIABLES
    submitted,  \* orders whose submit command an OMS has published
    cancels,    \* how many cancel commands the OMSs have published
    queue,      \* the two command queues of each router
    proc,       \* the two tasks of each router
    window,     \* the throttle: commands of a client id within the last second
    enabled,    \* ExecutionControl.execution_enabled
    kill,       \* ExecutionControl.kill_switch_active
    placed,     \* external: how often a lane's venue has taken an order
    late,       \* ghost: orders a venue has taken since execution was stopped
    answers     \* what a router has published about an order, in order

oms     == <<submitted, cancels>>
control == <<enabled, kill>>
venue   == <<placed, late>>
vars == <<submitted, cancels, queue, proc, window, enabled, kill, placed, late, answers>>

-----------------------------------------------------------------------------
(* Every OMS draws an order id of its own for an intent: an order is a     *)
(* lane and a client id.                                                   *)
Orders  == [lane: Lanes, client: ClientIds]
Kinds   == {"submit", "cancel"}
Procs   == Lanes \X Kinds
Publishing == {"request", "response", "fill", "ack", "error", "reject"}
Calling    == {"call", "lookup", "balance", "post"}
Answers == {"fill", "ack", "error", "reject"}

(* How a command fares: refused by a gate or the throttle, filled at once  *)
(* (at a price, or at 0), taken but not (yet) answered or filled, or       *)
(* failed.                                                                 *)
Fates == {"new", "gated", "throttled", "taken", "filled", "unpriced", "open",
          "retryable", "fatal"}

Idle == [pc |-> "idle"]
Work == [pc: Publishing \cup Calling, order: Orders, fate: Fates]

(* Without an append that suspends, what follows the queue's get or the    *)
(* adapter's answer runs on before any other task does.                    *)
MayRun(p) == Suspends \/ \A q \in Procs \ {p} : proc[q].pc \notin Publishing

Go(p, pc, o, fate) ==
    proc' = [proc EXCEPT ![p] = [pc |-> pc, order |-> o, fate |-> fate]]
Step(p, pc, fate) == Go(p, pc, proc[p].order, fate)
Rest(p) == proc' = [proc EXCEPT ![p] = Idle]

Deliver(p, a) == answers' = [answers EXCEPT ![p[1]][proc[p].order] = Append(@, a)]

-----------------------------------------------------------------------------
Init ==
    /\ submitted = {} /\ cancels = 0
    /\ queue = [p \in Procs |-> <<>>]
    /\ proc  = [p \in Procs |-> Idle]
    /\ window = [p \in Procs |-> [c \in ClientIds |-> 0]]
    /\ enabled = FALSE /\ kill = FALSE
    /\ placed  = [r \in Lanes |-> [o \in Orders |-> 0]]
    /\ late    = [r \in Lanes |-> 0]
    /\ answers = [r \in Lanes |-> [o \in Orders |-> <<>>]]

(* A publish puts the command into the queue of every router. *)
Enqueue(k, o) ==
    queue' = [p \in Procs |-> IF p[2] = k THEN Append(queue[p], o) ELSE queue[p]]

(* External: an OMS sends its one submit command for an intent ...         *)
Submit(o) ==
    /\ o \notin submitted
    /\ submitted' = submitted \cup {o}
    /\ Enqueue("submit", o)
    /\ UNCHANGED <<cancels, proc, window, control, venue, answers>>

(* ... and a cancel command whenever the venue reports a cancel of it.     *)
Cancel(o) ==
    /\ cancels < MaxCancels
    /\ \E r \in Live : placed[r][o] > 0
    /\ cancels' = cancels + 1
    /\ Enqueue("cancel", o)
    /\ UNCHANGED <<submitted, proc, window, control, venue, answers>>

(***************************************************************************)
(* ExecutionControl: enable and enable_with_permit, disable,               *)
(* set_kill_switch.                                                        *)
(***************************************************************************)
IsEnabled_FlagOnly == enabled
IsEnabled          == enabled /\ ~kill

Control(e, k) ==
    /\ \A p \in Procs : MayRun(p)
    /\ enabled' = e /\ kill' = k
    /\ late' = [r \in Lanes |-> IF e /\ ~k THEN 0 ELSE late[r]]
    /\ UNCHANGED <<oms, queue, proc, window, placed, answers>>

Enable  == Control(TRUE, kill)
Disable == Control(FALSE, kill)
SetKillSwitch(active) == Control(IF active THEN FALSE ELSE enabled, active)

(***************************************************************************)
(* The throttle, per client id: check_order_throttle and                   *)
(* check_cancel_throttle.  Timestamps grow older than a second one by one. *)
(***************************************************************************)
Throttled_OffByOne(p, c) == window[p][c] > MaxPerSecond
Throttled(p, c) == window[p][c] >= MaxPerSecond
Record(p, c)    == window' = [window EXCEPT ![p][c] = @ + 1]

Expire(p, c) ==
    /\ window[p][c] > 0
    /\ window' = [window EXCEPT ![p][c] = @ - 1]
    /\ UNCHANGED <<oms, queue, proc, control, venue, answers>>

(***************************************************************************)
(* The submit task: _handle_submit_command.                                *)
(***************************************************************************)
Take(p) ==
    /\ proc[p].pc = "idle" /\ MayRun(p)
    /\ queue[p] # <<>>
    /\ queue' = [queue EXCEPT ![p] = Tail(@)]
    /\ UNCHANGED <<oms, control, venue, answers>>

(* The gates: execution disabled, or a strategy not active for live        *)
(* trading.  They are passed before the first publish and not again.       *)
Refuses(r, o) ==
    \/ r \in Controlled /\ ~IsEnabled
    \/ r \in StrategyChecked /\ o.client \notin Active

TakeSubmit(r) ==
    LET p == <<r, "submit">>
        o == Head(queue[p])
    IN /\ Take(p)
       /\ \/ Refuses(r, o)  /\ Go(p, "reject", o, "gated")
          \/ ~Refuses(r, o) /\ Go(p, "request", o, "new")
       /\ UNCHANGED window

(* A throttled submission raises ValueError in the tactics: an error event *)
(* is published and the handler returns.                                   *)
Throttle_Silently(p) == Rest(p)
Throttle(p)          == Step(p, "error", "throttled")

(* After the publish of ExecutionRequestEvent: tactics, then the adapter.  *)
CallVenue(r) ==
    LET p == <<r, "submit">>
        c == proc[p].order.client
    IN /\ proc[p].pc = "request"
       /\ \/ Throttled(p, c) /\ Throttle(p) /\ UNCHANGED window
          \/ /\ ~Throttled(p, c) /\ Record(p, c)
             /\ Step(p, IF r \in Live THEN "lookup" ELSE "call", "new")
       /\ UNCHANGED <<oms, queue, control, venue, answers>>

(* The venue of lane r takes n orders for o, or none. *)
VenueGets(r, o, n) ==
    /\ placed' = [placed EXCEPT ![r][o] = @ + n]
    /\ late' = [late EXCEPT ![r] = IF enabled /\ ~kill THEN @ ELSE @ + n]

(* PaperExecutionAdapter.submit_order returns or raises: a simulated       *)
(* rejection, an order that stays pending, or a fill.                      *)
Answer(r, pc, fate, n) ==
    LET p == <<r, "submit">> IN
    /\ proc[p].pc = "call" /\ MayRun(p)
    /\ Step(p, pc, fate)
    /\ VenueGets(r, proc[p].order, n)
    /\ UNCHANGED <<oms, queue, window, control, answers>>

PaperAnswers(r) ==
    \/ Answer(r, "error", "fatal", 0)
    \/ Answer(r, "response", "open", 1)
    \/ Answer(r, "response", "filled", 1)
    \/ ZeroPrices /\ Answer(r, "response", "unpriced", 1)

(* ClobVenueAdapter.submit_order awaits three threads: the market lookup,  *)
(* for a BUY the balance, and post_order.  What the first two raise (the   *)
(* market is unknown, the balance too low) is no VenueError, hence fatal.  *)
Awaited(r, pc, next) ==
    LET p == <<r, "submit">> IN
    /\ proc[p].pc = pc /\ MayRun(p)
    /\ \E n \in next : Step(p, n[1], n[2])
    /\ UNCHANGED <<oms, queue, window, control, venue, answers>>

LookUp(r) ==
    Awaited(r, "lookup", {<<"balance", "new">>, <<"post", "new">>, <<"error", "fatal">>})
CheckBalance(r) == Awaited(r, "balance", {<<"post", "new">>, <<"error", "fatal">>})

(* External: the venue takes the order at some moment of that thread ...   *)
VenueTakes(r) ==
    LET p == <<r, "submit">> IN
    /\ proc[p].pc = "post" /\ proc[p].fate = "new"
    /\ Step(p, "post", "taken")
    /\ VenueGets(r, proc[p].order, 1)
    /\ UNCHANGED <<oms, queue, window, control, answers>>

(* ... and says so (Polymarket has no status FILLED), or the answer is     *)
(* lost, a timeout, classified as retryable; or it refuses the order, with *)
(* an error of either class.                                               *)
LiveAnswers(r) ==
    LET p == <<r, "submit">> IN
    /\ proc[p].pc = "post"
    /\ Awaited(r, "post",
               IF proc[p].fate = "taken"
                 THEN {<<"response", "open">>, <<"error", "retryable">>}
                 ELSE {<<"error", "fatal">>, <<"error", "retryable">>})

LiveCall(r) == LookUp(r) \/ CheckBalance(r) \/ VenueTakes(r) \/ LiveAnswers(r)

(* The publish of `pc` has returned: a is out (if subscribers to what the  *)
(* model tracks have it), and the handler goes on.                         *)
Published(p, pc) ==
    /\ proc[p].pc = pc
    /\ UNCHANGED <<oms, window, control, venue>>

(* After ExecutionResponseEvent: a FILLED response is a fill of the whole  *)
(* order, but FillEvent validates its price (> 0) and raises into the      *)
(* handler's own `except Exception`; anything else is an ack.              *)
AfterResponse(p) ==
    \/ proc[p].fate = "filled"   /\ Step(p, "fill", "filled")
    \/ proc[p].fate = "unpriced" /\ Step(p, "error", "fatal")
    \/ proc[p].fate = "open"     /\ Step(p, "ack", "open")

ResponseOut(r) == LET p == <<r, "submit">> IN
    Published(p, "response") /\ AfterResponse(p) /\ UNCHANGED <<queue, answers>>

FillOut(r) == LET p == <<r, "submit">> IN
    /\ Published(p, "fill") /\ Deliver(p, "fill")
    /\ Step(p, "ack", "filled") /\ UNCHANGED queue

AckOut(r) == LET p == <<r, "submit">> IN
    Published(p, "ack") /\ Deliver(p, "ack") /\ Rest(p) /\ UNCHANGED queue

(* After ExecutionErrorEvent: only what is classified as fatal is reported *)
(* as a reject.  Nothing is tried again.                                   *)
AfterError_AlwaysReject(p) == Step(p, "reject", proc[p].fate) /\ UNCHANGED queue
AfterError_Requeue(p) ==
    IF proc[p].fate = "retryable"
      THEN Rest(p) /\ queue' = [queue EXCEPT ![p] = Append(@, proc[p].order)]
      ELSE Step(p, "reject", proc[p].fate) /\ UNCHANGED queue
AfterError(p) ==
    /\ IF proc[p].fate = "fatal" THEN Step(p, "reject", "fatal") ELSE Rest(p)
    /\ UNCHANGED queue

ErrorOut(r) == LET p == <<r, "submit">> IN
    Published(p, "error") /\ Deliver(p, "error") /\ AfterError(p)

RejectOut(r) == LET p == <<r, "submit">> IN
    Published(p, "reject") /\ Deliver(p, "reject") /\ Rest(p) /\ UNCHANGED queue

(***************************************************************************)
(* The cancel task: _handle_cancel_command.  No gate; errors are published *)
(* and end there.  The paper adapter grants every cancel; the live one     *)
(* raises NotImplementedError.                                             *)
(***************************************************************************)
TakeCancel(r) ==
    LET p == <<r, "cancel">>
        o == Head(queue[p])
    IN /\ Take(p)
       /\ \/ /\ Throttled(p, o.client)
             /\ Go(p, "error", o, "throttled") /\ UNCHANGED window
          \/ /\ ~Throttled(p, o.client)
             /\ Go(p, "request", o, "new") /\ Record(p, o.client)

CancelStep(r) ==
    LET p == <<r, "cancel">> IN
    /\ \/ proc[p].pc = "request" /\ Step(p, "call", "new")
       \/ /\ proc[p].pc = "call" /\ MayRun(p)
          /\ IF r \in Live THEN Step(p, "error", "fatal") ELSE Step(p, "response", "open")
       \/ proc[p].pc \in {"response", "error"} /\ Rest(p)
    /\ UNCHANGED <<oms, queue, window, control, venue, answers>>

-----------------------------------------------------------------------------
SubmitTask(r) ==
    \/ TakeSubmit(r) \/ CallVenue(r) \/ PaperAnswers(r)
    \/ ResponseOut(r) \/ FillOut(r) \/ AckOut(r) \/ ErrorOut(r) \/ RejectOut(r)
CancelTask(r) == TakeCancel(r) \/ CancelStep(r)

Next ==
    \/ \E o \in Orders : Submit(o) \/ Cancel(o)
    \/ Enable \/ Disable \/ \E b \in BOOLEAN : SetKillSwitch(b)
    \/ \E p \in Procs : \E c \in ClientIds : Expire(p, c)
    \/ \E r \in Lanes : SubmitTask(r) \/ LiveCall(r) \/ CancelTask(r)

Spec == Init /\ [][Next]_vars

(* asyncio runs ready tasks, appends return, and the paper adapter's sleep *)
(* ends.  The venue owes no answer: a live call may never return.          *)
Fairness == \A r \in Lanes : WF_vars(SubmitTask(r)) /\ WF_vars(CancelTask(r))
FairSpec == Spec /\ Fairness

-----------------------------------------------------------------------------
(* Properties *)

(* Types. *)
TypeOK ==
    /\ submitted \subseteq Orders /\ cancels \in 0..MaxCancels
    /\ queue \in [Procs -> Seq(Orders)]
    /\ proc \in [Procs -> {Idle} \cup Work]
    /\ window \in [Procs -> [ClientIds -> 0..MaxPerSecond]]
    /\ enabled \in BOOLEAN /\ kill \in BOOLEAN
    /\ placed \in [Lanes -> [Orders -> Nat]] /\ late \in [Lanes -> Nat]
    /\ answers \in [Lanes -> [Orders -> Seq(Answers)]]

(* No venue is given an order twice, although a call whose answer was lost *)
(* looks like one that never arrived (flows.mdc, section 7: "duplicate     *)
(* submits (idempotent)").                                                 *)
PlacedOnce == \A r \in Lanes : \A o \in Orders : placed[r][o] <= 1

(* What a router publishes about an order, to positions, sinks and OMS: at *)
(* most one verdict, never an ack and a reject, a fill before the ack and  *)
(* never with a reject.                                                    *)
Conversations ==
    { <<>>, <<"fill">>, <<"fill", "ack">>, <<"ack">>,
      <<"error">>, <<"error", "reject">>, <<"reject">> }
AnswerProtocol ==
    \A r \in Lanes : \A o \in Orders : answers[r][o] \in Conversations

(* What it publishes is true: an acked or filled order was taken by the    *)
(* lane's venue, an order the live router rejects was not (events/types.py *)
(* :441: "Event emitted when venue rejects an order"), although an answer  *)
(* may be lost after the order was taken.                                  *)
Says(r, o, a) == \E i \in 1..Len(answers[r][o]) : answers[r][o][i] = a
TruthfulAnswers ==
    \A r \in Lanes : \A o \in Orders :
        /\ Says(r, o, "ack") \/ Says(r, o, "fill") => placed[r][o] > 0
        /\ r \in Live /\ Says(r, o, "reject") => placed[r][o] = 0

(* Once execution is disabled or the kill switch is on, a venue takes at   *)
(* most one more order from a router, the one that was past the gate,      *)
(* however many commands are waiting, wherever the adapter is and whoever  *)
(* enables one of the two flags again (flows.mdc, section 13: "immediate   *)
(* stop-trading").                                                         *)
DisabledLetsOneThrough == \A r \in Controlled : late[r] <= 1

(* Every submit command is answered by the paper lane's router: acked,     *)
(* rejected, or at least reported as an error.                             *)
CommandsAnswered ==
    \A r \in Lanes \ Live : \A o \in Orders :
        o \in submitted ~> Says(r, o, "ack") \/ Says(r, o, "reject") \/ Says(r, o, "error")

-----------------------------------------------------------------------------
(* What the documents say of Execution and the code does not keep. *)

(* flows.mdc, section 13: "immediate stop-trading".  While execution is    *)
(* disabled or the kill switch is on, no venue takes an order.             *)
StopsWhenDisabled ==
    [][\A r \in Controlled : \A o \in Orders :
          placed'[r][o] > placed[r][o] => enabled /\ ~kill]_vars

(* A rejected order was not taken by the paper adapter either.  Holds if   *)
(* no fill is priced 0.                                                    *)
RejectsAreTrue ==
    \A r \in Lanes : \A o \in Orders : Says(r, o, "reject") => placed[r][o] = 0

(* router.py:190: the "backstop" behind the risk check: no order of an     *)
(* inactive strategy reaches a live venue.  Holds if live routers are      *)
(* built with is_paper_mode = False; execution/__init__.py:54 builds them  *)
(* with the default, TRUE.                                                 *)
InactiveNotPlaced ==
    \A r \in Live : \A o \in Orders : placed[r][o] > 0 => o.client \in Active

(* router.py:155: "Normalize venue response for OMS (emit venue            *)
(* ack/reject)": an adapter call that returned is concluded by a verdict.  *)
Verdict(r, o) == Says(r, o, "ack") \/ Says(r, o, "reject")
CallsConcluded ==
    \A r \in Lanes : \A o \in Orders :
        proc[<<r, "submit">>].pc \in {"response", "error"} /\ proc[<<r, "submit">>].order = o
           ~> Verdict(r, o)

(* execution/adapter.py: client_order_id is the idempotency key of a       *)
(* submission.  No venue is given two orders of one client id.  Holds with *)
(* one lane.                                                               *)
ClientPlacedOnce ==
    \A r \in Lanes : \A o, q \in Orders :
        o.client = q.client /\ placed[r][o] > 0 /\ placed[r][q] > 0 => o = q
=============================================================================
