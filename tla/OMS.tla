-------------------------------- MODULE OMS ---------------------------------
(***************************************************************************)
(* The order management system: OMSCore (oms/core.py), the in-memory order *)
(* store it owns (oms/store.py) and its idempotency store                  *)
(* (oms/idempotency.py), fed by approved proposals on one side and by the  *)
(* canonical messages of the venue's user stream on the other.             *)
(*                                                                         *)
(* OMSCore.run starts five asyncio tasks, one per queue.  A task only      *)
(* gives up the event loop inside `await bus.publish(event)`, while the    *)
(* bus's event store appends the event: a handler is therefore a chain of  *)
(* atomic steps cut at the publishes of events.  A publish of a command    *)
(* does not suspend (a command is no Event, and a put on an unbounded      *)
(* queue never waits), which is why PENDING_SUBMIT is never seen by        *)
(* another task.  A suspended task remembers the event it is publishing.   *)
(***************************************************************************)
EXTENDS OrderFSM, Sequences, FiniteSets

CONSTANTS
    ClientIds,      \* client_order_ids: what the approved intents hash to
    OrderIds,       \* order_ids (uuids) that create_order may draw
    NoOrder,        \* "no such order" (None)
    Size,           \* the size of every order, in units of the smallest fill
    Suspends,       \* TRUE iff the bus's event store suspends in append()
    EchoesClientId, \* TRUE iff venue messages carry the client_order_id
    MaxApprovals,   \* bound: approved proposals published
    MaxRedeliveries \* bound: venue messages the user stream delivers again

ASSUME SizeAssumption      == Size \in Nat \ {0}
ASSUME NoOrderAssumption   == NoOrder \notin OrderIds
ASSUME FlagsAssumption     == Suspends \in BOOLEAN /\ EchoesClientId \in BOOLEAN
ASSUME BoundsAssumption    == MaxApprovals \in Nat /\ MaxRedeliveries \in Nat

VARIABLES
    proposals,  \* APPROVED_PROPOSALS queue of OMSCore: a sequence of client ids
    approvals,  \* how many proposals Risk has approved so far
    orders,     \* store._orders: order id -> [client, state, filled, venue]
    clientMap,  \* store._client_order_ids: client id -> order id or NoOrder
    venueMap,   \* store._venue_order_ids: venue id -> order id or NoOrder
    idem,       \* IdempotencyStore._mappings: client id -> order id or NoOrder
    submitCmds, \* SUBMIT_ORDER_COMMANDS published: a sequence of client ids
    cancelCmds, \* CANCEL_ORDER_COMMANDS published: a sequence of order ids
    log,        \* OMS events in the order of their ts_mono (their creation)
    inbox,      \* the four user stream queues of OMSCore
    task,       \* where each of the five tasks of OMSCore is suspended
    venue,      \* external: what the venue did with the order of a client id
    sent,       \* external: canonical messages the user stream has published
    redelivered \* external: how many of them it has published again

storeVars  == <<orders, clientMap, venueMap>>
cmdVars    == <<submitCmds, cancelCmds>>
venueVars  == <<venue, sent, redelivered>>
riskVars   == <<proposals, approvals>>
vars == <<proposals, approvals, orders, clientMap, venueMap, idem, submitCmds,
          cancelCmds, log, inbox, task, venue, sent, redelivered>>

-----------------------------------------------------------------------------
(* Data. The venue gives an order one venue_order_id; the model names it   *)
(* by the client id the order was submitted with, so a venue id is a       *)
(* client id and order.venue is a Boolean: has the OMS learnt it?          *)

Topics == {"acks", "rejects", "fills", "cancels"}
Tasks  == Topics \cup {"proposals"}

Order == [client: ClientIds, state: OrderStates, filled: Nat, venue: BOOLEAN]

Message == [client: ClientIds, size: 0..Size]

EventTypes == {"Created", "Submitted", "Ack", "Rejected", "Fill",
               "CancelRequested", "Canceled"}
Event == [type: EventTypes, order: OrderIds, client: ClientIds, size: 0..Size]

(* The points at which a task waits: in its queue's get ("idle"), in the   *)
(* publish of the event named, or not at all any more ("dead").            *)
PCs == {"idle", "dead"} \cup EventTypes
Idle == [pc |-> "idle", at |-> 0]
Dead == [pc |-> "dead", at |-> 0]

VenueStates == {"none", "open", "rejected", "closed"}

(* An event names its order and what a rebuild needs to know of it: the    *)
(* client_order_id (Created, Submitted) or the venue_order_id (Ack), which *)
(* are the same value here, and the size of a fill.                        *)
Ev(type, o, c, n) == [type |-> type, order |-> o, client |-> c, size |-> n]
Msg(c, n)         == [client |-> c, size |-> n]

(* InMemoryOrderStore.get_order_by_client_id and _by_venue_id, as the      *)
(* canonical handlers use them: by client id if the message has one, else  *)
(* by venue id.  A reject has no venue id to fall back on.                 *)
Lookup(topic, m) ==
    IF EchoesClientId /\ clientMap[m.client] # NoOrder
      THEN clientMap[m.client]
      ELSE IF topic = "rejects" THEN NoOrder ELSE venueMap[m.client]

(* The event the suspended task t is publishing. *)
Pending(t) == log[task[t].at]

(* Without an append that suspends, a handler runs to its end before any   *)
(* other task is scheduled.                                                *)
MayRun(t) == Suspends \/ \A u \in Tasks \ {t} : task[u].pc \in {"idle", "dead"}

(* `await bus.publish(event)` begins: the event has its ts_mono, the task  *)
(* is suspended in the append.                                             *)
(* Mutant: the handler does not go on after the publish.                   *)
Publish_Abandoned(t, e) == log' = Append(log, e) /\ UNCHANGED task

Publish(t, e) ==
    /\ log' = Append(log, e)
    /\ task' = [task EXCEPT ![t] = [pc |-> e.type, at |-> Len(log) + 1]]

Resume(t) == task' = [task EXCEPT ![t] = Idle]

SetState(o, s) == orders' = [orders EXCEPT ![o].state = s]

-----------------------------------------------------------------------------
Init ==
    /\ proposals = <<>> /\ approvals = 0
    /\ orders = <<>>
    /\ clientMap = [c \in ClientIds |-> NoOrder]
    /\ venueMap  = [c \in ClientIds |-> NoOrder]
    /\ idem      = [c \in ClientIds |-> NoOrder]
    /\ submitCmds = <<>> /\ cancelCmds = <<>>
    /\ log = <<>>
    /\ inbox = [t \in Topics |-> <<>>]
    /\ task  = [t \in Tasks |-> Idle]
    /\ venue = [c \in ClientIds |-> [st |-> "none", matched |-> 0]]
    /\ sent  = [t \in Topics |-> {}]
    /\ redelivered = 0

(***************************************************************************)
(* The proposals task: create_order.                                       *)
(***************************************************************************)

(* Risk publishes an approved proposal.  The same intent may be approved   *)
(* twice: nothing upstream of the OMS removes duplicates.                  *)
Approve(c) ==
    /\ approvals < MaxApprovals
    /\ approvals' = approvals + 1
    /\ proposals' = Append(proposals, c)
    /\ UNCHANGED <<storeVars, idem, cmdVars, log, inbox, task, venueVars>>

(* IdempotencyStore.get_order_id finds an order: the intent is known. *)
IsDuplicate_Never(c)    == FALSE
IsDuplicate(c)          == idem[c] # NoOrder

(* IdempotencyStore.record_order. *)
RecordOrder_Swapped(c, o) == idem' = [idem EXCEPT ![c] = c]
RecordOrder(c, o)         == idem' = [idem EXCEPT ![c] = o]

(* create_order up to the publish of OrderCreatedEvent: the idempotency    *)
(* store is asked, the order enters the store in state NEW.                *)
CreateOrder ==
    /\ task["proposals"].pc = "idle" /\ MayRun("proposals")
    /\ proposals # <<>>
    /\ proposals' = Tail(proposals)
    /\ LET c == Head(proposals) IN
       \/ /\ IsDuplicate(c)                  \* the existing order is returned
          /\ UNCHANGED <<storeVars, log, task>>
       \/ /\ ~IsDuplicate(c)
          /\ \E o \in OrderIds \ DOMAIN orders :
                /\ orders' = [x \in DOMAIN orders \cup {o} |->
                                IF x = o THEN [client |-> c, state |-> "NEW",
                                               filled |-> 0, venue |-> FALSE]
                                         ELSE orders[x]]
                /\ clientMap' = [clientMap EXCEPT ![c] = o]
                /\ Publish("proposals", Ev("Created", o, c, 0))
          /\ UNCHANGED venueMap
    /\ UNCHANGED <<approvals, idem, cmdVars, inbox, venueVars>>

(* create_order between the publishes of OrderCreatedEvent and of          *)
(* OrderSubmittedEvent: the idempotency key is recorded, the order goes    *)
(* through PENDING_SUBMIT, the submit command is sent, the order is        *)
(* SUBMITTED.  update_order lets the two transitions through: no venue     *)
(* message can have reached the order before its command was sent.         *)
SendSubmit ==
    /\ task["proposals"].pc = "Created"
    /\ LET o == Pending("proposals").order
           c == orders[o].client
       IN /\ RecordOrder(c, o)
          /\ submitCmds' = Append(submitCmds, c)
          /\ SetState(o, "SUBMITTED")
          /\ Publish("proposals", Ev("Submitted", o, c, 0))
    /\ UNCHANGED <<riskVars, clientMap, venueMap, cancelCmds, inbox, venueVars>>

(* create_order after the publish of OrderSubmittedEvent:                  *)
(* store.handle_order_submitted.  It raises unless the order is still      *)
(* SUBMITTED, and nothing in run() catches it: the loop ends and its       *)
(* `finally` cancels the four user stream tasks as well.                   *)
ConfirmSubmitted ==
    /\ task["proposals"].pc = "Submitted"
    /\ IF Transitions(orders[Pending("proposals").order].state, "SUBMITTED")
         THEN Resume("proposals")
         ELSE task' = [t \in Tasks |-> Dead]
    /\ UNCHANGED <<riskVars, storeVars, idem, cmdVars, log, inbox, venueVars>>

(***************************************************************************)
(* The user stream tasks.  Receive(t) is the handler up to its first       *)
(* publish.  What a handler raises is caught and logged: the message is    *)
(* consumed without effect.                                                *)
(***************************************************************************)
Receive(t) ==
    /\ task[t].pc = "idle" /\ MayRun(t)
    /\ inbox[t] # <<>>
    /\ inbox' = [inbox EXCEPT ![t] = Tail(@)]
    /\ UNCHANGED <<riskVars, idem, cmdVars, clientMap, venueVars>>

(* The order cannot be found, or the handler refuses the message.          *)
Drop == UNCHANGED <<orders, venueMap, log, task>>

(* The order is ACKED under the venue's id c and found by it from now on   *)
(* (update_order and handle_order_ack of the store).                       *)
IndexVenueId_Forgotten(c, o) == UNCHANGED venueMap
IndexVenueId(c, o)           == venueMap' = [venueMap EXCEPT ![c] = o]

Acked(c, o) ==
    /\ orders' = [orders EXCEPT ![o].state = "ACKED", ![o].venue = TRUE]
    /\ IndexVenueId(c, o)

(* _handle_canonical_ack, handle_venue_ack: the order is ACKED and the     *)
(* venue id known before OrderAckEvent is published.                       *)
ReceiveAck ==
    /\ Receive("acks")
    /\ LET m == Head(inbox["acks"])
           o == Lookup("acks", m)
       IN IF o # NoOrder /\ Transitions(orders[o].state, "ACKED")
            THEN /\ Acked(m.client, o)
                 /\ Publish("acks", Ev("Ack", o, m.client, 0))
            ELSE Drop

(* ... and after it: store.handle_order_ack, which raises if a fill, a     *)
(* reject or a cancel was applied in between.                              *)
ApplyAck ==
    /\ task["acks"].pc = "Ack"
    /\ LET e == Pending("acks") IN
       IF Transitions(orders[e.order].state, "ACKED")
         THEN Acked(e.client, e.order)
         ELSE UNCHANGED <<orders, venueMap>>
    /\ Resume("acks")
    /\ UNCHANGED <<riskVars, clientMap, idem, cmdVars, log, inbox, venueVars>>

(* _handle_canonical_reject, handle_venue_reject: OrderRejectedEvent is    *)
(* published whatever state the order is in.                               *)
ReceiveReject ==
    /\ Receive("rejects")
    /\ LET o == Lookup("rejects", Head(inbox["rejects"])) IN
       IF o # NoOrder
         THEN /\ Publish("rejects", Ev("Rejected", o, orders[o].client, 0))
              /\ UNCHANGED <<orders, venueMap>>
         ELSE Drop

(* store.handle_order_rejected: through the states before SUBMITTED if     *)
(* need be, then REJECTED; raises from ACKED and what follows it.          *)
Rejectable(st) == st \in {"NEW", "PENDING_SUBMIT", "SUBMITTED", "REJECTED"}

ApplyReject ==
    /\ task["rejects"].pc = "Rejected"
    /\ LET o == Pending("rejects").order IN
       IF Rejectable(orders[o].state) THEN SetState(o, "REJECTED") ELSE UNCHANGED orders
    /\ Resume("rejects")
    /\ UNCHANGED <<riskVars, clientMap, venueMap, idem, cmdVars, log, inbox, venueVars>>

(* _handle_canonical_fill, handle_fill: refused if it exceeds the order,   *)
(* else FillEvent is published, to the position manager too.               *)
FillFits_ThisFillOnly(o, n) == n <= Size
FillFits(o, n)              == orders[o].filled + n <= Size

ReceiveFill ==
    /\ Receive("fills")
    /\ LET m == Head(inbox["fills"])
           o == Lookup("fills", m)
       IN IF o # NoOrder /\ FillFits(o, m.size)
            THEN /\ Publish("fills", Ev("Fill", o, orders[o].client, m.size))
                 /\ UNCHANGED <<orders, venueMap>>
            ELSE Drop

(* store.handle_fill: what is filled after a fill of n units, and the      *)
(* state it leaves the order in unless that transition raises.             *)
FilledAfter(ord, n)       == ord.filled + n

StateAfterFill_Strict(ord, n) ==
    IF ord.filled + n > Size      THEN "FILLED"
    ELSE IF ord.state = "ACKED"   THEN "PARTIALLY_FILLED"
    ELSE ord.state
StateAfterFill(ord, n) ==
    IF FilledAfter(ord, n) >= Size THEN "FILLED"
    ELSE IF ord.state = "ACKED"   THEN "PARTIALLY_FILLED"
    ELSE ord.state

ApplyFill ==
    /\ task["fills"].pc = "Fill"
    /\ LET o == Pending("fills").order
           n == Pending("fills").size
           s == StateAfterFill(orders[o], n)
       IN IF Transitions(orders[o].state, s)
            THEN orders' = [orders EXCEPT ![o].state = s,
                                          ![o].filled = FilledAfter(orders[o], n)]
            ELSE UNCHANGED orders
    /\ Resume("fills")
    /\ UNCHANGED <<riskVars, clientMap, venueMap, idem, cmdVars, log, inbox, venueVars>>

(* _handle_canonical_cancel, handle_cancel: refused if the order is        *)
(* terminal, else CancelRequestedEvent is published, ...                   *)
ReceiveCancel ==
    /\ Receive("cancels")
    /\ LET o == Lookup("cancels", Head(inbox["cancels"])) IN
       IF o # NoOrder /\ orders[o].state \notin TerminalStates
         THEN /\ Publish("cancels", Ev("CancelRequested", o, orders[o].client, 0))
              /\ UNCHANGED <<orders, venueMap>>
         ELSE Drop

(* ... a cancel command sent to Execution (for a cancel that the venue     *)
(* reports, too) and OrderCanceledEvent published, ...                     *)
SendCancel ==
    /\ task["cancels"].pc = "CancelRequested"
    /\ LET o == Pending("cancels").order
       IN /\ cancelCmds' = Append(cancelCmds, o)
          /\ Publish("cancels", Ev("Canceled", o, orders[o].client, 0))
    /\ UNCHANGED <<riskVars, storeVars, idem, submitCmds, inbox, venueVars>>

(* ... and at last store.handle_order_canceled, which raises from          *)
(* SUBMITTED, FILLED and REJECTED.                                         *)
ApplyCancel ==
    /\ task["cancels"].pc = "Canceled"
    /\ LET o == Pending("cancels").order IN
       IF Transitions(orders[o].state, "CANCELLED")
         THEN SetState(o, "CANCELLED") ELSE UNCHANGED orders
    /\ Resume("cancels")
    /\ UNCHANGED <<riskVars, clientMap, venueMap, idem, cmdVars, log, inbox, venueVars>>

(***************************************************************************)
(* External: Execution takes a submit command to the venue, and the user   *)
(* stream brings back what becomes of the order.  The venue never fills    *)
(* more than was ordered; the stream has one queue per kind of message and *)
(* may deliver a message again after a reconnect.                          *)
(***************************************************************************)
Submitted(c) == \E i \in 1..Len(submitCmds) : submitCmds[i] = c

Deliver(t, m) ==
    /\ inbox' = [inbox EXCEPT ![t] = Append(@, m)]
    /\ sent'  = [sent EXCEPT ![t] = @ \cup {m}]

VenueStep(c, st, n, t) ==
    /\ venue' = [venue EXCEPT ![c] = [st |-> st, matched |-> @.matched + n]]
    /\ Deliver(t, Msg(c, n))
    /\ UNCHANGED <<riskVars, storeVars, idem, cmdVars, log, task, redelivered>>

VenuePlace(c)  == /\ Submitted(c) /\ venue[c].st = "none"
                  /\ VenueStep(c, "open", 0, "acks")
VenueRefuse(c) == /\ Submitted(c) /\ venue[c].st = "none"
                  /\ VenueStep(c, "rejected", 0, "rejects")
VenueMatch(c, n) ==
    /\ venue[c].st = "open" /\ venue[c].matched + n <= Size
    /\ VenueStep(c, IF venue[c].matched + n = Size THEN "closed" ELSE "open", n, "fills")
VenueCancel(c) == /\ venue[c].st = "open"
                  /\ VenueStep(c, "closed", 0, "cancels")

Redeliver(t, m) ==
    /\ redelivered < MaxRedeliveries
    /\ redelivered' = redelivered + 1
    /\ Deliver(t, m)
    /\ UNCHANGED <<riskVars, storeVars, idem, cmdVars, log, task, venue>>

-----------------------------------------------------------------------------
ProposalsTask == CreateOrder \/ SendSubmit \/ ConfirmSubmitted
AcksTask      == ReceiveAck \/ ApplyAck
RejectsTask   == ReceiveReject \/ ApplyReject
FillsTask     == ReceiveFill \/ ApplyFill
CancelsTask   == ReceiveCancel \/ SendCancel \/ ApplyCancel

System == ProposalsTask \/ AcksTask \/ RejectsTask \/ FillsTask \/ CancelsTask

Environment ==
    \/ \E c \in ClientIds :
          \/ Approve(c) \/ VenuePlace(c) \/ VenueRefuse(c) \/ VenueCancel(c)
          \/ \E n \in 1..Size : VenueMatch(c, n)
    \/ \E t \in Topics : \E m \in sent[t] : Redeliver(t, m)

Next == System \/ Environment
Spec == Init /\ [][Next]_vars

(* asyncio runs every task that is ready: a queue that is not empty or an  *)
(* append that returns wakes its task.  The environment owes nothing.      *)
Fairness == /\ WF_vars(ProposalsTask) /\ WF_vars(AcksTask) /\ WF_vars(RejectsTask)
            /\ WF_vars(FillsTask) /\ WF_vars(CancelsTask)
FairSpec == Spec /\ Fairness

-----------------------------------------------------------------------------
(* Properties *)

(* Types. *)
TypeOK ==
    /\ proposals \in Seq(ClientIds) /\ approvals \in 0..MaxApprovals
    /\ DOMAIN orders \subseteq OrderIds
    /\ orders \in [DOMAIN orders -> Order]
    /\ clientMap \in [ClientIds -> OrderIds \cup {NoOrder}]
    /\ venueMap  \in [ClientIds -> OrderIds \cup {NoOrder}]
    /\ idem      \in [ClientIds -> OrderIds \cup {NoOrder}]
    /\ submitCmds \in Seq(ClientIds) /\ cancelCmds \in Seq(OrderIds)
    /\ log \in Seq(Event)
    /\ inbox \in [Topics -> Seq(Message)]
    /\ task \in [Tasks -> [pc : PCs, at : Nat]]
    /\ venue \in [ClientIds -> [st : VenueStates, matched : 0..Size]]
    /\ sent \in [Topics -> SUBSET Message]
    /\ redelivered \in 0..MaxRedeliveries

(* However often an intent is approved, its client_order_id names one      *)
(* order and one submit command is sent for it, although the key is        *)
(* recorded only after the publish of OrderCreatedEvent (flows.mdc,        *)
(* section 7: "duplicate submits (idempotent)").                           *)
OneOrderPerClientId ==
    /\ \A o, p \in DOMAIN orders : orders[o].client = orders[p].client => o = p
    /\ \A i, j \in 1..Len(submitCmds) : submitCmds[i] = submitCmds[j] => i = j

(* A fill is checked against the order before FillEvent is published and   *)
(* added to it only afterwards, when the order may have changed: still no  *)
(* order is ever filled beyond its size.                                   *)
FilledWithinSize ==
    \A o \in DOMAIN orders : orders[o].filled <= Size

(* An order is FILLED exactly when nothing remains to be filled, whatever  *)
(* order acks, fills, rejects and cancels are applied in.                  *)
FilledIffComplete ==
    \A o \in DOMAIN orders : orders[o].state = "FILLED" <=> orders[o].filled = Size

(* Every order the venue is known to work on can be found by its venue id, *)
(* and by no other: user stream messages that carry only the venue id, and *)
(* reconciliation, depend on it.                                           *)
VenueIdsIndexed ==
    /\ \A c \in ClientIds : venueMap[c] # NoOrder =>
          /\ venueMap[c] \in DOMAIN orders
          /\ orders[venueMap[c]].client = c
    /\ \A o \in DOMAIN orders :
          orders[o].state \in {"ACKED", "PARTIALLY_FILLED", "FILLED", "CANCELLED"}
             => venueMap[orders[o].client] = o

(* A terminal state is final: no handler that was suspended while the      *)
(* order was closed, no stale copy and no late or repeated message brings  *)
(* the order back or moves it to another terminal state.                   *)
TerminalIsFinal ==
    [][\A o \in DOMAIN orders :
          orders[o].state \in TerminalStates => orders'[o].state = orders[o].state]_vars

(* What a user of the OMS may rely on, order by order of the client ids:   *)
(* OrderLifecycle, with the order's life read off the store.               *)
Life(c) ==
    IF clientMap[c] = NoOrder THEN "none"
    ELSE IF orders[clientMap[c]].state \in TerminalStates
           THEN orders[clientMap[c]].state
           ELSE "working"

Done(c) == IF clientMap[c] = NoOrder THEN 0 ELSE orders[clientMap[c]].filled

Lifecycle == INSTANCE OrderLifecycle
                 WITH life <- [c \in ClientIds |-> Life(c)],
                      done <- [c \in ClientIds |-> Done(c)]

(* The OMS implements the lifecycle. *)
ImplementsLifecycle == Lifecycle!Spec

(* Every approved proposal is submitted to Execution.  Holds if no append  *)
(* suspends: see KeepsRunning.                                             *)
ApprovedIsSubmitted ==
    \A c \in ClientIds :
        (\E i \in 1..Len(proposals) : proposals[i] = c) ~> Submitted(c)

-----------------------------------------------------------------------------
(* What the documents say of the OMS.  Each holds under the assumption     *)
(* named with it and fails without it.                                     *)

(* Nothing is on its way to the OMS and no handler is suspended. *)
Quiet == /\ \A t \in Topics : inbox[t] = <<>>
         /\ \A t \in Tasks  : task[t].pc = "idle"

(* oms/core.py:360 "Store handler will update state if needed              *)
(* (idempotent)"; flows.mdc, section 7: the OMS must handle "ordering      *)
(* (user stream can arrive before rest ack)".  No message from the venue   *)
(* ends the OMS.  Holds if no append suspends.                             *)
KeepsRunning == task["proposals"].pc # "dead"

(* adapters/polymarket/user_stream.py:372 "OMS must match by               *)
(* venue_order_id": once the ack of a placed order is consumed, the order  *)
(* has left SUBMITTED.  Holds if the venue echoes the client_order_id,     *)
(* which this venue does not.                                              *)
AckIsMatched ==
    Quiet => \A c \in ClientIds :
                venue[c].st = "open" => orders[clientMap[c]].state # "SUBMITTED"

(* Once every message is consumed, what was delivered is booked: nothing   *)
(* is delivered twice here, so the order holds what the venue matched.     *)
(* flows.mdc, section 10, "must be supported": "out-of-order updates".     *)
MatchedIsBooked ==
    Quiet => \A c \in ClientIds :
                clientMap[c] # NoOrder =>
                    orders[clientMap[c]].filled = venue[c].matched

(* flows.mdc, section 10, "must be supported": "duplicate fills /          *)
(* duplicate acks".  No fill is booked that the venue did not make.  Holds *)
(* as long as no message is delivered twice.                               *)
BookedIsMatched ==
    \A o \in DOMAIN orders : orders[o].filled <= venue[orders[o].client].matched
=============================================================================
