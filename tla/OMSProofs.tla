----------------------------- MODULE OMSProofs ------------------------------
(***************************************************************************)
(* Theorems about OMS and about OMSRecovery, for every set of client ids,  *)
(* order ids and every order size, whether or not the venue echoes the     *)
(* client order id.                                                        *)
(*                                                                         *)
(* The first half is about Spec of OMS, whether or not an append suspends. *)
(* The invariants the runs check are not inductive: each needs to know     *)
(* which orders the five suspended tasks are working on (TasksOK), and     *)
(* that nobody but the proposals task can touch an order whose submit      *)
(* command has not been sent yet (UnsubmittedOK, MessagesOK).              *)
(*                                                                         *)
(* The second half is about OMSRecovery, for any number of restarts and    *)
(* again suspending or not: types and commands, and that a rebuild from    *)
(* the log forgets nothing the store knows.                                *)
(***************************************************************************)
EXTENDS OMSRecovery, SequenceTheorems, FiniteSetTheorems, WellFoundedInduction, TLAPS

(* The events the task t may be publishing. *)
EventsOf(t) == CASE t = "proposals" -> {"Created", "Submitted"}
                 [] t = "acks"      -> {"Ack"}
                 [] t = "rejects"   -> {"Rejected"}
                 [] t = "fills"     -> {"Fill"}
                 [] t = "cancels"   -> {"CancelRequested", "Canceled"}

Publishing(t) == task[t].pc \in EventTypes

(* A suspended task publishes an event of its own kind, about an order in  *)
(* the store.                                                              *)
TasksOK ==
    \A t \in Tasks : Publishing(t) =>
        /\ task[t].pc \in EventsOf(t)
        /\ task[t].at \in 1..Len(log)
        /\ Pending(t).order \in DOMAIN orders
        /\ Pending(t).client = orders[Pending(t).order].client

(* The maps of the store and the idempotency store agree with the orders.  *)
MapsOK ==
    /\ \A c \in ClientIds : clientMap[c] # NoOrder =>
          clientMap[c] \in DOMAIN orders /\ orders[clientMap[c]].client = c
    /\ \A o \in DOMAIN orders : clientMap[orders[o].client] = o
    /\ \A c \in ClientIds : idem[c] # NoOrder => idem[c] = clientMap[c]

(* An order whose key is not recorded yet is the one being created, and    *)
(* untouched.                                                              *)
UnsubmittedOK ==
    /\ \A o \in DOMAIN orders : idem[orders[o].client] = NoOrder =>
          /\ task["proposals"].pc = "Created" /\ Pending("proposals").order = o
          /\ orders[o].state = "NEW" /\ orders[o].filled = 0
    /\ task["proposals"].pc = "Created" => idem[Pending("proposals").client] = NoOrder
    /\ \A t \in Topics : Publishing(t) => idem[Pending(t).client] # NoOrder

(* What the venue and the user stream speak of has been submitted. *)
MessagesOK ==
    /\ \A i \in 1..Len(submitCmds) : idem[submitCmds[i]] # NoOrder
    /\ \A c \in ClientIds : venue[c].st # "none" => idem[c] # NoOrder
    /\ \A t \in Topics : \A m \in sent[t] : idem[m.client] # NoOrder
    /\ \A t \in Topics : \A i \in 1..Len(inbox[t]) : idem[inbox[t][i].client] # NoOrder

CommandsOK ==
    \A i, j \in 1..Len(submitCmds) : submitCmds[i] = submitCmds[j] => i = j

FillsOK ==
    /\ task["fills"].pc = "Fill" =>
          orders[Pending("fills").order].filled + Pending("fills").size <= Size
    /\ FilledWithinSize
    /\ FilledIffComplete

VenueOK ==
    /\ VenueIdsIndexed
    /\ \A o \in DOMAIN orders : orders[o].state # "PENDING_SUBMIT"

(* The parts of the invariant that are about who works on what. *)
WorkOK == TasksOK /\ MapsOK /\ UnsubmittedOK /\ CommandsOK

(* The inductive invariant. *)
IInv == TypeOK /\ WorkOK /\ MessagesOK /\ FillsOK /\ VenueOK

-----------------------------------------------------------------------------
(* Lemmas about the helpers of OMS. *)

(* A publish appends the event, suspends its task in it, and leaves what   *)
(* the other suspended tasks are publishing as it is.                      *)
LEMMA PublishLemma ==
    ASSUME TypeOK, TasksOK, NEW t \in Tasks, NEW e \in Event, Publish(t, e)
    PROVE  /\ log' \in Seq(Event) /\ Len(log') = Len(log) + 1
           /\ task' \in [Tasks -> [pc : PCs, at : Nat]]
           /\ task'[t].pc = e.type /\ task'[t].at = Len(log')
           /\ \A u \in Tasks \ {t} : task'[u] = task[u]
           /\ Pending(t)' = e
           /\ \A u \in Tasks \ {t} : Publishing(u) => Pending(u)' = Pending(u)
<1>1. /\ log \in Seq(Event) /\ task \in [Tasks -> [pc : PCs, at : Nat]]
      /\ log' = Append(log, e)
      /\ task' = [task EXCEPT ![t] = [pc |-> e.type, at |-> Len(log) + 1]]
  BY DEF TypeOK, Publish
<1>2. Len(log) \in Nat /\ e.type \in PCs
  BY <1>1 DEF Event, PCs
<1>3. log' \in Seq(Event) /\ Len(log') = Len(log) + 1
  BY <1>1
<1>4. log'[Len(log) + 1] = e /\ \A i \in 1..Len(log) : log'[i] = log[i]
  BY <1>1
<1>5. task' \in [Tasks -> [pc : PCs, at : Nat]]
  BY <1>1, <1>2
<1>6. task'[t].pc = e.type /\ task'[t].at = Len(log) + 1
  BY <1>1
<1>7. \A u \in Tasks \ {t} : task'[u] = task[u]
  BY <1>1
<1>8. \A u \in Tasks \ {t} : Publishing(u) => Pending(u)' = Pending(u)
  BY <1>4, <1>7 DEF TasksOK, Pending
<1> QED
  BY <1>3, <1>4, <1>5, <1>6, <1>7, <1>8 DEF Pending

(* A handler that ends leaves the other tasks as they are. *)
LEMMA ResumeLemma ==
    ASSUME TypeOK, NEW t \in Tasks, Resume(t), log' = log
    PROVE  /\ task' \in [Tasks -> [pc : PCs, at : Nat]]
           /\ task'[t].pc = "idle"
           /\ \A u \in Tasks \ {t} : task'[u] = task[u]
           /\ \A u \in Tasks \ {t} : Pending(u)' = Pending(u)
<1>1. /\ task \in [Tasks -> [pc : PCs, at : Nat]]
      /\ task' = [task EXCEPT ![t] = [pc |-> "idle", at |-> 0]]
  BY DEF TypeOK, Resume, Idle
<1>2. "idle" \in PCs
  BY DEF PCs
<1> QED
  BY <1>1, <1>2 DEF Pending

(* The order a message is matched to is the one of its client id. *)
LEMMA LookupLemma ==
    ASSUME TypeOK, WorkOK, VenueOK, NEW t \in Topics, NEW m \in Message,
           Lookup(t, m) # NoOrder
    PROVE  Lookup(t, m) \in DOMAIN orders /\ orders[Lookup(t, m)].client = m.client
<1>1. m.client \in ClientIds
  BY DEF Message
<1>2. CASE EchoesClientId /\ clientMap[m.client] # NoOrder
  BY <1>1, <1>2 DEF Lookup, MapsOK, WorkOK
<1>3. CASE ~(EchoesClientId /\ clientMap[m.client] # NoOrder)
  BY <1>1, <1>3 DEF Lookup, VenueOK, VenueIdsIndexed
<1> QED
  BY <1>2, <1>3

(* A message taken from a queue is about a client id that was submitted,   *)
(* and so are those that stay behind.                                      *)
LEMMA ReceiveLemma ==
    ASSUME TypeOK, MessagesOK, NEW t \in Topics, Receive(t)
    PROVE  /\ Head(inbox[t]) \in Message
           /\ idem[Head(inbox[t]).client] # NoOrder
           /\ inbox' \in [Topics -> Seq(Message)]
           /\ MessagesOK'
<1>1. /\ inbox[t] \in Seq(Message) /\ inbox[t] # <<>>
      /\ inbox' = [inbox EXCEPT ![t] = Tail(inbox[t])]
      /\ inbox \in [Topics -> Seq(Message)]
      /\ idem' = idem /\ submitCmds' = submitCmds /\ venue' = venue /\ sent' = sent
  BY DEF Receive, TypeOK, cmdVars, venueVars
<1>2. Len(inbox[t]) \in Nat \ {0} /\ Head(inbox[t]) = inbox[t][1]
  BY <1>1
<1>3. Head(inbox[t]) \in Message
  BY <1>1
<1>4. idem[Head(inbox[t]).client] # NoOrder
  BY <1>1, <1>2 DEF MessagesOK
<1>5. inbox' \in [Topics -> Seq(Message)]
  BY <1>1
<1>6. /\ Len(Tail(inbox[t])) = Len(inbox[t]) - 1
      /\ \A i \in 1..Len(Tail(inbox[t])) : Tail(inbox[t])[i] = inbox[t][i + 1]
  BY <1>1, HeadTailProperties, Zenon
<1>7. \A u \in Topics : \A i \in 1..Len(inbox'[u]) : idem[inbox'[u][i].client] # NoOrder
  <2> SUFFICES ASSUME NEW u \in Topics, NEW i \in 1..Len(inbox'[u])
               PROVE  idem[inbox'[u][i].client] # NoOrder
    OBVIOUS
  <2>1. CASE u = t
    <3>1. inbox'[u] = Tail(inbox[t])
      BY <1>1, <2>1
    <3>2. Len(inbox'[u]) = Len(inbox[t]) - 1 /\ inbox'[u][i] = inbox[t][i + 1]
      BY <1>6, <3>1
    <3>3. i + 1 \in 1..Len(inbox[t])
      BY <1>2, <3>2
    <3> QED
      BY <3>2, <3>3 DEF MessagesOK
  <2>2. CASE u # t
    <3>1. inbox'[u] = inbox[u]
      BY <1>1, <2>2
    <3> QED
      BY <3>1 DEF MessagesOK
  <2> QED
    BY <2>1, <2>2
<1>8. MessagesOK'
  BY <1>1, <1>7 DEF MessagesOK
<1> QED
  BY <1>3, <1>4, <1>5, <1>8

-----------------------------------------------------------------------------
(* What the handlers of the user stream have in common: whatever they do   *)
(* to the order o they work on, they leave its client id, and every other  *)
(* order, alone.                                                           *)
OnlyTouches(o) ==
    /\ DOMAIN orders' = DOMAIN orders
    /\ orders' \in [DOMAIN orders -> Order]
    /\ orders'[o].client = orders[o].client
    /\ \A p \in DOMAIN orders \ {o} : orders'[p] = orders[p]

(* A handler that publishes an event about a submitted order. *)
LEMMA HandlerPublishes ==
    ASSUME TypeOK, WorkOK, NEW t \in Topics, NEW e \in Event,
           e.type \in EventsOf(t), e.order \in DOMAIN orders,
           e.client = orders[e.order].client, idem[e.client] # NoOrder,
           Publish(t, e), OnlyTouches(e.order),
           UNCHANGED <<clientMap, idem, submitCmds>>
    PROVE  WorkOK'
<1> USE DEF WorkOK
<1>1. t \in Tasks /\ t # "proposals"
  BY DEF Tasks, Topics
<1>2. /\ Len(log) \in Nat /\ Len(log') = Len(log) + 1
      /\ task' \in [Tasks -> [pc : PCs, at : Nat]]
      /\ task'[t].pc = e.type /\ task'[t].at = Len(log')
      /\ \A u \in Tasks \ {t} : task'[u] = task[u]
      /\ Pending(t)' = e
      /\ \A u \in Tasks \ {t} : Publishing(u) => Pending(u)' = Pending(u)
  BY <1>1, PublishLemma DEF TypeOK
<1>3. \A o \in DOMAIN orders : orders'[o].client = orders[o].client
  BY DEF OnlyTouches
<1>4. TasksOK'
  <2> SUFFICES ASSUME NEW u \in Tasks, Publishing(u)'
               PROVE  /\ task'[u].pc \in EventsOf(u)
                      /\ task'[u].at \in 1..Len(log')
                      /\ Pending(u)'.order \in DOMAIN orders'
                      /\ Pending(u)'.client = orders'[Pending(u)'.order].client
    BY DEF TasksOK
  <2>1. CASE u = t
    BY <2>1, <1>2, <1>3 DEF OnlyTouches
  <2>2. CASE u # t
    BY <2>2, <1>2, <1>3 DEF OnlyTouches, TasksOK, Publishing
  <2> QED
    BY <2>1, <2>2
<1>5. MapsOK'
  BY <1>3 DEF MapsOK, OnlyTouches
<1>6. UnsubmittedOK'
  <2>1. /\ task'["proposals"] = task["proposals"]
        /\ Publishing("proposals") => Pending("proposals")' = Pending("proposals")
    BY <1>1, <1>2 DEF Tasks
  <2>2. task["proposals"].pc = "Created" => Publishing("proposals")
    BY DEF Publishing, EventTypes
  <2>3. ASSUME NEW o \in DOMAIN orders', idem'[orders'[o].client] = NoOrder
        PROVE  /\ task'["proposals"].pc = "Created" /\ Pending("proposals")'.order = o
               /\ orders'[o].state = "NEW" /\ orders'[o].filled = 0
    <3>1. o # e.order /\ orders'[o] = orders[o]
      BY <1>3, <2>3 DEF OnlyTouches
    <3> QED
      BY <2>1, <2>2, <2>3, <3>1 DEF UnsubmittedOK, OnlyTouches
  <2>4. task'["proposals"].pc = "Created" => idem'[Pending("proposals")'.client] = NoOrder
    BY <2>1, <2>2 DEF UnsubmittedOK
  <2>5. \A u \in Topics : Publishing(u)' => idem'[Pending(u)'.client] # NoOrder
    BY <1>2 DEF UnsubmittedOK, Tasks, Publishing
  <2> QED
    BY <2>3, <2>4, <2>5 DEF UnsubmittedOK
<1>7. CommandsOK'
  BY DEF CommandsOK
<1> QED
  BY <1>4, <1>5, <1>6, <1>7

(* A handler that ends, having changed the order it was working on. *)
LEMMA HandlerEnds ==
    ASSUME TypeOK, WorkOK, NEW t \in Topics, Publishing(t), Resume(t),
           OnlyTouches(Pending(t).order),
           UNCHANGED <<clientMap, idem, submitCmds, log>>
    PROVE  WorkOK'
<1> USE DEF WorkOK
<1>1. t \in Tasks /\ t # "proposals"
  BY DEF Tasks, Topics
<1>2. /\ task'[t].pc = "idle" /\ ~Publishing(t)'
      /\ \A u \in Tasks \ {t} : task'[u] = task[u] /\ Pending(u)' = Pending(u)
  BY <1>1, ResumeLemma DEF Publishing, EventTypes
<1>3. \A o \in DOMAIN orders : orders'[o].client = orders[o].client
  BY DEF OnlyTouches
<1>4. TasksOK'
  BY <1>2, <1>3 DEF TasksOK, OnlyTouches, Publishing
<1>5. MapsOK'
  BY <1>3 DEF MapsOK, OnlyTouches
<1>6. UnsubmittedOK'
  <2>1. /\ task'["proposals"] = task["proposals"]
        /\ Pending("proposals")' = Pending("proposals")
    BY <1>1, <1>2 DEF Tasks
  <2>2. idem[orders[Pending(t).order].client] # NoOrder
    BY <1>1 DEF UnsubmittedOK, TasksOK
  <2>3. ASSUME NEW o \in DOMAIN orders', idem'[orders'[o].client] = NoOrder
        PROVE  /\ task'["proposals"].pc = "Created" /\ Pending("proposals")'.order = o
               /\ orders'[o].state = "NEW" /\ orders'[o].filled = 0
    <3>1. o # Pending(t).order /\ orders'[o] = orders[o]
      BY <1>3, <2>2, <2>3 DEF OnlyTouches
    <3> QED
      BY <2>1, <2>3, <3>1 DEF UnsubmittedOK, OnlyTouches
  <2>4. task'["proposals"].pc = "Created" => idem'[Pending("proposals")'.client] = NoOrder
    BY <2>1 DEF UnsubmittedOK
  <2>5. \A u \in Topics : Publishing(u)' => idem'[Pending(u)'.client] # NoOrder
    BY <1>2 DEF UnsubmittedOK, Tasks, Publishing
  <2> QED
    BY <2>3, <2>4, <2>5 DEF UnsubmittedOK
<1>7. CommandsOK'
  BY DEF CommandsOK
<1> QED
  BY <1>4, <1>5, <1>6, <1>7

(* An order whose filled amount and whose being FILLED stay as they are.   *)
LEMMA FillsStable ==
    ASSUME FillsOK, NEW o \in DOMAIN orders, OnlyTouches(o),
           orders'[o].filled = orders[o].filled,
           orders'[o].state = "FILLED" <=> orders[o].state = "FILLED",
           task'["fills"].pc = "Fill" =>
               /\ task["fills"].pc = "Fill" /\ Pending("fills")' = Pending("fills")
               /\ Pending("fills").order \in DOMAIN orders
    PROVE  FillsOK'
<1>1. \A p \in DOMAIN orders' : /\ p \in DOMAIN orders
                                /\ orders'[p].filled = orders[p].filled
                                /\ orders'[p].state = "FILLED" <=> orders[p].state = "FILLED"
  BY DEF OnlyTouches
<1>2. FilledWithinSize' /\ FilledIffComplete'
  BY <1>1 DEF FillsOK, FilledWithinSize, FilledIffComplete
<1> QED
  BY <1>1, <1>2 DEF FillsOK, OnlyTouches

(* The states of an order whose venue id the OMS has learnt. *)
Known == {"ACKED", "PARTIALLY_FILLED", "FILLED", "CANCELLED"}

(* An order that does not become known to the venue by this step. *)
LEMMA VenueStable ==
    ASSUME VenueOK, NEW o \in DOMAIN orders, OnlyTouches(o), venueMap' = venueMap,
           orders'[o].state # "PENDING_SUBMIT",
           orders'[o].state \in Known => orders[o].state \in Known
    PROVE  VenueOK'
<1>1. \A p \in DOMAIN orders' :
         /\ p \in DOMAIN orders /\ orders'[p].client = orders[p].client
         /\ orders'[p].state \in Known => orders[p].state \in Known
         /\ orders'[p].state # "PENDING_SUBMIT"
  BY DEF OnlyTouches, VenueOK
<1>2. \A c \in ClientIds : venueMap'[c] # NoOrder =>
         venueMap'[c] \in DOMAIN orders' /\ orders'[venueMap'[c]].client = c
  BY <1>1 DEF VenueOK, VenueIdsIndexed, OnlyTouches
<1>3. \A p \in DOMAIN orders' :
         orders'[p].state \in Known => venueMap'[orders'[p].client] = p
  BY <1>1 DEF VenueOK, VenueIdsIndexed, Known
<1> QED
  BY <1>1, <1>2, <1>3 DEF VenueOK, VenueIdsIndexed, Known

(* An order is acked under the venue's id for its client id. *)
LEMMA AckedLemma ==
    ASSUME TypeOK, WorkOK, FillsOK, VenueOK, NEW o \in DOMAIN orders,
           Transitions(orders[o].state, "ACKED"), Acked(orders[o].client, o)
    PROVE  /\ OnlyTouches(o) /\ VenueOK'
           /\ venueMap' \in [ClientIds -> OrderIds \cup {NoOrder}]
           /\ orders'[o].filled = orders[o].filled
           /\ orders'[o].state = "FILLED" <=> orders[o].state = "FILLED"
<1> DEFINE c == orders[o].client
<1>1. /\ orders \in [DOMAIN orders -> Order] /\ o \in OrderIds /\ c \in ClientIds
      /\ venueMap \in [ClientIds -> OrderIds \cup {NoOrder}]
  BY DEF TypeOK, Order
<1>2. /\ orders' = [orders EXCEPT ![o].state = "ACKED", ![o].venue = TRUE]
      /\ venueMap' = [venueMap EXCEPT ![c] = o]
  BY DEF Acked, IndexVenueId
<1>3. orders[o].state # "FILLED"
  BY DEF Transitions, CanTransition, ValidTransitions
<1>4. "ACKED" \in OrderStates
  BY DEF OrderStates
<1>5. OnlyTouches(o) /\ orders'[o].state = "ACKED" /\ orders'[o].filled = orders[o].filled
  BY <1>1, <1>2, <1>4 DEF OnlyTouches, Order
<1>6. \A p \in DOMAIN orders \ {o} : orders[p].client # c
  BY DEF WorkOK, MapsOK
<1>7. \A d \in ClientIds : venueMap'[d] # NoOrder =>
         venueMap'[d] \in DOMAIN orders' /\ orders'[venueMap'[d]].client = d
  BY <1>1, <1>2, <1>5 DEF VenueOK, VenueIdsIndexed, OnlyTouches
<1>8. \A p \in DOMAIN orders' : orders'[p].state \in Known => venueMap'[orders'[p].client] = p
  <2> SUFFICES ASSUME NEW p \in DOMAIN orders, orders'[p].state \in Known
               PROVE  venueMap'[orders'[p].client] = p
    BY <1>5 DEF OnlyTouches
  <2>1. CASE p = o
    BY <2>1, <1>1, <1>2, <1>5 DEF OnlyTouches
  <2>2. CASE p # o
    BY <2>2, <1>1, <1>2, <1>5, <1>6 DEF OnlyTouches, VenueOK, VenueIdsIndexed, Known, Order
  <2> QED
    BY <2>1, <2>2
<1>9. \A p \in DOMAIN orders' : orders'[p].state # "PENDING_SUBMIT"
  BY <1>5 DEF OnlyTouches, VenueOK
<1>10. VenueOK'
  BY <1>7, <1>8, <1>9 DEF VenueOK, VenueIdsIndexed, Known
<1> QED
  BY <1>1, <1>2, <1>3, <1>5, <1>10

(* A handler that drops its message. *)
LEMMA DropLemma ==
    ASSUME IInv, NEW t \in Topics, Receive(t), Drop
    PROVE  IInv'
<1>1. inbox' \in [Topics -> Seq(Message)] /\ MessagesOK'
  BY ReceiveLemma DEF IInv
<1>2. UNCHANGED <<proposals, approvals, orders, clientMap, venueMap, idem, submitCmds,
                  cancelCmds, log, task, venue, sent, redelivered>>
  BY DEF Receive, Drop, riskVars, cmdVars, venueVars
<1>3. TypeOK'
  BY <1>1, <1>2 DEF IInv, TypeOK
<1>4. WorkOK'
  BY <1>2 DEF IInv, WorkOK, TasksOK, MapsOK, UnsubmittedOK, CommandsOK, Publishing, Pending
<1>5. FillsOK' /\ VenueOK'
  BY <1>2 DEF IInv, FillsOK, VenueOK, FilledWithinSize, FilledIffComplete,
              VenueIdsIndexed, Pending
<1> QED
  BY <1>1, <1>3, <1>4, <1>5 DEF IInv

(* A handler that publishes an event without changing the store. *)
LEMMA OnlyPublishes ==
    ASSUME IInv, NEW t \in Topics, NEW e \in Event,
           e.type \in EventsOf(t), e.order \in DOMAIN orders,
           e.client = orders[e.order].client, idem[e.client] # NoOrder,
           t = "fills" => orders[e.order].filled + e.size <= Size,
           Publish(t, e), UNCHANGED <<orders, venueMap, clientMap, idem, submitCmds>>
    PROVE  /\ WorkOK' /\ VenueOK' /\ FillsOK'
           /\ log' \in Seq(Event) /\ task' \in [Tasks -> [pc : PCs, at : Nat]]
<1>1. OnlyTouches(e.order)
  BY DEF OnlyTouches, IInv, TypeOK
<1>2. WorkOK'
  BY <1>1, HandlerPublishes DEF IInv
<1>3. t \in Tasks
  BY DEF Tasks
<1>4. /\ log' \in Seq(Event) /\ task' \in [Tasks -> [pc : PCs, at : Nat]]
      /\ Pending(t)' = e
      /\ \A u \in Tasks \ {t} : task'[u] = task[u]
      /\ \A u \in Tasks \ {t} : Publishing(u) => Pending(u)' = Pending(u)
  BY <1>3, PublishLemma DEF IInv, WorkOK
<1>5. VenueOK' /\ FilledWithinSize' /\ FilledIffComplete'
  BY DEF IInv, VenueOK, VenueIdsIndexed, FillsOK, FilledWithinSize, FilledIffComplete
<1>6. task'["fills"].pc = "Fill" =>
         orders'[Pending("fills")'.order].filled + Pending("fills")'.size <= Size
  <2>1. CASE t = "fills"
    BY <1>4, <2>1
  <2>2. CASE t # "fills"
    BY <1>4, <2>2 DEF IInv, FillsOK, Publishing, EventTypes, Tasks, Topics
  <2> QED
    BY <2>1, <2>2
<1> QED
  BY <1>2, <1>4, <1>5, <1>6 DEF FillsOK

(* A handler that takes a message and publishes an event about its order.  *)
LEMMA ReceivesAndPublishes ==
    ASSUME IInv, NEW t \in Topics, Receive(t), NEW o \in DOMAIN orders,
           o = Lookup(t, Head(inbox[t])), NEW type \in EventsOf(t), NEW n \in 0..Size,
           t = "fills" => orders[o].filled + n <= Size,
           Publish(t, Ev(type, o, orders[o].client, n)), UNCHANGED <<orders, venueMap>>
    PROVE  IInv'
<1> DEFINE e == Ev(type, o, orders[o].client, n)
           m == Head(inbox[t])
<1>1. /\ m \in Message /\ idem[m.client] # NoOrder
      /\ inbox' \in [Topics -> Seq(Message)] /\ MessagesOK'
  BY ReceiveLemma DEF IInv
<1>2. o \in OrderIds /\ orders[o].client \in ClientIds
  BY DEF IInv, TypeOK, Order
<1>3. o # NoOrder
  BY <1>2, NoOrderAssumption
<1>4. orders[o].client = m.client
  BY <1>1, <1>3, LookupLemma DEF IInv
<1>5. type \in EventTypes
  BY DEF EventsOf, EventTypes, Topics
<1>6. /\ e \in Event /\ e.type = type /\ e.order = o /\ e.client = orders[o].client
      /\ e.size = n
  BY <1>2, <1>5 DEF Ev, Event
<1>7. UNCHANGED <<proposals, approvals, clientMap, idem, submitCmds, cancelCmds,
                  venue, sent, redelivered>>
  BY DEF Receive, riskVars, cmdVars, venueVars
<1> HIDE DEF e, m
<1>8. Publish(t, e)
  BY DEF e
<1>9. /\ WorkOK' /\ VenueOK' /\ FillsOK'
      /\ log' \in Seq(Event) /\ task' \in [Tasks -> [pc : PCs, at : Nat]]
  BY <1>1, <1>4, <1>6, <1>7, <1>8, OnlyPublishes
<1>10. TypeOK'
  BY <1>1, <1>7, <1>9 DEF IInv, TypeOK
<1> QED
  BY <1>1, <1>9, <1>10 DEF IInv

(* A handler that ends with a change of its order that keeps the amounts   *)
(* right, and the venue's index.                                           *)
LEMMA EndsWith ==
    ASSUME IInv, NEW t \in Topics, Publishing(t), Resume(t),
           OnlyTouches(Pending(t).order),
           UNCHANGED <<proposals, approvals, clientMap, venueMap, idem, submitCmds,
                       cancelCmds, log, inbox, venue, sent, redelivered>>,
           orders'[Pending(t).order].filled <= Size,
           orders'[Pending(t).order].state = "FILLED"
               <=> orders'[Pending(t).order].filled = Size,
           orders'[Pending(t).order].filled = orders[Pending(t).order].filled \/ t = "fills",
           orders'[Pending(t).order].state # "PENDING_SUBMIT",
           orders'[Pending(t).order].state \in Known
               => orders[Pending(t).order].state \in Known
    PROVE  IInv'
<1> DEFINE o == Pending(t).order
<1>1. t \in Tasks
  BY DEF Tasks
<1>2. o \in DOMAIN orders
  BY <1>1 DEF IInv, WorkOK, TasksOK
<1>3. WorkOK'
  BY HandlerEnds DEF IInv
<1>4. /\ task' \in [Tasks -> [pc : PCs, at : Nat]] /\ task'[t].pc = "idle"
      /\ \A u \in Tasks \ {t} : task'[u] = task[u] /\ Pending(u)' = Pending(u)
  BY <1>1, ResumeLemma DEF IInv
<1> HIDE DEF o
<1>5. VenueOK'
  BY <1>2, VenueStable DEF IInv, o
<1>6. FilledWithinSize' /\ FilledIffComplete'
  <2> SUFFICES ASSUME NEW p \in DOMAIN orders
               PROVE  /\ orders'[p].filled <= Size
                      /\ orders'[p].state = "FILLED" <=> orders'[p].filled = Size
    BY DEF FilledWithinSize, FilledIffComplete, OnlyTouches
  <2>1. CASE p = o
    BY <2>1 DEF o
  <2>2. CASE p # o
    BY <2>2 DEF o, OnlyTouches, IInv, FillsOK, FilledWithinSize, FilledIffComplete
  <2> QED
    BY <2>1, <2>2
<1>7. task'["fills"].pc = "Fill" =>
         orders'[Pending("fills")'.order].filled + Pending("fills")'.size <= Size
  <2> SUFFICES ASSUME task'["fills"].pc = "Fill"
               PROVE  orders'[Pending("fills")'.order].filled + Pending("fills")'.size <= Size
    OBVIOUS
  <2>1. /\ t # "fills" /\ task["fills"].pc = "Fill" /\ Pending("fills")' = Pending("fills")
        /\ Pending("fills").order \in DOMAIN orders
    BY <1>4 DEF IInv, WorkOK, TasksOK, Publishing, EventTypes, Tasks, Topics
  <2>2. orders'[Pending("fills").order].filled = orders[Pending("fills").order].filled
    BY <1>2, <2>1 DEF OnlyTouches, o
  <2> QED
    BY <2>1, <2>2 DEF IInv, FillsOK
<1>8. TypeOK' /\ MessagesOK'
  BY <1>4 DEF IInv, TypeOK, MessagesOK, OnlyTouches
<1> QED
  BY <1>3, <1>5, <1>6, <1>7, <1>8 DEF IInv, FillsOK

-----------------------------------------------------------------------------
(* One lemma per action: it preserves the inductive invariant. *)

LEMMA ApproveOK ==
    ASSUME IInv, NEW c \in ClientIds, Approve(c)
    PROVE  IInv'
<1>1. /\ approvals' = approvals + 1 /\ approvals < MaxApprovals
      /\ proposals' = Append(proposals, c)
      /\ UNCHANGED <<orders, clientMap, venueMap, idem, submitCmds, cancelCmds,
                     log, inbox, task, venue, sent, redelivered>>
  BY DEF Approve, storeVars, cmdVars, venueVars
<1>2. proposals' \in Seq(ClientIds) /\ approvals' \in 0..MaxApprovals
  BY <1>1, BoundsAssumption DEF IInv, TypeOK
<1>3. TypeOK'
  BY <1>1, <1>2 DEF IInv, TypeOK
<1>4. WorkOK'
  BY <1>1 DEF IInv, WorkOK, TasksOK, MapsOK, UnsubmittedOK, CommandsOK, Publishing, Pending
<1>5. FillsOK' /\ VenueOK' /\ MessagesOK'
  BY <1>1 DEF IInv, FillsOK, VenueOK, FilledWithinSize, FilledIffComplete,
              VenueIdsIndexed, Pending, MessagesOK
<1> QED
  BY <1>3, <1>4, <1>5 DEF IInv

LEMMA CreateOrderOK ==
    ASSUME IInv, CreateOrder
    PROVE  IInv'
<1> DEFINE c == Head(proposals)
           new == [client |-> c, state |-> "NEW", filled |-> 0, venue |-> FALSE]
<1>1. /\ proposals \in Seq(ClientIds) /\ proposals # <<>> /\ proposals' = Tail(proposals)
      /\ task["proposals"].pc = "idle"
      /\ UNCHANGED <<approvals, venueMap, idem, submitCmds, cancelCmds, inbox, venue, sent,
                     redelivered>>
  BY DEF CreateOrder, IInv, TypeOK, cmdVars, venueVars, storeVars
<1>2. c \in ClientIds /\ proposals' \in Seq(ClientIds)
  BY <1>1
<1>3. CASE UNCHANGED <<orders, clientMap, log, task>>
  <2>1. TypeOK'
    BY <1>1, <1>2, <1>3 DEF IInv, TypeOK
  <2>2. WorkOK'
    BY <1>1, <1>3 DEF IInv, WorkOK, TasksOK, MapsOK, UnsubmittedOK, CommandsOK,
                      Publishing, Pending
  <2>3. FillsOK' /\ VenueOK' /\ MessagesOK'
    BY <1>1, <1>3 DEF IInv, FillsOK, VenueOK, FilledWithinSize, FilledIffComplete,
                      VenueIdsIndexed, Pending, MessagesOK
  <2> QED
    BY <2>1, <2>2, <2>3 DEF IInv
<1>4. ASSUME NEW o \in OrderIds \ DOMAIN orders, ~IsDuplicate(c),
             orders' = [x \in DOMAIN orders \cup {o} |-> IF x = o THEN new ELSE orders[x]],
             clientMap' = [clientMap EXCEPT ![c] = o],
             Publish("proposals", Ev("Created", o, c, 0))
      PROVE  IInv'
  <2> DEFINE e == Ev("Created", o, c, 0)
  <2>1. e \in Event /\ e.type = "Created" /\ e.order = o /\ e.client = c
    BY <1>2, SizeAssumption DEF Ev, Event, EventTypes
  <2>2. /\ log' \in Seq(Event) /\ Len(log') = Len(log) + 1 /\ Len(log) \in Nat
        /\ task' \in [Tasks -> [pc : PCs, at : Nat]]
        /\ task'["proposals"].pc = "Created" /\ task'["proposals"].at = Len(log')
        /\ \A u \in Tasks \ {"proposals"} : task'[u] = task[u]
        /\ Pending("proposals")' = e
        /\ \A u \in Tasks \ {"proposals"} : Publishing(u) => Pending(u)' = Pending(u)
    <3>1. TypeOK /\ TasksOK /\ "proposals" \in Tasks /\ Len(log) \in Nat
      BY DEF IInv, WorkOK, Tasks, TypeOK
    <3>2. Publish("proposals", e)
      BY <1>4
    <3> HIDE DEF e
    <3> QED
      BY <2>1, <3>1, <3>2, PublishLemma
  <2>3. idem[c] = NoOrder
    BY <1>4 DEF IsDuplicate
  <2>4. \A p \in DOMAIN orders : orders[p].client # c /\ p # o /\ orders'[p] = orders[p]
    BY <1>1, <1>4, <2>3 DEF IInv, WorkOK, UnsubmittedOK
  <2>5. DOMAIN orders' = DOMAIN orders \cup {o} /\ orders'[o] = new /\ new \in Order
    BY <1>2, <1>4 DEF Order, OrderStates
  <2>6. TypeOK'
    <3>1. DOMAIN orders' \subseteq OrderIds /\ orders' \in [DOMAIN orders' -> Order]
      BY <1>4, <2>4, <2>5 DEF IInv, TypeOK
    <3>2. clientMap' \in [ClientIds -> OrderIds \cup {NoOrder}]
      BY <1>2, <1>4 DEF IInv, TypeOK
    <3> QED
      BY <1>1, <1>2, <2>2, <3>1, <3>2 DEF IInv, TypeOK
  <2>7. TasksOK'
    <3> SUFFICES ASSUME NEW u \in Tasks, Publishing(u)'
                 PROVE  /\ task'[u].pc \in EventsOf(u)
                        /\ task'[u].at \in 1..Len(log')
                        /\ Pending(u)'.order \in DOMAIN orders'
                        /\ Pending(u)'.client = orders'[Pending(u)'.order].client
      BY DEF TasksOK
    <3>1. CASE u = "proposals"
      BY <3>1, <2>1, <2>2, <2>5 DEF EventsOf
    <3>2. CASE u # "proposals"
      BY <3>2, <2>2, <2>4, <2>5 DEF IInv, WorkOK, TasksOK, Publishing
    <3> QED
      BY <3>1, <3>2
  <2>8. MapsOK'
    <3>1. \A d \in ClientIds : clientMap'[d] = IF d = c THEN o ELSE clientMap[d]
      BY <1>4 DEF IInv, TypeOK
    <3>2. \A d \in ClientIds : clientMap'[d] # NoOrder =>
             clientMap'[d] \in DOMAIN orders' /\ orders'[clientMap'[d]].client = d
      BY <2>4, <2>5, <3>1 DEF IInv, WorkOK, MapsOK
    <3>3. \A p \in DOMAIN orders' : clientMap'[orders'[p].client] = p
      BY <1>2, <2>4, <2>5, <3>1 DEF IInv, WorkOK, MapsOK, TypeOK, Order
    <3>4. \A d \in ClientIds : idem'[d] # NoOrder => idem'[d] = clientMap'[d]
      BY <1>1, <2>3, <3>1 DEF IInv, WorkOK, MapsOK
    <3> QED
      BY <3>2, <3>3, <3>4 DEF MapsOK
  <2>9. UnsubmittedOK'
    <3>1. \A p \in DOMAIN orders' : idem'[orders'[p].client] = NoOrder => p = o
      BY <1>1, <2>4, <2>5 DEF IInv, WorkOK, UnsubmittedOK
    <3>2. \A u \in Topics : Publishing(u)' => idem'[Pending(u)'.client] # NoOrder
      BY <1>1, <2>2 DEF IInv, WorkOK, UnsubmittedOK, Publishing, Tasks, Topics
    <3>3. task'["proposals"].pc = "Created" => idem'[Pending("proposals")'.client] = NoOrder
      BY <1>1, <2>1, <2>2, <2>3
    <3>4. \A p \in DOMAIN orders' : idem'[orders'[p].client] = NoOrder =>
             /\ task'["proposals"].pc = "Created" /\ Pending("proposals")'.order = p
             /\ orders'[p].state = "NEW" /\ orders'[p].filled = 0
      BY <2>1, <2>2, <2>5, <3>1
    <3> QED
      BY <3>2, <3>3, <3>4 DEF UnsubmittedOK
  <2>10. CommandsOK' /\ MessagesOK'
    BY <1>1 DEF IInv, WorkOK, CommandsOK, MessagesOK
  <2>11. FillsOK'
    <3>1. FilledWithinSize' /\ FilledIffComplete'
      BY <2>4, <2>5, SizeAssumption DEF IInv, FillsOK, FilledWithinSize, FilledIffComplete
    <3>2. task'["fills"].pc = "Fill" =>
             orders'[Pending("fills")'.order].filled + Pending("fills")'.size <= Size
      BY <2>2, <2>4 DEF IInv, FillsOK, WorkOK, TasksOK, Publishing, EventTypes, Tasks, Topics
    <3> QED
      BY <3>1, <3>2 DEF FillsOK
  <2>12. VenueOK'
    <3>1. \A d \in ClientIds : venueMap'[d] # NoOrder =>
             venueMap'[d] \in DOMAIN orders' /\ orders'[venueMap'[d]].client = d
      BY <1>1, <2>4, <2>5 DEF IInv, VenueOK, VenueIdsIndexed
    <3> QED
      BY <1>1, <2>4, <2>5, <3>1 DEF IInv, VenueOK, VenueIdsIndexed
  <2> QED
    BY <2>6, <2>7, <2>8, <2>9, <2>10, <2>11, <2>12 DEF IInv, WorkOK
<1> QED
  BY <1>3, <1>4 DEF CreateOrder, storeVars

LEMMA SendSubmitOK ==
    ASSUME IInv, SendSubmit
    PROVE  IInv'
<1> DEFINE o == Pending("proposals").order
           c == orders[o].client
           e == Ev("Submitted", o, c, 0)
<1>1. /\ task["proposals"].pc = "Created"
      /\ idem' = [idem EXCEPT ![c] = o] /\ submitCmds' = Append(submitCmds, c)
      /\ orders' = [orders EXCEPT ![o].state = "SUBMITTED"]
      /\ Publish("proposals", e)
      /\ UNCHANGED <<proposals, approvals, clientMap, venueMap, cancelCmds, inbox, venue,
                     sent, redelivered>>
  BY DEF SendSubmit, RecordOrder, SetState, riskVars, venueVars
<1>2. "proposals" \in Tasks /\ Publishing("proposals") /\ "proposals" \notin Topics
  BY <1>1 DEF Tasks, Publishing, EventTypes, Topics
<1>3. o \in DOMAIN orders /\ Pending("proposals").client = c /\ idem[c] = NoOrder
  BY <1>1, <1>2 DEF IInv, WorkOK, TasksOK, UnsubmittedOK
<1>4. orders[o].state = "NEW" /\ orders[o].filled = 0 /\ clientMap[c] = o
  BY <1>3 DEF IInv, WorkOK, UnsubmittedOK, MapsOK
<1>5. o \in OrderIds /\ c \in ClientIds /\ orders[o] \in Order
  BY <1>3 DEF IInv, TypeOK, Order
<1>6. e \in Event /\ e.type = "Submitted" /\ e.order = o /\ e.client = c
  BY <1>5, SizeAssumption DEF Ev, Event, EventTypes
<1>7. /\ log' \in Seq(Event) /\ Len(log') = Len(log) + 1 /\ Len(log) \in Nat
      /\ task' \in [Tasks -> [pc : PCs, at : Nat]]
      /\ task'["proposals"].pc = "Submitted" /\ task'["proposals"].at = Len(log')
      /\ \A u \in Tasks \ {"proposals"} : task'[u] = task[u]
      /\ Pending("proposals")' = e
      /\ \A u \in Tasks \ {"proposals"} : Publishing(u) => Pending(u)' = Pending(u)
  <2>1. TypeOK /\ TasksOK /\ Len(log) \in Nat
    BY DEF IInv, WorkOK, TypeOK
  <2>2. Publish("proposals", e)
    BY <1>1
  <2> HIDE DEF e, o, c
  <2> QED
    BY <1>2, <1>6, <2>1, <2>2, PublishLemma
<1>8. /\ OnlyTouches(o) /\ orders'[o].state = "SUBMITTED" /\ orders'[o].filled = 0
      /\ \A p \in DOMAIN orders : orders'[p].client = orders[p].client
  <2>1. orders \in [DOMAIN orders -> Order] /\ "SUBMITTED" \in OrderStates
    BY DEF IInv, TypeOK, OrderStates
  <2> HIDE DEF o, c
  <2> QED
    BY <1>1, <1>3, <1>4, <1>5, <2>1 DEF OnlyTouches, Order
<1>9. /\ \A d \in ClientIds : idem'[d] = IF d = c THEN o ELSE idem[d]
      /\ idem' \in [ClientIds -> OrderIds \cup {NoOrder}] /\ idem'[c] # NoOrder
  BY <1>1, <1>5, NoOrderAssumption DEF IInv, TypeOK
<1>10. /\ submitCmds' \in Seq(ClientIds) /\ Len(submitCmds') = Len(submitCmds) + 1
       /\ Len(submitCmds) \in Nat /\ submitCmds'[Len(submitCmds) + 1] = c
       /\ \A i \in 1..Len(submitCmds) : submitCmds'[i] = submitCmds[i] /\ submitCmds[i] # c
  <2>1. submitCmds \in Seq(ClientIds) /\ submitCmds' = Append(submitCmds, c)
    BY <1>1 DEF IInv, TypeOK
  <2>2. \A i \in 1..Len(submitCmds) : submitCmds[i] # c
    BY <1>3 DEF IInv, MessagesOK
  <2> HIDE DEF c
  <2> QED
    BY <1>5, <2>1, <2>2
<1> HIDE DEF o, c, e
<1>11. TypeOK'
  BY <1>1, <1>7, <1>8, <1>9, <1>10 DEF IInv, TypeOK, OnlyTouches
<1>12. TasksOK'
  <2> SUFFICES ASSUME NEW u \in Tasks, Publishing(u)'
               PROVE  /\ task'[u].pc \in EventsOf(u)
                      /\ task'[u].at \in 1..Len(log')
                      /\ Pending(u)'.order \in DOMAIN orders'
                      /\ Pending(u)'.client = orders'[Pending(u)'.order].client
    BY DEF TasksOK
  <2>1. CASE u = "proposals"
    BY <2>1, <1>3, <1>6, <1>7, <1>8 DEF EventsOf, OnlyTouches, c
  <2>2. CASE u # "proposals"
    BY <2>2, <1>7, <1>8 DEF IInv, WorkOK, TasksOK, Publishing, OnlyTouches
  <2> QED
    BY <2>1, <2>2
<1>13. MapsOK'
  BY <1>1, <1>4, <1>8, <1>9 DEF IInv, WorkOK, MapsOK, OnlyTouches
<1>14. UnsubmittedOK'
  <2>1. \A p \in DOMAIN orders' : idem'[orders'[p].client] # NoOrder
    <3> SUFFICES ASSUME NEW p \in DOMAIN orders PROVE idem'[orders[p].client] # NoOrder
      BY <1>8 DEF OnlyTouches
    <3>1. orders[p].client \in ClientIds
      BY DEF IInv, TypeOK, Order
    <3>2. CASE p = o
      BY <1>9, <3>2 DEF c
    <3>3. CASE p # o
      BY <1>9, <3>1, <3>3 DEF IInv, WorkOK, UnsubmittedOK, o
    <3> QED
      BY <3>2, <3>3
  <2>2. \A u \in Topics : Publishing(u)' => idem'[Pending(u)'.client] # NoOrder
    <3> SUFFICES ASSUME NEW u \in Topics, Publishing(u)'
                 PROVE  idem'[Pending(u)'.client] # NoOrder
      OBVIOUS
    <3>1. u \in Tasks \ {"proposals"} /\ Publishing(u) /\ Pending(u)' = Pending(u)
      BY <1>2, <1>7 DEF Publishing, Tasks
    <3>2. idem[Pending(u).client] # NoOrder /\ Pending(u).client \in ClientIds
      BY <3>1 DEF IInv, WorkOK, UnsubmittedOK, TasksOK, TypeOK, Order
    <3> QED
      BY <1>9, <3>1, <3>2, NoOrderAssumption
  <2> QED
    BY <1>7, <2>1, <2>2 DEF UnsubmittedOK
<1>15. CommandsOK'
  BY <1>10 DEF IInv, WorkOK, CommandsOK
<1>16. MessagesOK'
  <2>1. \A d \in ClientIds : idem[d] # NoOrder => idem'[d] # NoOrder
    BY <1>9
  <2>2. \A i \in 1..Len(submitCmds') : idem'[submitCmds'[i]] # NoOrder
    <3>1. \A i \in 1..Len(submitCmds) : submitCmds[i] \in ClientIds
      BY DEF IInv, TypeOK
    <3> QED
      BY <1>9, <1>10, <2>1, <3>1 DEF IInv, MessagesOK
  <2>3. \A d \in ClientIds : venue'[d].st # "none" => idem'[d] # NoOrder
    BY <1>1, <2>1 DEF IInv, MessagesOK
  <2>4. \A t \in Topics : \A m \in sent'[t] : idem'[m.client] # NoOrder
    BY <1>1, <2>1 DEF IInv, MessagesOK, TypeOK, Message
  <2>5. \A t \in Topics : \A i \in 1..Len(inbox'[t]) : idem'[inbox'[t][i].client] # NoOrder
    <3>1. \A t \in Topics : \A i \in 1..Len(inbox[t]) : inbox[t][i].client \in ClientIds
      <4> SUFFICES ASSUME NEW t \in Topics, NEW i \in 1..Len(inbox[t])
                   PROVE  inbox[t][i].client \in ClientIds
        OBVIOUS
      <4>1. inbox[t] \in Seq(Message)
        BY DEF IInv, TypeOK
      <4>2. inbox[t][i] \in Message
        BY <4>1
      <4> QED
        BY <4>2 DEF Message
    <3> QED
      BY <1>1, <2>1, <3>1 DEF IInv, MessagesOK
  <2> QED
    BY <2>2, <2>3, <2>4, <2>5 DEF MessagesOK
<1>17. FillsOK'
  <2>1. task'["fills"].pc = "Fill" =>
           /\ task["fills"].pc = "Fill" /\ Pending("fills")' = Pending("fills")
           /\ Pending("fills").order \in DOMAIN orders
    BY <1>7 DEF IInv, WorkOK, TasksOK, Publishing, EventTypes, Tasks, Topics
  <2> QED
    BY <1>3, <1>4, <1>8, <2>1, FillsStable DEF IInv
<1>18. VenueOK'
  BY <1>1, <1>3, <1>8, VenueStable DEF IInv, Known
<1> QED
  BY <1>11, <1>12, <1>13, <1>14, <1>15, <1>16, <1>17, <1>18 DEF IInv, WorkOK

LEMMA ConfirmSubmittedOK ==
    ASSUME IInv, ConfirmSubmitted
    PROVE  IInv'
<1>1. /\ task["proposals"].pc = "Submitted"
      /\ task' \in [Tasks -> [pc : PCs, at : Nat]]
      /\ task'["proposals"].pc \in {"idle", "dead"}
      /\ \A u \in Tasks : task'[u] = task[u] \/ task'[u].pc \in {"idle", "dead"}
      /\ UNCHANGED <<proposals, approvals, orders, clientMap, venueMap, idem, submitCmds,
                     cancelCmds, log, inbox, venue, sent, redelivered>>
  BY DEF ConfirmSubmitted, IInv, TypeOK, Resume, Idle, Dead, PCs, Tasks,
         riskVars, storeVars, cmdVars, venueVars
<1>2. TypeOK'
  BY <1>1 DEF IInv, TypeOK
<1>3. WorkOK'
  <2>1. \A u \in Tasks : Publishing(u)' => Publishing(u) /\ task'[u] = task[u]
                                         /\ Pending(u)' = Pending(u)
    BY <1>1 DEF Publishing, EventTypes, Pending
  <2>2. TasksOK'
    BY <1>1, <2>1 DEF IInv, WorkOK, TasksOK
  <2>3. UnsubmittedOK'
    BY <1>1, <2>1 DEF IInv, WorkOK, UnsubmittedOK, Tasks
  <2>4. MapsOK' /\ CommandsOK'
    BY <1>1 DEF IInv, WorkOK, MapsOK, CommandsOK
  <2> QED
    BY <2>2, <2>3, <2>4 DEF WorkOK
<1>4. FillsOK' /\ VenueOK' /\ MessagesOK'
  BY <1>1 DEF IInv, FillsOK, VenueOK, FilledWithinSize, FilledIffComplete,
              VenueIdsIndexed, Pending, MessagesOK, Tasks, Topics
<1> QED
  BY <1>2, <1>3, <1>4 DEF IInv

LEMMA ReceiveAckOK ==
    ASSUME IInv, ReceiveAck
    PROVE  IInv'
<1> DEFINE m == Head(inbox["acks"])
           o == Lookup("acks", m)
           e == Ev("Ack", o, m.client, 0)
<1>1. Receive("acks") /\ "acks" \in Topics /\ "acks" \in Tasks
  BY DEF ReceiveAck, Topics, Tasks
<1>2. CASE Drop
  BY <1>1, <1>2, DropLemma
<1>3. CASE /\ o # NoOrder /\ Transitions(orders[o].state, "ACKED")
           /\ Acked(m.client, o) /\ Publish("acks", e)
  <2>1. /\ m \in Message /\ m.client \in ClientIds /\ idem[m.client] # NoOrder
        /\ inbox' \in [Topics -> Seq(Message)] /\ MessagesOK'
    BY <1>1, ReceiveLemma DEF IInv, Message
  <2>2. o \in DOMAIN orders /\ orders[o].client = m.client
    BY <1>1, <1>3, <2>1, LookupLemma DEF IInv
  <2>3. /\ e \in Event /\ e.type = "Ack" /\ e.order = o /\ e.client = m.client
        /\ e.type \in EventsOf("acks")
    BY <2>1, <2>2, SizeAssumption DEF Ev, Event, EventTypes, EventsOf, IInv, TypeOK
  <2> HIDE DEF o, e, m
  <2>4. UNCHANGED <<proposals, approvals, clientMap, idem, submitCmds, cancelCmds,
                    venue, sent, redelivered>>
    BY <1>1 DEF Receive, riskVars, cmdVars, venueVars
  <2>5. /\ OnlyTouches(o) /\ VenueOK' /\ venueMap' \in [ClientIds -> OrderIds \cup {NoOrder}]
        /\ orders'[o].filled = orders[o].filled
        /\ orders'[o].state = "FILLED" <=> orders[o].state = "FILLED"
    BY <1>3, <2>2, AckedLemma DEF IInv
  <2>6. WorkOK'
    BY <1>1, <1>3, <2>1, <2>2, <2>3, <2>4, <2>5, HandlerPublishes DEF IInv
  <2>7. /\ log' \in Seq(Event) /\ task' \in [Tasks -> [pc : PCs, at : Nat]]
        /\ \A u \in Tasks \ {"acks"} : task'[u] = task[u]
        /\ \A u \in Tasks \ {"acks"} : Publishing(u) => Pending(u)' = Pending(u)
    BY <1>1, <1>3, <2>3, PublishLemma DEF IInv, WorkOK
  <2>8. FillsOK'
    <3>1. task'["fills"].pc = "Fill" =>
             /\ task["fills"].pc = "Fill" /\ Pending("fills")' = Pending("fills")
             /\ Pending("fills").order \in DOMAIN orders
      BY <2>7 DEF IInv, WorkOK, TasksOK, Publishing, EventTypes, Tasks, Topics
    <3> QED
      BY <2>2, <2>5, <3>1, FillsStable DEF IInv
  <2>9. TypeOK'
    BY <2>1, <2>4, <2>5, <2>7 DEF IInv, TypeOK, OnlyTouches
  <2> QED
    BY <2>1, <2>5, <2>6, <2>8, <2>9 DEF IInv
<1> QED
  BY <1>2, <1>3 DEF ReceiveAck

LEMMA ApplyAckOK ==
    ASSUME IInv, ApplyAck
    PROVE  IInv'
<1> DEFINE o == Pending("acks").order
           c == Pending("acks").client
<1>1. /\ task["acks"].pc = "Ack" /\ Resume("acks")
      /\ UNCHANGED <<proposals, approvals, clientMap, idem, submitCmds, cancelCmds, log, inbox,
                     venue, sent, redelivered>>
      /\ IF Transitions(orders[o].state, "ACKED")
           THEN Acked(c, o) ELSE UNCHANGED <<orders, venueMap>>
  BY DEF ApplyAck, riskVars, cmdVars, venueVars
<1>2. "acks" \in Topics /\ "acks" \in Tasks /\ Publishing("acks")
  BY <1>1 DEF Topics, Tasks, Publishing, EventTypes
<1>3. o \in DOMAIN orders /\ c = orders[o].client
  BY <1>2 DEF IInv, WorkOK, TasksOK
<1> HIDE DEF o, c
<1>4. /\ OnlyTouches(o) /\ VenueOK' /\ venueMap' \in [ClientIds -> OrderIds \cup {NoOrder}]
      /\ orders'[o].filled = orders[o].filled
      /\ orders'[o].state = "FILLED" <=> orders[o].state = "FILLED"
  <2>1. CASE Transitions(orders[o].state, "ACKED")
    BY <1>1, <1>3, <2>1, AckedLemma DEF IInv
  <2>2. CASE UNCHANGED <<orders, venueMap>>
    BY <2>2 DEF IInv, TypeOK, OnlyTouches, VenueOK, VenueIdsIndexed
  <2> QED
    BY <1>1, <2>1, <2>2
<1>5. WorkOK'
  BY <1>1, <1>2, <1>4, HandlerEnds DEF IInv, o
<1>6. /\ task' \in [Tasks -> [pc : PCs, at : Nat]]
      /\ \A u \in Tasks \ {"acks"} : task'[u] = task[u] /\ Pending(u)' = Pending(u)
  BY <1>1, <1>2, ResumeLemma DEF IInv
<1>7. FillsOK'
  <2>1. task'["fills"].pc = "Fill" =>
           /\ task["fills"].pc = "Fill" /\ Pending("fills")' = Pending("fills")
           /\ Pending("fills").order \in DOMAIN orders
    BY <1>6 DEF IInv, WorkOK, TasksOK, Publishing, EventTypes, Tasks, Topics
  <2> QED
    BY <1>3, <1>4, <2>1, FillsStable DEF IInv
<1>8. TypeOK' /\ MessagesOK'
  BY <1>1, <1>4, <1>6 DEF IInv, TypeOK, OnlyTouches, MessagesOK
<1> QED
  BY <1>4, <1>5, <1>7, <1>8 DEF IInv

LEMMA ReceiveRejectOK ==
    ASSUME IInv, ReceiveReject
    PROVE  IInv'
<1> DEFINE o == Lookup("rejects", Head(inbox["rejects"]))
<1>1. Receive("rejects") /\ "rejects" \in Topics
  BY DEF ReceiveReject, Topics
<1>2. CASE Drop
  BY <1>1, <1>2, DropLemma
<1>3. CASE /\ o # NoOrder /\ UNCHANGED <<orders, venueMap>>
           /\ Publish("rejects", Ev("Rejected", o, orders[o].client, 0))
  <2>1. o \in DOMAIN orders
    BY <1>1, <1>3, ReceiveLemma, LookupLemma DEF IInv
  <2>2. "Rejected" \in EventsOf("rejects") /\ 0 \in 0..Size
    BY SizeAssumption DEF EventsOf
  <2> HIDE DEF o
  <2> QED
    BY <1>1, <1>3, <2>1, <2>2, ReceivesAndPublishes DEF o
<1> QED
  BY <1>2, <1>3 DEF ReceiveReject

LEMMA ReceiveFillOK ==
    ASSUME IInv, ReceiveFill
    PROVE  IInv'
<1> DEFINE m == Head(inbox["fills"])
           o == Lookup("fills", m)
<1>1. Receive("fills") /\ "fills" \in Topics
  BY DEF ReceiveFill, Topics
<1>2. CASE Drop
  BY <1>1, <1>2, DropLemma
<1>3. CASE /\ o # NoOrder /\ FillFits(o, m.size) /\ UNCHANGED <<orders, venueMap>>
           /\ Publish("fills", Ev("Fill", o, orders[o].client, m.size))
  <2>1. m \in Message
    BY <1>1, ReceiveLemma DEF IInv
  <2>2. o \in DOMAIN orders
    BY <1>1, <1>3, <2>1, LookupLemma DEF IInv
  <2>3. "Fill" \in EventsOf("fills") /\ m.size \in 0..Size
    BY <2>1 DEF EventsOf, Message
  <2>4. orders[o].filled + m.size <= Size
    BY <1>3 DEF FillFits
  <2> HIDE DEF o
  <2> QED
    BY <1>1, <1>3, <2>2, <2>3, <2>4, ReceivesAndPublishes DEF o
<1> QED
  BY <1>2, <1>3 DEF ReceiveFill

LEMMA ReceiveCancelOK ==
    ASSUME IInv, ReceiveCancel
    PROVE  IInv'
<1> DEFINE o == Lookup("cancels", Head(inbox["cancels"]))
<1>1. Receive("cancels") /\ "cancels" \in Topics
  BY DEF ReceiveCancel, Topics
<1>2. CASE Drop
  BY <1>1, <1>2, DropLemma
<1>3. CASE /\ o # NoOrder /\ UNCHANGED <<orders, venueMap>>
           /\ Publish("cancels", Ev("CancelRequested", o, orders[o].client, 0))
  <2>1. o \in DOMAIN orders
    BY <1>1, <1>3, ReceiveLemma, LookupLemma DEF IInv
  <2>2. "CancelRequested" \in EventsOf("cancels") /\ 0 \in 0..Size
    BY SizeAssumption DEF EventsOf
  <2> HIDE DEF o
  <2> QED
    BY <1>1, <1>3, <2>1, <2>2, ReceivesAndPublishes DEF o
<1> QED
  BY <1>2, <1>3 DEF ReceiveCancel

LEMMA SendCancelOK ==
    ASSUME IInv, SendCancel
    PROVE  IInv'
<1> DEFINE o == Pending("cancels").order
           e == Ev("Canceled", o, orders[o].client, 0)
<1>1. /\ task["cancels"].pc = "CancelRequested" /\ cancelCmds' = Append(cancelCmds, o)
      /\ Publish("cancels", e)
      /\ UNCHANGED <<proposals, approvals, orders, clientMap, venueMap, idem, submitCmds,
                     inbox, venue, sent, redelivered>>
  BY DEF SendCancel, riskVars, storeVars, venueVars
<1>2. "cancels" \in Topics /\ "cancels" \in Tasks /\ Publishing("cancels")
  BY <1>1 DEF Topics, Tasks, Publishing, EventTypes
<1>3. /\ o \in DOMAIN orders /\ o \in OrderIds /\ orders[o].client \in ClientIds
      /\ idem[orders[o].client] # NoOrder
  BY <1>2 DEF IInv, WorkOK, TasksOK, UnsubmittedOK, TypeOK, Order
<1>4. /\ e \in Event /\ e.type \in EventsOf("cancels") /\ e.order = o
      /\ e.client = orders[o].client
  BY <1>3, SizeAssumption DEF Ev, Event, EventTypes, EventsOf
<1> HIDE DEF e, o
<1>5. /\ WorkOK' /\ VenueOK' /\ FillsOK'
      /\ log' \in Seq(Event) /\ task' \in [Tasks -> [pc : PCs, at : Nat]]
  BY <1>1, <1>2, <1>3, <1>4, OnlyPublishes
<1>6. cancelCmds' \in Seq(OrderIds)
  BY <1>1, <1>3 DEF IInv, TypeOK
<1>7. TypeOK' /\ MessagesOK'
  BY <1>1, <1>5, <1>6 DEF IInv, TypeOK, MessagesOK
<1> QED
  BY <1>5, <1>7 DEF IInv

LEMMA ApplyRejectOK ==
    ASSUME IInv, ApplyReject
    PROVE  IInv'
<1> DEFINE o == Pending("rejects").order
<1>1. /\ task["rejects"].pc = "Rejected" /\ Resume("rejects")
      /\ UNCHANGED <<proposals, approvals, clientMap, venueMap, idem, submitCmds,
                     cancelCmds, log, inbox, venue, sent, redelivered>>
      /\ IF Rejectable(orders[o].state) THEN orders' = [orders EXCEPT ![o].state = "REJECTED"]
         ELSE UNCHANGED orders
  BY DEF ApplyReject, SetState, riskVars, cmdVars, venueVars
<1>2. "rejects" \in Topics /\ "rejects" \in Tasks /\ Publishing("rejects")
  BY <1>1 DEF Topics, Tasks, Publishing, EventTypes
<1>3. /\ o \in DOMAIN orders /\ orders \in [DOMAIN orders -> Order] /\ orders[o] \in Order
      /\ orders[o].state # "PENDING_SUBMIT" /\ orders[o].filled <= Size
      /\ orders[o].state = "FILLED" <=> orders[o].filled = Size
  BY <1>2 DEF IInv, WorkOK, TasksOK, TypeOK, VenueOK, FillsOK, FilledWithinSize,
              FilledIffComplete
<1> HIDE DEF o
<1>4. CASE Rejectable(orders[o].state) /\ orders' = [orders EXCEPT ![o].state = "REJECTED"]
  <2>1. orders[o].state # "FILLED" /\ "REJECTED" \in OrderStates
    BY <1>4 DEF Rejectable, OrderStates
  <2>2. /\ OnlyTouches(o) /\ orders'[o].state = "REJECTED"
        /\ orders'[o].filled = orders[o].filled
    BY <1>3, <1>4, <2>1 DEF OnlyTouches, Order
  <2> QED
    BY <1>1, <1>2, <1>3, <2>1, <2>2, EndsWith DEF Known, o
<1>5. CASE UNCHANGED orders
  BY <1>1, <1>2, <1>3, <1>5, EndsWith DEF OnlyTouches, o
<1> QED
  BY <1>1, <1>4, <1>5

LEMMA ApplyCancelOK ==
    ASSUME IInv, ApplyCancel
    PROVE  IInv'
<1> DEFINE o == Pending("cancels").order
<1>1. /\ task["cancels"].pc = "Canceled" /\ Resume("cancels")
      /\ UNCHANGED <<proposals, approvals, clientMap, venueMap, idem, submitCmds,
                     cancelCmds, log, inbox, venue, sent, redelivered>>
      /\ IF Transitions(orders[o].state, "CANCELLED") THEN orders' = [orders EXCEPT ![o].state = "CANCELLED"]
         ELSE UNCHANGED orders
  BY DEF ApplyCancel, SetState, riskVars, cmdVars, venueVars
<1>2. "cancels" \in Topics /\ "cancels" \in Tasks /\ Publishing("cancels")
  BY <1>1 DEF Topics, Tasks, Publishing, EventTypes
<1>3. /\ o \in DOMAIN orders /\ orders \in [DOMAIN orders -> Order] /\ orders[o] \in Order
      /\ orders[o].state # "PENDING_SUBMIT" /\ orders[o].filled <= Size
      /\ orders[o].state = "FILLED" <=> orders[o].filled = Size
  BY <1>2 DEF IInv, WorkOK, TasksOK, TypeOK, VenueOK, FillsOK, FilledWithinSize,
              FilledIffComplete
<1> HIDE DEF o
<1>4. CASE /\ Transitions(orders[o].state, "CANCELLED")
           /\ orders' = [orders EXCEPT ![o].state = "CANCELLED"]
  <2>1. orders[o].state \in {"ACKED", "PARTIALLY_FILLED", "CANCELLED"}
    BY <1>3, <1>4 DEF Transitions, CanTransition, ValidTransitions
  <2>2. "CANCELLED" \in OrderStates
    BY DEF OrderStates
  <2>3. /\ OnlyTouches(o) /\ orders'[o].state = "CANCELLED"
        /\ orders'[o].filled = orders[o].filled
    BY <1>3, <1>4, <2>2 DEF OnlyTouches, Order
  <2> QED
    BY <1>1, <1>2, <1>3, <2>1, <2>3, EndsWith DEF Known, o
<1>5. CASE UNCHANGED orders
  BY <1>1, <1>2, <1>3, <1>5, EndsWith DEF OnlyTouches, o
<1> QED
  BY <1>1, <1>4, <1>5

LEMMA ApplyFillOK ==
    ASSUME IInv, ApplyFill
    PROVE  IInv'
<1> DEFINE o == Pending("fills").order
           n == Pending("fills").size
           s == StateAfterFill(orders[o], n)
<1>1. /\ task["fills"].pc = "Fill" /\ Resume("fills")
      /\ UNCHANGED <<proposals, approvals, clientMap, venueMap, idem, submitCmds,
                     cancelCmds, log, inbox, venue, sent, redelivered>>
      /\ IF Transitions(orders[o].state, s)
           THEN orders' = [orders EXCEPT ![o].state = s, ![o].filled = orders[o].filled + n]
           ELSE UNCHANGED orders
  BY DEF ApplyFill, FilledAfter, riskVars, cmdVars, venueVars
<1>2. "fills" \in Topics /\ "fills" \in Tasks /\ Publishing("fills")
  BY <1>1 DEF Topics, Tasks, Publishing, EventTypes
<1>3. /\ o \in DOMAIN orders /\ orders \in [DOMAIN orders -> Order] /\ orders[o] \in Order
      /\ orders[o].state # "PENDING_SUBMIT" /\ orders[o].filled <= Size
      /\ orders[o].state = "FILLED" <=> orders[o].filled = Size
      /\ orders[o].filled \in Nat /\ orders[o].filled + n <= Size
  BY <1>1, <1>2 DEF IInv, WorkOK, TasksOK, TypeOK, VenueOK, FillsOK, FilledWithinSize,
              FilledIffComplete, Order
<1>4. n \in 0..Size
  <2>1. task["fills"].at \in 1..Len(log) /\ log \in Seq(Event)
    BY <1>2 DEF IInv, WorkOK, TasksOK, TypeOK
  <2>2. log[task["fills"].at] \in Event
    BY <2>1
  <2> QED
    BY <2>2 DEF Pending, Event
<1>5. CASE /\ Transitions(orders[o].state, s)
           /\ orders' = [orders EXCEPT ![o].state = s, ![o].filled = orders[o].filled + n]
  <2>1. s = IF orders[o].filled + n >= Size THEN "FILLED"
            ELSE IF orders[o].state = "ACKED" THEN "PARTIALLY_FILLED"
            ELSE orders[o].state
    BY DEF StateAfterFill, FilledAfter
  <2>2. s \in OrderStates /\ orders[o].filled + n \in Nat
    BY <1>3, <1>4, <2>1, SizeAssumption DEF OrderStates, Order
  <2> HIDE DEF o, n, s
  <2>3. /\ OnlyTouches(o) /\ orders'[o].state = s
        /\ orders'[o].filled = orders[o].filled + n
    BY <1>3, <1>5, <2>2 DEF OnlyTouches, Order
  <2>4. s # "PENDING_SUBMIT"
    BY <1>3, <2>1
  <2>5. s = "FILLED" <=> orders[o].filled + n = Size
    BY <1>3, <1>4, <2>1, SizeAssumption
  <2>6. s \in Known => orders[o].state \in Known
    BY <1>5, <2>1 DEF Known, Transitions, CanTransition, ValidTransitions
  <2> QED
    BY <1>1, <1>2, <1>3, <2>3, <2>4, <2>5, <2>6, EndsWith DEF o
<1> HIDE DEF o
<1>6. CASE UNCHANGED orders
  BY <1>1, <1>2, <1>3, <1>6, EndsWith DEF OnlyTouches, o
<1> QED
  BY <1>1, <1>5, <1>6

(* The venue and the user stream touch nothing of the OMS but its queues.  *)
LEMMA DeliverOK ==
    ASSUME IInv, NEW t \in Topics, NEW m \in Message, idem[m.client] # NoOrder,
           Deliver(t, m), redelivered' \in 0..MaxRedeliveries,
           venue' \in [ClientIds -> [st : VenueStates, matched : 0..Size]],
           \A c \in ClientIds : venue'[c].st # "none" => idem[c] # NoOrder,
           UNCHANGED <<proposals, approvals, orders, clientMap, venueMap, idem, submitCmds,
                       cancelCmds, log, task>>
    PROVE  IInv'
<1>1. /\ inbox \in [Topics -> Seq(Message)] /\ sent \in [Topics -> SUBSET Message]
      /\ inbox' = [inbox EXCEPT ![t] = Append(inbox[t], m)]
      /\ sent' = [sent EXCEPT ![t] = sent[t] \cup {m}]
  BY DEF IInv, TypeOK, Deliver
<1>2. /\ inbox' \in [Topics -> Seq(Message)] /\ sent' \in [Topics -> SUBSET Message]
      /\ inbox[t] \in Seq(Message)
  BY <1>1
<1>3. \A u \in Topics : \A i \in 1..Len(inbox'[u]) : idem[inbox'[u][i].client] # NoOrder
  <2> SUFFICES ASSUME NEW u \in Topics, NEW i \in 1..Len(inbox'[u])
               PROVE  idem[inbox'[u][i].client] # NoOrder
    OBVIOUS
  <2>1. CASE u = t
    <3>1. inbox'[u] = Append(inbox[t], m)
      BY <1>1, <2>1
    <3>2. inbox'[u][i] = m \/ (i \in 1..Len(inbox[t]) /\ inbox'[u][i] = inbox[t][i])
      BY <1>2, <3>1
    <3> QED
      BY <3>2 DEF IInv, MessagesOK
  <2>2. CASE u # t
    <3>1. inbox'[u] = inbox[u]
      BY <1>1, <2>2
    <3> QED
      BY <3>1 DEF IInv, MessagesOK
  <2> QED
    BY <2>1, <2>2
<1>4. \A u \in Topics : \A x \in sent'[u] : idem[x.client] # NoOrder
  BY <1>1 DEF IInv, MessagesOK
<1>5. MessagesOK' /\ TypeOK'
  BY <1>2, <1>3, <1>4 DEF IInv, MessagesOK, TypeOK
<1>6. WorkOK'
  BY DEF IInv, WorkOK, TasksOK, MapsOK, UnsubmittedOK, CommandsOK, Publishing, Pending
<1>7. FillsOK' /\ VenueOK'
  BY DEF IInv, FillsOK, VenueOK, FilledWithinSize, FilledIffComplete, VenueIdsIndexed, Pending
<1> QED
  BY <1>5, <1>6, <1>7 DEF IInv

LEMMA VenueStepOK ==
    ASSUME IInv, NEW c \in ClientIds, idem[c] # NoOrder, NEW st \in VenueStates,
           NEW n \in 0..Size, venue[c].matched + n <= Size, NEW t \in Topics,
           VenueStep(c, st, n, t)
    PROVE  IInv'
<1>1. Msg(c, n) \in Message /\ Msg(c, n).client = c
  BY DEF Msg, Message
<1>2. /\ Deliver(t, Msg(c, n)) /\ redelivered' = redelivered
      /\ venue' = [venue EXCEPT ![c] = [st |-> st, matched |-> venue[c].matched + n]]
      /\ UNCHANGED <<proposals, approvals, orders, clientMap, venueMap, idem, submitCmds,
                     cancelCmds, log, task>>
  BY DEF VenueStep, riskVars, storeVars, cmdVars
<1>3. venue[c].matched + n \in 0..Size
  BY SizeAssumption DEF IInv, TypeOK
<1>4. /\ venue' \in [ClientIds -> [st : VenueStates, matched : 0..Size]]
      /\ \A d \in ClientIds : venue'[d].st # "none" => idem[d] # NoOrder
  BY <1>2, <1>3 DEF IInv, TypeOK, MessagesOK
<1>5. redelivered' \in 0..MaxRedeliveries
  BY <1>2 DEF IInv, TypeOK
<1> QED
  BY <1>1, <1>2, <1>4, <1>5, DeliverOK

LEMMA EnvironmentOK ==
    ASSUME IInv, Environment
    PROVE  IInv'
<1>1. ASSUME NEW c \in ClientIds, Approve(c)
      PROVE  IInv'
  BY <1>1, ApproveOK
<1>2. \A c \in ClientIds : Submitted(c) => idem[c] # NoOrder
  BY DEF Submitted, IInv, MessagesOK
<1>3. \A c \in ClientIds : venue[c].matched \in 0..Size
                           /\ (venue[c].st = "open" => idem[c] # NoOrder)
  BY DEF IInv, TypeOK, MessagesOK
<1>4. Size \in Nat \ {0} /\ 0 \in 0..Size
  BY SizeAssumption
<1>5. ASSUME NEW c \in ClientIds, VenuePlace(c)
      PROVE  IInv'
  <2>1. VenueStep(c, "open", 0, "acks") /\ idem[c] # NoOrder /\ venue[c].matched + 0 <= Size
    BY <1>2, <1>3, <1>4, <1>5 DEF VenuePlace
  <2>2. "open" \in VenueStates /\ "acks" \in Topics
    BY DEF VenueStates, Topics
  <2> QED
    BY <1>4, <2>1, <2>2, VenueStepOK
<1>6. ASSUME NEW c \in ClientIds, VenueRefuse(c)
      PROVE  IInv'
  <2>1. VenueStep(c, "rejected", 0, "rejects") /\ idem[c] # NoOrder
        /\ venue[c].matched + 0 <= Size
    BY <1>2, <1>3, <1>4, <1>6 DEF VenueRefuse
  <2>2. "rejected" \in VenueStates /\ "rejects" \in Topics
    BY DEF VenueStates, Topics
  <2> QED
    BY <1>4, <2>1, <2>2, VenueStepOK
<1>7. ASSUME NEW c \in ClientIds, VenueCancel(c)
      PROVE  IInv'
  <2>1. VenueStep(c, "closed", 0, "cancels") /\ idem[c] # NoOrder
        /\ venue[c].matched + 0 <= Size
    BY <1>3, <1>4, <1>7 DEF VenueCancel
  <2>2. "closed" \in VenueStates /\ "cancels" \in Topics
    BY DEF VenueStates, Topics
  <2> QED
    BY <1>4, <2>1, <2>2, VenueStepOK
<1>8. ASSUME NEW c \in ClientIds, NEW n \in 1..Size, VenueMatch(c, n)
      PROVE  IInv'
  <2>1. /\ VenueStep(c, IF venue[c].matched + n = Size THEN "closed" ELSE "open", n, "fills")
        /\ idem[c] # NoOrder /\ venue[c].matched + n <= Size
    BY <1>3, <1>8 DEF VenueMatch
  <2>2. /\ (IF venue[c].matched + n = Size THEN "closed" ELSE "open") \in VenueStates
        /\ "fills" \in Topics /\ n \in 0..Size
    BY <1>4 DEF VenueStates, Topics
  <2> QED
    BY <2>1, <2>2, VenueStepOK
<1>9. ASSUME NEW t \in Topics, NEW m \in sent[t], Redeliver(t, m)
      PROVE  IInv'
  <2>1. /\ redelivered < MaxRedeliveries /\ redelivered' = redelivered + 1 /\ Deliver(t, m)
        /\ UNCHANGED <<proposals, approvals, orders, clientMap, venueMap, idem, submitCmds,
                       cancelCmds, log, task, venue>>
    BY <1>9 DEF Redeliver, riskVars, storeVars, cmdVars
  <2>2. m \in Message /\ idem[m.client] # NoOrder
    BY DEF IInv, TypeOK, MessagesOK
  <2>3. redelivered' \in 0..MaxRedeliveries
    BY <2>1, BoundsAssumption DEF IInv, TypeOK
  <2>4. /\ venue' \in [ClientIds -> [st : VenueStates, matched : 0..Size]]
        /\ \A c \in ClientIds : venue'[c].st # "none" => idem[c] # NoOrder
    BY <2>1 DEF IInv, TypeOK, MessagesOK
  <2> QED
    BY <2>1, <2>2, <2>3, <2>4, DeliverOK
<1> QED
  BY <1>1, <1>5, <1>6, <1>7, <1>8, <1>9 DEF Environment

-----------------------------------------------------------------------------
(* The theorems. *)

LEMMA InitIInv == Init => IInv
<1> SUFFICES ASSUME Init PROVE IInv
  OBVIOUS
<1>1. /\ orders = <<>> /\ submitCmds = <<>> /\ log = <<>> /\ cancelCmds = <<>>
      /\ proposals = <<>> /\ DOMAIN orders = {}
      /\ \A t \in Topics : inbox[t] = <<>> /\ sent[t] = {}
      /\ \A t \in Tasks : task[t].pc = "idle"
      /\ "proposals" \in Tasks /\ "fills" \in Tasks
  BY DEF Init, Idle, Tasks, Topics
<1>2. orders \in [DOMAIN orders -> Order] /\ DOMAIN orders \subseteq OrderIds
  BY <1>1
<1>3. /\ task \in [Tasks -> [pc : PCs, at : Nat]]
      /\ inbox \in [Topics -> Seq(Message)] /\ sent \in [Topics -> SUBSET Message]
      /\ venue \in [ClientIds -> [st : VenueStates, matched : 0..Size]]
  BY SizeAssumption DEF Init, Idle, PCs, VenueStates
<1>4. TypeOK
  BY <1>1, <1>2, <1>3, BoundsAssumption DEF Init, TypeOK
<1>5. WorkOK
  BY <1>1 DEF Init, WorkOK, TasksOK, MapsOK, UnsubmittedOK, CommandsOK, Publishing,
              EventTypes, Tasks
<1>6. MessagesOK
  BY <1>1 DEF Init, MessagesOK
<1>7. FillsOK /\ VenueOK
  BY <1>1 DEF Init, FillsOK, VenueOK, FilledWithinSize, FilledIffComplete, VenueIdsIndexed
<1> QED
  BY <1>4, <1>5, <1>6, <1>7 DEF IInv

LEMMA NextIInv == IInv /\ [Next]_vars => IInv'
<1> SUFFICES ASSUME IInv, [Next]_vars PROVE IInv'
  OBVIOUS
<1>1. CASE UNCHANGED vars
  <2>1. TypeOK' /\ WorkOK' /\ MessagesOK'
    BY <1>1 DEF vars, IInv, TypeOK, WorkOK, TasksOK, MapsOK, UnsubmittedOK, CommandsOK,
                Publishing, Pending, MessagesOK
  <2>2. FillsOK' /\ VenueOK'
    BY <1>1 DEF vars, IInv, FillsOK, VenueOK, FilledWithinSize, FilledIffComplete,
                VenueIdsIndexed, Pending
  <2> QED
    BY <2>1, <2>2 DEF IInv
<1>2. CASE ProposalsTask
  BY <1>2, CreateOrderOK, SendSubmitOK, ConfirmSubmittedOK DEF ProposalsTask
<1>3. CASE AcksTask
  BY <1>3, ReceiveAckOK, ApplyAckOK DEF AcksTask
<1>4. CASE RejectsTask
  BY <1>4, ReceiveRejectOK, ApplyRejectOK DEF RejectsTask
<1>5. CASE FillsTask
  BY <1>5, ReceiveFillOK, ApplyFillOK DEF FillsTask
<1>6. CASE CancelsTask
  BY <1>6, ReceiveCancelOK, SendCancelOK, ApplyCancelOK DEF CancelsTask
<1>7. CASE Environment
  BY <1>7, EnvironmentOK
<1> QED
  BY <1>1, <1>2, <1>3, <1>4, <1>5, <1>6, <1>7 DEF Next, System

(* The inductive invariant holds in every reachable state of the OMS: who  *)
(* works on which order, what the maps of the store say, and how much of   *)
(* an order the suspended fill handler may still book.                     *)
THEOREM Invariance == Spec => []IInv
  BY InitIInv, NextIInv, PTL DEF Spec

(* The variables of the OMS keep their types. *)
THEOREM TypesAreOK == Spec => []TypeOK
<1>1. IInv => TypeOK
  BY DEF IInv
<1> QED
  BY <1>1, Invariance, PTL

(* However often an intent is approved, and wherever create_order is       *)
(* suspended, it leads to one order and one submit command.                *)
THEOREM SubmitsOnce == Spec => []OneOrderPerClientId
<1>1. IInv => OneOrderPerClientId
  BY DEF IInv, WorkOK, MapsOK, CommandsOK, OneOrderPerClientId
<1> QED
  BY <1>1, Invariance, PTL

(* No fill, late, repeated or checked against an order that has changed    *)
(* since, takes an order beyond its size.                                  *)
THEOREM NeverOverfilled == Spec => []FilledWithinSize
<1>1. IInv => FilledWithinSize
  BY DEF IInv, FillsOK
<1> QED
  BY <1>1, Invariance, PTL

(* FILLED and "nothing remains" are the same thing, whatever order acks,   *)
(* fills, rejects and cancels are applied in.                              *)
THEOREM FilledMeansComplete == Spec => []FilledIffComplete
<1>1. IInv => FilledIffComplete
  BY DEF IInv, FillsOK
<1> QED
  BY <1>1, Invariance, PTL

(* The order of every venue id the OMS has learnt is found by it, and an   *)
(* order the venue works on is found.                                      *)
THEOREM VenueIdsFindOrders == Spec => []VenueIdsIndexed
<1>1. IInv => VenueIdsIndexed
  BY DEF IInv, VenueOK
<1> QED
  BY <1>1, Invariance, PTL

-----------------------------------------------------------------------------
(* What a step may do to an order, and what follows from it: a closed      *)
(* order stays closed, every ack finds its order, and the OMS implements   *)
(* OrderLifecycle.                                                         *)

(* The order o stays in its state or keeps working while some of it is     *)
(* filled, or it is filled completely, or it is closed.  A working order   *)
(* never goes back to what it was before it was acked.                     *)
Works(o) ==
    /\ \/ orders'[o].state = orders[o].state
       \/ /\ orders[o].state \notin TerminalStates /\ orders'[o].state \notin TerminalStates
          /\ orders'[o].state # "NEW"
          /\ orders'[o].state = "SUBMITTED" => orders[o].state = "NEW"
    /\ \E n \in 0..Size : /\ orders'[o].filled = orders[o].filled + n
                          /\ n = 0 \/ orders[o].filled + n < Size
Completes(o) ==
    /\ orders[o].state \notin TerminalStates /\ orders[o].filled < Size
    /\ orders'[o].state = "FILLED" /\ orders'[o].filled = Size
Closes(o) ==
    /\ orders[o].state \notin TerminalStates
    /\ orders'[o].state \in {"CANCELLED", "REJECTED"}
    /\ orders'[o].filled = orders[o].filled

Moves(o) == /\ OnlyTouches(o) /\ clientMap' = clientMap
            /\ Works(o) \/ Completes(o) \/ Closes(o)

(* A new order appears for a client id that has none. *)
Opens(c, o) ==
    /\ clientMap[c] = NoOrder /\ clientMap' = [clientMap EXCEPT ![c] = o]
    /\ DOMAIN orders' = DOMAIN orders \cup {o}
    /\ orders'[o].state = "NEW" /\ orders'[o].filled = 0 /\ orders'[o].client = c
    /\ \A p \in DOMAIN orders : orders'[p] = orders[p]

StepsOK == \/ UNCHANGED <<orders, clientMap>>
           \/ \E o \in DOMAIN orders : Moves(o)
           \/ \E c \in ClientIds, o \in OrderIds \ DOMAIN orders : Opens(c, o)

(* A change of an order's state alone. *)
LEMMA SetsState ==
    ASSUME IInv, NEW o \in DOMAIN orders, NEW s \in OrderStates, SetState(o, s)
    PROVE  OnlyTouches(o) /\ orders'[o].state = s /\ orders'[o].filled = orders[o].filled
<1>1. orders \in [DOMAIN orders -> Order] /\ orders[o] \in Order
  BY DEF IInv, TypeOK
<1>2. orders' = [orders EXCEPT ![o].state = s]
  BY DEF SetState
<1> QED
  BY <1>1, <1>2 DEF OnlyTouches, Order

(* An ack keeps its order working. *)
LEMMA AckMoves ==
    ASSUME IInv, NEW o \in DOMAIN orders, clientMap' = clientMap,
           Transitions(orders[o].state, "ACKED"), Acked(orders[o].client, o)
    PROVE  Moves(o)
<1>1. OnlyTouches(o) /\ orders'[o].filled = orders[o].filled
  BY AckedLemma DEF IInv
<1>2. orders[o].state \notin TerminalStates
  BY DEF Transitions, CanTransition, ValidTransitions, TerminalStates
<1>3. orders'[o].state = "ACKED"
  <2>1. orders \in [DOMAIN orders -> Order] /\ orders[o] \in Order
    BY DEF IInv, TypeOK
  <2>2. orders' = [orders EXCEPT ![o].state = "ACKED", ![o].venue = TRUE]
    BY DEF Acked
  <2> QED
    BY <2>1, <2>2 DEF Order
<1>4. orders[o].filled \in Nat /\ 0 \in 0..Size
  BY SizeAssumption DEF IInv, TypeOK, Order
<1>5. Works(o)
  BY <1>1, <1>2, <1>3, <1>4 DEF Works, TerminalStates
<1> QED
  BY <1>1, <1>5 DEF Moves

LEMMA CreateOrderOpens ==
    ASSUME IInv, CreateOrder
    PROVE  StepsOK
<1> DEFINE c == Head(proposals)
           new == [client |-> c, state |-> "NEW", filled |-> 0, venue |-> FALSE]
<1>1. c \in ClientIds /\ task["proposals"].pc = "idle"
  BY DEF CreateOrder, IInv, TypeOK
<1>2. ASSUME NEW o \in OrderIds \ DOMAIN orders, ~IsDuplicate(c),
             orders' = [x \in DOMAIN orders \cup {o} |-> IF x = o THEN new ELSE orders[x]],
             clientMap' = [clientMap EXCEPT ![c] = o]
      PROVE  Opens(c, o)
  <2>1. clientMap[c] = NoOrder
    BY <1>1, <1>2 DEF IInv, WorkOK, MapsOK, UnsubmittedOK, IsDuplicate
  <2> QED
    BY <1>2, <2>1 DEF Opens
<1>3. CASE UNCHANGED storeVars
  BY <1>3 DEF StepsOK, storeVars
<1> QED
  BY <1>1, <1>2, <1>3 DEF CreateOrder, StepsOK

LEMMA SendSubmitMoves ==
    ASSUME IInv, SendSubmit
    PROVE  StepsOK
<1> DEFINE o == Pending("proposals").order
<1>1. task["proposals"].pc = "Created" /\ SetState(o, "SUBMITTED") /\ clientMap' = clientMap
  BY DEF SendSubmit
<1>2. "proposals" \in Tasks /\ Publishing("proposals")
  BY <1>1 DEF Tasks, Publishing, EventTypes
<1>3. o \in DOMAIN orders /\ orders[o].state = "NEW" /\ orders[o].filled = 0
  BY <1>1, <1>2 DEF IInv, WorkOK, TasksOK, UnsubmittedOK
<1> HIDE DEF o
<1>4. OnlyTouches(o) /\ orders'[o].state = "SUBMITTED" /\ orders'[o].filled = 0
  BY <1>1, <1>3, SetsState DEF OrderStates
<1>5. Works(o)
  BY <1>3, <1>4, SizeAssumption DEF Works, TerminalStates
<1> QED
  BY <1>1, <1>3, <1>4, <1>5 DEF Moves, StepsOK

LEMMA ReceiveAckMoves ==
    ASSUME IInv, ReceiveAck
    PROVE  StepsOK
<1> DEFINE m == Head(inbox["acks"])
           o == Lookup("acks", m)
<1>1. Receive("acks") /\ "acks" \in Topics /\ clientMap' = clientMap
  BY DEF ReceiveAck, Receive, Topics
<1>2. CASE Drop
  BY <1>1, <1>2 DEF Drop, StepsOK
<1>3. CASE o # NoOrder /\ Transitions(orders[o].state, "ACKED") /\ Acked(m.client, o)
  <2>1. m \in Message
    BY <1>1, ReceiveLemma DEF IInv
  <2>2. o \in DOMAIN orders /\ orders[o].client = m.client
    BY <1>1, <1>3, <2>1, LookupLemma DEF IInv
  <2> HIDE DEF o, m
  <2> QED
    BY <1>1, <1>3, <2>2, AckMoves DEF StepsOK
<1> QED
  BY <1>2, <1>3 DEF ReceiveAck

LEMMA ApplyAckMoves ==
    ASSUME IInv, ApplyAck
    PROVE  StepsOK
<1> DEFINE o == Pending("acks").order
<1>1. "acks" \in Tasks /\ Publishing("acks") /\ clientMap' = clientMap
  BY DEF ApplyAck, Tasks, Topics, Publishing, EventTypes
<1>2. o \in DOMAIN orders /\ Pending("acks").client = orders[o].client
  BY <1>1 DEF IInv, WorkOK, TasksOK
<1>3. CASE Transitions(orders[o].state, "ACKED") /\ Acked(Pending("acks").client, o)
  BY <1>1, <1>2, <1>3, AckMoves DEF StepsOK
<1>4. CASE UNCHANGED <<orders, venueMap>>
  BY <1>1, <1>4 DEF StepsOK
<1> QED
  BY <1>3, <1>4 DEF ApplyAck

LEMMA ApplyRejectMoves ==
    ASSUME IInv, ApplyReject
    PROVE  StepsOK
<1> DEFINE o == Pending("rejects").order
<1>1. "rejects" \in Tasks /\ Publishing("rejects") /\ clientMap' = clientMap
  BY DEF ApplyReject, Tasks, Topics, Publishing, EventTypes
<1>2. o \in DOMAIN orders /\ orders[o].filled \in Nat
  BY <1>1 DEF IInv, WorkOK, TasksOK, TypeOK, Order
<1>3. CASE Rejectable(orders[o].state) /\ SetState(o, "REJECTED")
  <2> HIDE DEF o
  <2>1. /\ OnlyTouches(o) /\ orders'[o].state = "REJECTED"
        /\ orders'[o].filled = orders[o].filled
    BY <1>2, <1>3, SetsState DEF OrderStates
  <2>2. Works(o) \/ Closes(o)
    BY <1>2, <1>3, <2>1, SizeAssumption DEF Works, Closes, Rejectable, TerminalStates
  <2> QED
    BY <1>1, <1>2, <2>1, <2>2 DEF Moves, StepsOK
<1>4. CASE UNCHANGED orders
  BY <1>1, <1>4 DEF StepsOK
<1> QED
  BY <1>3, <1>4 DEF ApplyReject

LEMMA ApplyCancelMoves ==
    ASSUME IInv, ApplyCancel
    PROVE  StepsOK
<1> DEFINE o == Pending("cancels").order
<1>1. "cancels" \in Tasks /\ Publishing("cancels") /\ clientMap' = clientMap
  BY DEF ApplyCancel, Tasks, Topics, Publishing, EventTypes
<1>2. o \in DOMAIN orders /\ orders[o].filled \in Nat
  BY <1>1 DEF IInv, WorkOK, TasksOK, TypeOK, Order
<1>3. CASE Transitions(orders[o].state, "CANCELLED") /\ SetState(o, "CANCELLED")
  <2> HIDE DEF o
  <2>1. /\ OnlyTouches(o) /\ orders'[o].state = "CANCELLED"
        /\ orders'[o].filled = orders[o].filled
    BY <1>2, <1>3, SetsState DEF OrderStates
  <2>2. Works(o) \/ Closes(o)
    BY <1>2, <1>3, <2>1, SizeAssumption
       DEF Works, Closes, Transitions, CanTransition, ValidTransitions, TerminalStates
  <2> QED
    BY <1>1, <1>2, <2>1, <2>2 DEF Moves, StepsOK
<1>4. CASE UNCHANGED orders
  BY <1>1, <1>4 DEF StepsOK
<1> QED
  BY <1>3, <1>4 DEF ApplyCancel

LEMMA ApplyFillMoves ==
    ASSUME IInv, ApplyFill
    PROVE  StepsOK
<1> DEFINE o == Pending("fills").order
           n == Pending("fills").size
           s == StateAfterFill(orders[o], n)
<1>1. /\ "fills" \in Tasks /\ Publishing("fills") /\ clientMap' = clientMap
      /\ task["fills"].pc = "Fill"
  BY DEF ApplyFill, Tasks, Topics, Publishing, EventTypes
<1>2. /\ o \in DOMAIN orders /\ orders \in [DOMAIN orders -> Order] /\ orders[o] \in Order
      /\ orders[o].filled \in Nat /\ orders[o].filled + n <= Size
      /\ orders[o].state = "FILLED" <=> orders[o].filled = Size
  BY <1>1 DEF IInv, WorkOK, TasksOK, TypeOK, Order, FillsOK, FilledIffComplete
<1>3. n \in 0..Size
  <2>1. task["fills"].at \in 1..Len(log) /\ log \in Seq(Event)
    BY <1>1 DEF IInv, WorkOK, TasksOK, TypeOK
  <2>2. log[task["fills"].at] \in Event
    BY <2>1
  <2> QED
    BY <2>2 DEF Pending, Event
<1>4. CASE /\ Transitions(orders[o].state, s)
           /\ orders' = [orders EXCEPT ![o].state = s, ![o].filled = orders[o].filled + n]
  <2>1. s = IF orders[o].filled + n >= Size THEN "FILLED"
            ELSE IF orders[o].state = "ACKED" THEN "PARTIALLY_FILLED"
            ELSE orders[o].state
    BY DEF StateAfterFill, FilledAfter
  <2>2. s \in OrderStates /\ orders[o].filled + n \in Nat
    BY <1>2, <1>3, <2>1, SizeAssumption DEF OrderStates, Order
  <2> HIDE DEF o, n, s
  <2>3. /\ OnlyTouches(o) /\ orders'[o].state = s
        /\ orders'[o].filled = orders[o].filled + n
    BY <1>2, <1>4, <2>2 DEF OnlyTouches, Order
  <2>4. CASE orders[o].filled = Size
    <3>1. n = 0 /\ s = "FILLED" /\ orders[o].state = "FILLED"
      BY <1>2, <1>3, <2>1, <2>4, SizeAssumption
    <3> QED
      BY <1>1, <1>2, <1>3, <2>3, <3>1 DEF Works, Moves, StepsOK
  <2>5. CASE orders[o].filled < Size /\ orders[o].filled + n = Size
    <3>1. s = "FILLED" /\ orders[o].state # "FILLED"
      BY <1>2, <2>1, <2>5, SizeAssumption
    <3>2. orders[o].state \notin TerminalStates
      BY <1>4, <3>1 DEF Transitions, CanTransition, ValidTransitions, TerminalStates
    <3> QED
      BY <1>1, <1>2, <2>3, <2>5, <3>1, <3>2 DEF Completes, Moves, StepsOK
  <2>6. CASE orders[o].filled + n < Size
    <3>1. s = IF orders[o].state = "ACKED" THEN "PARTIALLY_FILLED" ELSE orders[o].state
      BY <1>2, <1>3, <2>1, <2>6, SizeAssumption
    <3>2. Works(o)
      BY <1>3, <2>3, <2>6, <3>1 DEF Works, TerminalStates
    <3> QED
      BY <1>1, <1>2, <2>3, <3>2 DEF Moves, StepsOK
  <2> QED
    BY <1>2, <1>3, <2>4, <2>5, <2>6, SizeAssumption
<1>5. CASE UNCHANGED orders
  BY <1>1, <1>5 DEF StepsOK
<1> QED
  BY <1>4, <1>5 DEF ApplyFill, FilledAfter

(* Whatever the OMS and its environment do, at most one order moves or one *)
(* is opened.                                                              *)
LEMMA EveryStepOK == IInv /\ [Next]_vars => StepsOK
<1> SUFFICES ASSUME IInv, [Next]_vars PROVE StepsOK
  OBVIOUS
<1>1. CASE UNCHANGED vars
  BY <1>1 DEF vars, StepsOK
<1>2. CASE ProposalsTask
  <2>1. CASE ConfirmSubmitted
    BY <2>1 DEF ConfirmSubmitted, storeVars, StepsOK
  <2> QED
    BY <1>2, <2>1, CreateOrderOpens, SendSubmitMoves DEF ProposalsTask
<1>3. CASE AcksTask
  BY <1>3, ReceiveAckMoves, ApplyAckMoves DEF AcksTask
<1>4. CASE RejectsTask
  <2>1. CASE ReceiveReject
    BY <2>1 DEF ReceiveReject, Receive, Drop, StepsOK
  <2> QED
    BY <1>4, <2>1, ApplyRejectMoves DEF RejectsTask
<1>5. CASE FillsTask
  <2>1. CASE ReceiveFill
    BY <2>1 DEF ReceiveFill, Receive, Drop, StepsOK
  <2> QED
    BY <1>5, <2>1, ApplyFillMoves DEF FillsTask
<1>6. CASE CancelsTask
  <2>1. CASE ReceiveCancel
    BY <2>1 DEF ReceiveCancel, Receive, Drop, StepsOK
  <2>2. CASE SendCancel
    BY <2>2 DEF SendCancel, storeVars, StepsOK
  <2> QED
    BY <1>6, <2>1, <2>2, ApplyCancelMoves DEF CancelsTask
<1>7. CASE Environment
  BY <1>7 DEF Environment, Approve, VenuePlace, VenueRefuse, VenueMatch, VenueCancel,
              VenueStep, Redeliver, storeVars, StepsOK
<1> QED
  BY <1>1, <1>2, <1>3, <1>4, <1>5, <1>6, <1>7 DEF Next, System

-----------------------------------------------------------------------------
(* A filled, cancelled or rejected order is never reopened nor closed in   *)
(* another way, whichever handlers were suspended when it was closed.      *)
THEOREM TerminalStays == Spec => TerminalIsFinal
<1> DEFINE Stays == \A o \in DOMAIN orders :
                       orders[o].state \in TerminalStates => orders'[o].state = orders[o].state
<1>1. ASSUME IInv, [Next]_vars PROVE [Stays]_vars
  <2>1. CASE UNCHANGED <<orders, clientMap>>
    BY <2>1
  <2>2. ASSUME NEW p \in DOMAIN orders, Moves(p) PROVE Stays
    BY <2>2 DEF Moves, OnlyTouches, Works, Completes, Closes, TerminalStates
  <2>3. ASSUME NEW c \in ClientIds, NEW p \in OrderIds \ DOMAIN orders, Opens(c, p)
        PROVE  Stays
    BY <2>3 DEF Opens
  <2> QED
    BY <1>1, <2>1, <2>2, <2>3, EveryStepOK DEF StepsOK
<1> QED
  BY <1>1, Invariance, PTL DEF Spec, TerminalIsFinal

-----------------------------------------------------------------------------
(* The OMS implements OrderLifecycle. *)

(* An order is seen under its client id alone. *)
LEMMA SeenUnderItsId ==
    ASSUME IInv, NEW o \in DOMAIN orders, Moves(o), NEW c, c = orders[o].client
    PROVE  /\ c \in ClientIds
           /\ \A d \in ClientIds \ {c} : Life(d)' = Life(d) /\ Done(d)' = Done(d)
           /\ Life(c) = IF orders[o].state \in TerminalStates THEN orders[o].state
                                                               ELSE "working"
           /\ Life(c)' = IF orders'[o].state \in TerminalStates THEN orders'[o].state
                                                                 ELSE "working"
           /\ Done(c) = orders[o].filled /\ Done(c)' = orders'[o].filled
<1>1. c \in ClientIds /\ clientMap[c] = o /\ o # NoOrder /\ clientMap' = clientMap
  BY NoOrderAssumption DEF IInv, TypeOK, Order, WorkOK, MapsOK, Moves
<1>2. \A d \in ClientIds \ {c} : clientMap[d] # NoOrder => orders'[clientMap[d]] = orders[clientMap[d]]
  BY DEF IInv, WorkOK, MapsOK, Moves, OnlyTouches
<1>3. \A d \in ClientIds \ {c} : Life(d)' = Life(d) /\ Done(d)' = Done(d)
  BY <1>1, <1>2 DEF Life, Done
<1>4. /\ Life(c) = IF orders[o].state \in TerminalStates THEN orders[o].state ELSE "working"
      /\ Done(c) = orders[o].filled
  BY <1>1 DEF Life, Done
<1>5. clientMap'[c] = o
  BY <1>1
<1>6. /\ Life(c)' = IF orders'[o].state \in TerminalStates THEN orders'[o].state ELSE "working"
      /\ Done(c)' = orders'[o].filled
  BY <1>1, <1>5 DEF Life, Done
<1> QED
  BY <1>1, <1>3, <1>4, <1>6

(* A move of an order is a step of its lifecycle, or none. *)
LEMMA MoveIsLifecycleStep ==
    ASSUME IInv, NEW o \in DOMAIN orders, Moves(o)
    PROVE  [Lifecycle!Next]_<<[c \in ClientIds |-> Life(c)], [c \in ClientIds |-> Done(c)]>>
<1> DEFINE c    == orders[o].client
           life == [d \in ClientIds |-> Life(d)]
           done == [d \in ClientIds |-> Done(d)]
<1>1. /\ c \in ClientIds
      /\ \A d \in ClientIds \ {c} : life'[d] = life[d] /\ done'[d] = done[d]
      /\ life[c] = IF orders[o].state \in TerminalStates THEN orders[o].state ELSE "working"
      /\ life'[c] = IF orders'[o].state \in TerminalStates THEN orders'[o].state ELSE "working"
      /\ done[c] = orders[o].filled /\ done'[c] = orders'[o].filled
  <2> HIDE DEF c
  <2>1. c = orders[o].client
    BY DEF c
  <2> QED
    BY <2>1, SeenUnderItsId
<1>2. life' = [life EXCEPT ![c] = life'[c]] /\ done' = [done EXCEPT ![c] = done'[c]]
  BY <1>1
<1>3. orders[o].filled \in Nat
  BY DEF IInv, TypeOK, Order
<1>4. CASE Works(o)
  <2>1. life'[c] = life[c]
    BY <1>1, <1>4 DEF Works
  <2>2. PICK n \in 0..Size : orders'[o].filled = orders[o].filled + n
                             /\ (n = 0 \/ orders[o].filled + n < Size)
    BY <1>4 DEF Works
  <2>3. life' = life
    BY <1>1, <2>1
  <2>4. CASE n = 0
    <3>1. done' = done
      BY <1>1, <1>3, <2>2, <2>4
    <3> QED
      BY <2>3, <3>1
  <2>5. CASE n # 0
    <3>1. n \in 1..Size /\ done[c] + n < Size /\ done'[c] = done[c] + n
      <4> HIDE DEF done, life, c
      <4> QED
        BY <1>1, <2>2, <2>5, SizeAssumption
    <3>2. life[c] # "none"
      BY <1>1 DEF TerminalStates
    <3>3. Lifecycle!Fill(c, n)
      BY <1>2, <2>3, <3>1, <3>2 DEF Lifecycle!Fill
    <3> QED
      BY <1>1, <3>1, <3>3 DEF Lifecycle!Next
  <2> QED
    BY <2>4, <2>5
<1>5. CASE Completes(o)
  <2>1. Lifecycle!Complete(c)
    BY <1>1, <1>2, <1>5 DEF Completes, TerminalStates, Lifecycle!Complete
  <2> QED
    BY <1>1, <2>1 DEF Lifecycle!Next
<1>6. CASE Closes(o)
  <2>1. done' = done
    BY <1>1, <1>6 DEF Closes
  <2>2. Lifecycle!Close(c, orders'[o].state)
    BY <1>1, <1>2, <1>6, <2>1 DEF Closes, TerminalStates, Lifecycle!Close
  <2> QED
    BY <1>1, <1>6, <2>2 DEF Lifecycle!Next, Closes
<1> QED
  BY <1>4, <1>5, <1>6 DEF Moves

LEMMA OpenIsLifecycleStep ==
    ASSUME IInv, NEW c \in ClientIds, NEW o \in OrderIds \ DOMAIN orders, Opens(c, o)
    PROVE  Lifecycle!Next
<1> DEFINE life == [d \in ClientIds |-> Life(d)]
           done == [d \in ClientIds |-> Done(d)]
<1>1. /\ clientMap[c] = NoOrder /\ clientMap'[c] = o /\ o # NoOrder
      /\ \A d \in ClientIds \ {c} : clientMap'[d] = clientMap[d]
  BY NoOrderAssumption DEF Opens, IInv, TypeOK
<1>2. life[c] = "none" /\ life'[c] = "working" /\ done[c] = 0 /\ done'[c] = 0
  BY <1>1 DEF Life, Done, Opens, TerminalStates
<1>3. \A d \in ClientIds \ {c} : life'[d] = life[d] /\ done'[d] = done[d]
  BY <1>1 DEF Life, Done, Opens, IInv, WorkOK, MapsOK
<1>4. life' = [life EXCEPT ![c] = "working"] /\ done' = done
  BY <1>2, <1>3
<1>5. Lifecycle!Open(c)
  BY <1>2, <1>4 DEF Lifecycle!Open
<1> QED
  BY <1>5 DEF Lifecycle!Next

(* Seen from outside, an intent leads to at most one order, which is       *)
(* filled up to its size or closed once and for all.                       *)
THEOREM Refinement == Spec => ImplementsLifecycle
<1> DEFINE life == [c \in ClientIds |-> Life(c)]
           done == [c \in ClientIds |-> Done(c)]
<1>1. Init => Lifecycle!Init
  BY DEF Init, Life, Done, Lifecycle!Init
<1>2. ASSUME IInv, [Next]_vars PROVE [Lifecycle!Next]_<<life, done>>
  <2>1. CASE UNCHANGED <<orders, clientMap>>
    BY <2>1 DEF Life, Done
  <2>2. ASSUME NEW o \in DOMAIN orders, Moves(o) PROVE [Lifecycle!Next]_<<life, done>>
    BY <1>2, <2>2, MoveIsLifecycleStep
  <2>3. ASSUME NEW c \in ClientIds, NEW o \in OrderIds \ DOMAIN orders, Opens(c, o)
        PROVE  [Lifecycle!Next]_<<life, done>>
    BY <1>2, <2>3, OpenIsLifecycleStep
  <2> QED
    BY <1>2, <2>1, <2>2, <2>3, EveryStepOK DEF StepsOK
<1> QED
  BY <1>1, <1>2, Invariance, PTL DEF Spec, ImplementsLifecycle, Lifecycle!Spec

-----------------------------------------------------------------------------
(* Induction up to a bound, with a set in the place of a predicate. *)

LEMMA InductionUpTo ==
    ASSUME NEW N \in Nat, NEW T, 0 \in T, \A n \in 0..N : n < N /\ n \in T => n + 1 \in T
    PROVE  0..N \subseteq T
<1> SUFFICES ASSUME (0..N) \ T # {} PROVE FALSE
  OBVIOUS
<1> DEFINE R == OpToRel(<, Nat)
<1>1. IsWellFoundedOn(R, Nat)
  BY NatLessThanWellFounded, Zenon
<1>2. \A x, y \in Nat : y < x => <<y, x>> \in R
  BY DEF OpToRel
<1>3. (0..N) \ T \subseteq Nat
  OBVIOUS
<1> HIDE DEF R
<1>4. PICK x \in (0..N) \ T : \A y \in (0..N) \ T : ~(<<y, x>> \in R)
  BY <1>1, <1>3, WFMin
<1>5. x # 0 /\ x - 1 \in 0..N /\ x - 1 < x /\ x - 1 < N /\ x = (x - 1) + 1
  OBVIOUS
<1> QED
  BY <1>2, <1>3, <1>4, <1>5

(* What is defined by its first value and its steps exists. *)
Iteration(f, S, b, m, G) ==
    /\ f \in [0..m -> S] /\ f[0] = b
    /\ \A n \in 1..m : f[n] = G[n][f[n - 1]]

LEMMA Iterates ==
    ASSUME NEW S, NEW b \in S, NEW N \in Nat, NEW G \in [1..N -> [S -> S]]
    PROVE  \E f : Iteration(f, S, b, N, G)
<1> DEFINE Is(f, m) == Iteration(f, S, b, m, G)
           T == {m \in 0..N : \E f : Is(f, m)}
<1>1. 0 \in T
  <2> DEFINE g == [n \in 0..0 |-> b]
  <2>1. Is(g, 0)
    BY DEF Iteration
  <2> HIDE DEF Is, g
  <2> QED
    BY <2>1
<1>2. ASSUME NEW m \in 0..N, m < N, m \in T PROVE m + 1 \in T
  <2>1. PICK f : Is(f, m)
    BY <1>2
  <2>2. m \in 0..m /\ m + 1 \in 1..N
    BY <1>2
  <2> DEFINE v == G[m + 1][f[m]]
             h == [n \in 0..(m + 1) |-> IF n = m + 1 THEN v ELSE f[n]]
  <2>3. v \in S
    BY <2>1, <2>2 DEF Iteration
  <2> HIDE DEF v
  <2>4. /\ h[m + 1] = v /\ \A n \in 0..m : h[n] = f[n]
        /\ h \in [0..(m + 1) -> S]
    BY <1>2, <2>1, <2>3 DEF Iteration
  <2> HIDE DEF h
  <2>5. ASSUME NEW n \in 1..(m + 1) PROVE h[n] = G[n][h[n - 1]]
    <3>1. CASE n = m + 1
      <4>1. h[n - 1] = f[m]
        BY <1>2, <2>2, <2>4, <3>1
      <4> QED
        BY <2>4, <3>1, <4>1 DEF v
    <3>2. CASE n # m + 1
      <4>1. n \in 1..m /\ n \in 0..m /\ n - 1 \in 0..m
        BY <1>2, <3>2
      <4> QED
        BY <2>1, <2>4, <4>1 DEF Iteration
    <3> QED
      BY <3>1, <3>2
  <2>6. h[0] = b
    BY <1>2, <2>1, <2>4 DEF Iteration
  <2>7. Is(h, m + 1)
    BY <2>4, <2>5, <2>6 DEF Iteration
  <2> HIDE DEF Is
  <2> QED
    BY <1>2, <2>7
<1> HIDE DEF T
<1>3. 0..N \subseteq T
  BY <1>1, <1>2, InductionUpTo
<1>4. N \in T
  BY <1>3
<1> QED
  BY <1>4 DEF T

-----------------------------------------------------------------------------
(* The events that are kept. *)

Keeps(w, events, lost) ==
    w = [n \in 0..Len(events) |->
            IF n = 0 THEN <<>>
            ELSE IF n \in lost THEN w[n - 1] ELSE Append(w[n - 1], events[n])]

LEMMA KeepsAt ==
    ASSUME NEW w, NEW events, NEW lost, Keeps(w, events, lost), NEW n \in 0..Len(events)
    PROVE  w[n] = IF n = 0 THEN <<>>
                  ELSE IF n \in lost THEN w[n - 1] ELSE Append(w[n - 1], events[n])
<1> DEFINE F(i) == IF i = 0 THEN <<>>
                   ELSE IF i \in lost THEN w[i - 1] ELSE Append(w[i - 1], events[i])
<1>1. w = [i \in 0..Len(events) |-> F(i)]
  BY DEF Keeps
<1> HIDE DEF F
<1>2. w[n] = F(n)
  BY <1>1
<1> QED
  BY <1>2 DEF F

LEMMA WithoutDef ==
    ASSUME NEW X, NEW events \in Seq(X), NEW lost
    PROVE  \E w : Keeps(w, events, lost) /\ Without(events, lost) = w[Len(events)]
<1> DEFINE N == Len(events)
           S == Seq(X)
           G == [n \in 1..N |-> [s \in S |-> IF n \in lost THEN s ELSE Append(s, events[n])]]
<1>1. N \in Nat /\ <<>> \in S /\ \A n \in 1..N : events[n] \in X
  OBVIOUS
<1>2. \A s \in S, n \in 1..N :
         G[n][s] = IF n \in lost THEN s ELSE Append(s, events[n])
  OBVIOUS
<1>3. G \in [1..N -> [S -> S]]
  BY <1>1
<1> HIDE DEF G, S, N
<1>4. PICK f : Iteration(f, S, <<>>, N, G)
  BY <1>1, <1>3, Iterates
<1>5. ASSUME NEW n \in 0..N
      PROVE  f[n] = IF n = 0 THEN <<>>
                    ELSE IF n \in lost THEN f[n - 1] ELSE Append(f[n - 1], events[n])
  <2>1. n # 0 => n \in 1..N /\ n - 1 \in 0..N
    BY <1>1
  <2>2. n # 0 => f[n] = G[n][f[n - 1]] /\ f[n - 1] \in S
    BY <1>4, <2>1 DEF Iteration
  <2> QED
    BY <1>2, <1>4, <2>1, <2>2 DEF Iteration
<1>6. Keeps(f, events, lost)
  BY <1>4, <1>5 DEF Keeps, N, Iteration
<1> DEFINE k == CHOOSE w : Keeps(w, events, lost)
<1>7. Keeps(k, events, lost)
  BY <1>6, Zenon
<1>8. Without(events, lost) = k[Len(events)]
  BY Zenon DEF Without, Keeps
<1> QED
  BY <1>7, <1>8

(* Events are lost, none is added. *)
LEMMA WithoutType ==
    ASSUME NEW X, NEW events \in Seq(X), NEW lost
    PROVE  Without(events, lost) \in Seq(X)
<1>1. PICK w : Keeps(w, events, lost) /\ Without(events, lost) = w[Len(events)]
  BY WithoutDef
<1> DEFINE N == Len(events)
           S == Seq(X)
           T == {n \in 0..N : w[n] \in S}
<1>2. /\ N \in Nat /\ <<>> \in S
      /\ \A s \in S, n \in 1..N : Append(s, events[n]) \in S
  OBVIOUS
<1> HIDE DEF S
<1>3. 0 \in T
  <2>1. w[0] = <<>>
    BY <1>1, <1>2, KeepsAt
  <2> QED
    BY <1>2, <2>1
<1>4. ASSUME NEW n \in 0..N, n < N, n \in T PROVE n + 1 \in T
  <2>1. n + 1 \in 0..N /\ n + 1 # 0 /\ (n + 1) - 1 = n /\ n + 1 \in 1..N
    BY <1>4
  <2>2. w[n + 1] = w[n] \/ w[n + 1] = Append(w[n], events[n + 1])
    <3> DEFINE i == n + 1
    <3>1. i \in 0..Len(events) /\ i # 0 /\ i - 1 = n
      BY <2>1
    <3> HIDE DEF i
    <3>2. w[i] = w[n] \/ w[i] = Append(w[n], events[i])
      BY <1>1, <3>1, KeepsAt
    <3> QED
      BY <3>2 DEF i
  <2> QED
    BY <1>2, <1>4, <2>1, <2>2
<1> HIDE DEF T
<1>5. 0..N \subseteq T
  BY <1>2, <1>3, <1>4, InductionUpTo
<1> QED
  BY <1>1, <1>2, <1>5 DEF T, S

-----------------------------------------------------------------------------
(* The rebuild. *)

Books == UNION {[D -> Order] : D \in SUBSET OrderIds}
Index == [ClientIds -> OrderIds \cup {NoOrder}]

(* No order is complete without being FILLED. *)
Sound(books) == \A o \in DOMAIN books : books[o].filled >= Size => books[o].state = "FILLED"

(* A sound store whose indexes name orders of it. *)
Stores ==
    {s \in [ok : BOOLEAN, orders : Books, clientMap : Index, venueMap : Index] :
        /\ Sound(s.orders)
        /\ \A c \in ClientIds :
            /\ s.clientMap[c] # NoOrder => s.clientMap[c] \in DOMAIN s.orders
            /\ s.venueMap[c] # NoOrder => s.venueMap[c] \in DOMAIN s.orders}

LEMMA BooksLemma ==
    ASSUME NEW f
    PROVE  f \in Books <=> DOMAIN f \subseteq OrderIds /\ f \in [DOMAIN f -> Order]
<1>1. ASSUME f \in Books PROVE DOMAIN f \subseteq OrderIds /\ f \in [DOMAIN f -> Order]
  <2>1. PICK D \in SUBSET OrderIds : f \in [D -> Order]
    BY <1>1 DEF Books
  <2>2. D = DOMAIN f
    BY <2>1
  <2> QED
    BY <2>1, <2>2
<1>2. ASSUME DOMAIN f \subseteq OrderIds, f \in [DOMAIN f -> Order] PROVE f \in Books
  <2>1. [DOMAIN f -> Order] \in {[D -> Order] : D \in SUBSET OrderIds}
    BY <1>2
  <2> QED
    BY <1>2, <2>1 DEF Books
<1> QED
  BY <1>1, <1>2

(* The events that move an order. *)
Moving == {"Submitted", "Ack", "Rejected", "Fill", "Canceled"}

(* What a handler of the store makes of an order is one. *)
LEMMA BookedType ==
    ASSUME NEW ord \in Order, NEW e \in Event, e.type \in Moving
    PROVE  /\ Booked(ord, e) = [client |-> ord.client, state |-> Target(ord, e),
                                filled |-> IF e.type = "Fill" THEN ord.filled + e.size ELSE ord.filled,
                                venue  |-> ord.venue \/ e.type = "Ack"]
           /\ Booked(ord, e) \in Order
<1> DEFINE st == Target(ord, e)
           fl == IF e.type = "Fill" THEN ord.filled + e.size ELSE ord.filled
           vn == ord.venue \/ e.type = "Ack"
<1>1. /\ ord = [client |-> ord.client, state |-> ord.state, filled |-> ord.filled, venue |-> ord.venue]
      /\ ord.client \in ClientIds /\ ord.state \in OrderStates /\ ord.filled \in Nat
      /\ ord.venue \in BOOLEAN
  BY DEF Order
<1>2. e.type \in Moving /\ e.size \in Nat
  BY SizeAssumption DEF Event
<1>3. st \in OrderStates
  BY <1>1, <1>2 DEF Target, OrderStates, Moving, StateAfterFill
<1>4. fl \in Nat /\ vn \in BOOLEAN
  BY <1>1, <1>2
<1>5. Booked(ord, e) = [ord EXCEPT !.state = st, !.filled = fl, !.venue = vn]
  BY DEF Booked, FilledAfter
<1> HIDE DEF st, fl, vn
<1>6. Booked(ord, e) = [client |-> ord.client, state |-> st, filled |-> fl, venue |-> vn]
  BY <1>1, <1>5
<1>7. Booked(ord, e) \in Order
  BY <1>1, <1>3, <1>4, <1>6 DEF Order
<1> QED
  BY <1>6, <1>7 DEF st, fl, vn

(* An order that is closed stays as it is closed, ... *)
LEMMA BookedKeeps ==
    ASSUME NEW ord \in Order, NEW e \in Event, e.type \in Moving, Takes(ord, e),
           ord.state \in TerminalStates
    PROVE  Target(ord, e) = ord.state
BY DEF Takes, Transitions, CanTransition, ValidTransitions, TerminalStates

(* ... and one that is complete is closed as FILLED. *)
LEMMA BookedSound ==
    ASSUME NEW ord \in Order, NEW e \in Event, e.type \in Moving, Takes(ord, e),
           ord.filled >= Size => ord.state = "FILLED"
    PROVE  Booked(ord, e).filled >= Size => Booked(ord, e).state = "FILLED"
<1>1. Booked(ord, e) = [client |-> ord.client, state |-> Target(ord, e),
                        filled |-> IF e.type = "Fill" THEN ord.filled + e.size ELSE ord.filled,
                        venue  |-> ord.venue \/ e.type = "Ack"]
  BY BookedType
<1>2. CASE e.type = "Fill"
  BY <1>1, <1>2 DEF Target, StateAfterFill, FilledAfter
<1>3. CASE e.type # "Fill"
  BY <1>1, <1>3, BookedKeeps DEF TerminalStates
<1> QED
  BY <1>2, <1>3

(* The four cases of a replayed event. *)
Same(e, s) == \/ s.ok = FALSE \/ e.type = "CancelRequested"
              \/ e.type = "Created" /\ e.order \in DOMAIN s.orders
              \/ e.type \in Moving /\ e.order \notin DOMAIN s.orders

LEMMA ReplaySame ==
    ASSUME NEW s, NEW e \in Event, Same(e, s)
    PROVE  Replay(e, s) = s
BY DEF Replay, Same, Moving

LEMMA ReplayCreated ==
    ASSUME NEW s \in Stores, NEW e \in Event, s.ok = TRUE, e.type = "Created",
           e.order \notin DOMAIN s.orders
    PROVE  Replay(e, s) =
               [ok |-> TRUE,
                orders |-> [x \in DOMAIN s.orders \cup {e.order} |->
                              IF x = e.order THEN [client |-> e.client, state |-> "NEW",
                                                   filled |-> 0, venue |-> FALSE]
                                             ELSE s.orders[x]],
                clientMap |-> [s.clientMap EXCEPT ![e.client] = e.order],
                venueMap |-> s.venueMap]
<1>1. Replay(e, s) = Created(s, e)
  BY DEF Replay
<1>2. s = [ok |-> TRUE, orders |-> s.orders, clientMap |-> s.clientMap, venueMap |-> s.venueMap]
  BY DEF Stores
<1> QED
  BY <1>1, <1>2 DEF Created

LEMMA ReplayMoved ==
    ASSUME NEW s \in Stores, NEW e \in Event, s.ok = TRUE, e.type \in Moving,
           e.order \in DOMAIN s.orders, Takes(s.orders[e.order], e)
    PROVE  Replay(e, s) =
               [ok |-> TRUE,
                orders |-> [s.orders EXCEPT ![e.order] = Booked(s.orders[e.order], e)],
                clientMap |-> s.clientMap,
                venueMap |-> IF e.type = "Ack" THEN [s.venueMap EXCEPT ![e.client] = e.order]
                             ELSE s.venueMap]
<1>1. Replay(e, s) = Moved(s, e)
  BY DEF Replay, Moving
<1>2. s = [ok |-> TRUE, orders |-> s.orders, clientMap |-> s.clientMap, venueMap |-> s.venueMap]
  BY DEF Stores
<1> QED
  BY <1>1, <1>2 DEF Moved

LEMMA ReplayBroken ==
    ASSUME NEW s \in Stores, NEW e \in Event, s.ok = TRUE, e.type \in Moving,
           e.order \in DOMAIN s.orders, ~Takes(s.orders[e.order], e)
    PROVE  Replay(e, s) = [ok |-> FALSE, orders |-> s.orders, clientMap |-> s.clientMap,
                           venueMap |-> s.venueMap]
<1>1. Replay(e, s) = [s EXCEPT !.ok = FALSE]
  BY DEF Replay, Moving
<1>2. s = [ok |-> TRUE, orders |-> s.orders, clientMap |-> s.clientMap, venueMap |-> s.venueMap]
  BY DEF Stores
<1> QED
  BY <1>1, <1>2

LEMMA ReplayType ==
    ASSUME NEW s \in Stores, NEW e \in Event
    PROVE  Replay(e, s) \in Stores
<1>1. /\ s.ok \in BOOLEAN /\ e.type \in EventTypes /\ e.order \in OrderIds /\ e.client \in ClientIds
      /\ DOMAIN s.orders \subseteq OrderIds /\ s.orders \in [DOMAIN s.orders -> Order]
      /\ s.clientMap \in Index /\ s.venueMap \in Index /\ Sound(s.orders)
      /\ \A c \in ClientIds :
            /\ s.clientMap[c] # NoOrder => s.clientMap[c] \in DOMAIN s.orders
            /\ s.venueMap[c] # NoOrder => s.venueMap[c] \in DOMAIN s.orders
  BY BooksLemma DEF Stores, Event
<1>2. CASE Same(e, s)
  BY <1>2, ReplaySame
<1>3. CASE s.ok = TRUE /\ e.type = "Created" /\ e.order \notin DOMAIN s.orders
  <2> DEFINE new == [client |-> e.client, state |-> "NEW", filled |-> 0, venue |-> FALSE]
             f == [x \in DOMAIN s.orders \cup {e.order} |-> IF x = e.order THEN new ELSE s.orders[x]]
             c == [s.clientMap EXCEPT ![e.client] = e.order]
  <2>1. new \in Order
    BY <1>1 DEF Order, OrderStates
  <2> HIDE DEF new
  <2>2. DOMAIN f = DOMAIN s.orders \cup {e.order} /\ f \in [DOMAIN f -> Order]
    BY <1>1, <2>1
  <2>6. Sound(f)
    BY <1>1, SizeAssumption DEF Sound, new
  <2> HIDE DEF f
  <2>3. f \in Books
    BY <1>1, <2>2, BooksLemma
  <2>4. c \in Index /\ \A d \in ClientIds : c[d] # NoOrder => c[d] \in DOMAIN f
    BY <1>1, <2>2 DEF Index
  <2> HIDE DEF c
  <2>5. Replay(e, s) = [ok |-> TRUE, orders |-> f, clientMap |-> c, venueMap |-> s.venueMap]
    BY <1>3, ReplayCreated DEF f, c, new
  <2> QED
    BY <1>1, <2>2, <2>3, <2>4, <2>5, <2>6 DEF Stores
<1>4. CASE s.ok = TRUE /\ e.type \in Moving /\ e.order \in DOMAIN s.orders /\ Takes(s.orders[e.order], e)
  <2> DEFINE f == [s.orders EXCEPT ![e.order] = Booked(s.orders[e.order], e)]
             v == IF e.type = "Ack" THEN [s.venueMap EXCEPT ![e.client] = e.order] ELSE s.venueMap
  <2>1. Booked(s.orders[e.order], e) \in Order
    BY <1>1, <1>4, BookedType
  <2>2. DOMAIN f = DOMAIN s.orders /\ f \in [DOMAIN f -> Order]
    BY <1>1, <2>1
  <2>3. v \in Index /\ \A d \in ClientIds : v[d] # NoOrder => v[d] \in DOMAIN s.orders
    BY <1>1, <1>4 DEF Index
  <2>4. Replay(e, s) = [ok |-> TRUE, orders |-> f, clientMap |-> s.clientMap, venueMap |-> v]
    BY <1>4, ReplayMoved
  <2>6. Sound(f)
    <3> DEFINE ord == s.orders[e.order]
    <3>1. ord \in Order /\ (ord.filled >= Size => ord.state = "FILLED") /\ Takes(ord, e)
      BY <1>1, <1>4 DEF Sound
    <3>2. f[e.order] = Booked(ord, e) /\ \A o \in DOMAIN s.orders \ {e.order} : f[o] = s.orders[o]
      BY <1>4
    <3>3. Booked(ord, e).filled >= Size => Booked(ord, e).state = "FILLED"
      BY <1>4, <3>1, BookedSound
    <3> QED
      BY <1>1, <2>2, <3>2, <3>3 DEF Sound
  <2> HIDE DEF f, v
  <2>5. f \in Books
    BY <1>1, <2>2, BooksLemma
  <2> QED
    BY <1>1, <2>2, <2>3, <2>4, <2>5, <2>6 DEF Stores
<1>5. CASE s.ok = TRUE /\ e.type \in Moving /\ e.order \in DOMAIN s.orders /\ ~Takes(s.orders[e.order], e)
  <2>1. Replay(e, s) = [ok |-> FALSE, orders |-> s.orders, clientMap |-> s.clientMap,
                        venueMap |-> s.venueMap]
    BY <1>5, ReplayBroken
  <2> QED
    BY <1>1, <2>1 DEF Stores
<1>6. e.type \in Moving \/ e.type = "Created" \/ e.type = "CancelRequested"
  BY <1>1 DEF EventTypes, Moving
<1> QED
  BY <1>1, <1>2, <1>3, <1>4, <1>5, <1>6 DEF Same

Folds(f, events, m) ==
    f = [n \in 0..m |-> IF n = 0 THEN Empty ELSE Replay(events[n], f[n - 1])]

LEMMA FoldsAt ==
    ASSUME NEW f, NEW events, NEW m, Folds(f, events, m), NEW n \in 0..m
    PROVE  f[n] = IF n = 0 THEN Empty ELSE Replay(events[n], f[n - 1])
<1> DEFINE F(i) == IF i = 0 THEN Empty ELSE Replay(events[i], f[i - 1])
<1>1. f = [i \in 0..m |-> F(i)]
  BY DEF Folds
<1> HIDE DEF F
<1>2. f[n] = F(n)
  BY <1>1
<1> QED
  BY <1>2 DEF F

LEMMA EmptyType == Empty \in Stores /\ Empty.ok = TRUE
<1>1. <<>> \in Books
  <2> DEFINE f == <<>>
  <2>1. DOMAIN f = {} /\ f \in [DOMAIN f -> Order]
    OBVIOUS
  <2> HIDE DEF f
  <2>2. f \in Books
    BY <2>1, BooksLemma
  <2> QED
    BY <2>2 DEF f
<1>2. [c \in ClientIds |-> NoOrder] \in Index
  BY DEF Index
<1> QED
  BY <1>1, <1>2 DEF Empty, Stores, Sound

LEMMA RebuildDef ==
    ASSUME NEW events \in Seq(Event)
    PROVE  \E f : Folds(f, events, Len(events)) /\ Rebuild(events) = f[Len(events)]
<1> DEFINE N == Len(events)
           G == [n \in 1..N |-> [s \in Stores |-> Replay(events[n], s)]]
<1>1. N \in Nat /\ Empty \in Stores /\ \A n \in 1..N : events[n] \in Event
  BY EmptyType
<1>2. \A n \in 1..N : \A s \in Stores : Replay(events[n], s) \in Stores
  BY <1>1, ReplayType
<1>3. \A s \in Stores, n \in 1..N : G[n][s] = Replay(events[n], s)
  OBVIOUS
<1>4. G \in [1..N -> [Stores -> Stores]]
  BY <1>2
<1> HIDE DEF G, N
<1>5. PICK f : Iteration(f, Stores, Empty, N, G)
  BY <1>1, <1>4, Iterates
<1>6. ASSUME NEW n \in 0..N
      PROVE  f[n] = IF n = 0 THEN Empty ELSE Replay(events[n], f[n - 1])
  <2>1. n # 0 => n \in 1..N /\ n - 1 \in 0..N
    BY <1>1
  <2>2. n # 0 => f[n] = G[n][f[n - 1]] /\ f[n - 1] \in Stores
    BY <1>5, <2>1 DEF Iteration
  <2> QED
    BY <1>3, <1>5, <2>1, <2>2 DEF Iteration
<1>7. Folds(f, events, N)
  BY <1>5, <1>6 DEF Folds, Iteration
<1> DEFINE k == CHOOSE h : Folds(h, events, Len(events))
<1>8. Folds(k, events, Len(events))
  BY <1>7, Zenon DEF N
<1>9. Rebuild(events) = k[Len(events)]
  BY Zenon DEF Rebuild, Folds
<1> QED
  BY <1>8, <1>9

LEMMA RebuildType ==
    ASSUME NEW events \in Seq(Event)
    PROVE  Rebuild(events) \in Stores
<1>1. PICK f : Folds(f, events, Len(events)) /\ Rebuild(events) = f[Len(events)]
  BY RebuildDef
<1> DEFINE N == Len(events)
           T == {n \in 0..N : f[n] \in Stores}
<1>2. N \in Nat /\ \A n \in 1..N : events[n] \in Event
  OBVIOUS
<1>3. 0 \in T
  BY <1>1, <1>2, FoldsAt, EmptyType
<1>4. ASSUME NEW n \in 0..N, n < N, n \in T PROVE n + 1 \in T
  <2> DEFINE i == n + 1
  <2>1. i \in 0..Len(events) /\ i # 0 /\ i - 1 = n /\ i \in 1..N
    BY <1>4
  <2> HIDE DEF i
  <2>2. f[i] = Replay(events[i], f[n])
    BY <1>1, <2>1, FoldsAt
  <2>3. f[i] \in Stores
    BY <1>2, <1>4, <2>1, <2>2, ReplayType
  <2> QED
    BY <2>1, <2>3 DEF i
<1> HIDE DEF T
<1>5. 0..N \subseteq T
  BY <1>2, <1>3, <1>4, InductionUpTo
<1> QED
  BY <1>1, <1>2, <1>5 DEF T

LEMMA RebuildEmpty == Rebuild(<<>>) = Empty
<1>1. <<>> \in Seq(Event) /\ Len(<<>>) = 0
  OBVIOUS
<1>2. PICK f : Folds(f, <<>>, 0) /\ Rebuild(<<>>) = f[0]
  BY <1>1, RebuildDef
<1> QED
  BY <1>2, FoldsAt

(* One more event is one more step of the rebuild. *)
LEMMA RebuildAppend ==
    ASSUME NEW events \in Seq(Event), NEW e \in Event
    PROVE  Rebuild(Append(events, e)) = Replay(e, Rebuild(events))
<1> DEFINE more == Append(events, e)
           N == Len(events)
<1>1. /\ N \in Nat /\ more \in Seq(Event) /\ Len(more) = N + 1 /\ more[N + 1] = e
      /\ \A n \in 1..N : more[n] = events[n]
  OBVIOUS
<1> HIDE DEF more
<1>2. PICK f : Folds(f, events, N) /\ Rebuild(events) = f[N]
  BY RebuildDef
<1> HIDE DEF N
<1>3. PICK h : Folds(h, more, N + 1) /\ Rebuild(more) = h[N + 1]
  BY <1>1, RebuildDef
<1> DEFINE T == {n \in 0..N : h[n] = f[n]}
<1>4. 0 \in T
  <2>1. f[0] = Empty /\ h[0] = Empty
    BY <1>1, <1>2, <1>3, FoldsAt
  <2> QED
    BY <1>1, <2>1
<1>5. ASSUME NEW n \in 0..N, n < N, n \in T PROVE n + 1 \in T
  <2> DEFINE i == n + 1
  <2>1. i \in 0..N /\ i \in 0..(N + 1) /\ i # 0 /\ i - 1 = n /\ i \in 1..N
    BY <1>1, <1>5
  <2> HIDE DEF i
  <2>2. f[i] = Replay(events[i], f[n])
    BY <1>2, <2>1, FoldsAt
  <2>3. h[i] = Replay(more[i], h[n])
    BY <1>3, <2>1, FoldsAt
  <2>4. h[i] = f[i]
    BY <1>1, <1>5, <2>1, <2>2, <2>3
  <2> QED
    BY <2>1, <2>4 DEF i
<1> HIDE DEF T
<1>6. 0..N \subseteq T
  BY <1>1, <1>4, <1>5, InductionUpTo
<1>7. h[N] = f[N]
  BY <1>1, <1>6 DEF T
<1>8. h[N + 1] = Replay(more[N + 1], h[N])
  <2> DEFINE i == N + 1
  <2>1. i \in 0..i /\ i # 0 /\ i - 1 = N
    BY <1>1
  <2>2. Folds(h, more, i)
    BY <1>3
  <2> HIDE DEF i
  <2>3. h[i] = Replay(more[i], h[N])
    BY <2>1, <2>2, FoldsAt
  <2> QED
    BY <2>3 DEF i
<1> QED
  BY <1>1, <1>2, <1>3, <1>7, <1>8 DEF more

-----------------------------------------------------------------------------
(* Types and commands, whether or not an append suspends. *)

(* A suspended task publishes an event of its own kind, about an order in  *)
(* the store.                                                              *)
SuspendedOK ==
    \A t \in Suspended :
        /\ task[t].pc \in EventsOf(t) /\ task[t].at \in 1..Len(log)
        /\ Pending(t).type = task[t].pc /\ Pending(t).order \in DOMAIN orders

(* The indexes of the store name orders of it, after a rebuild too. *)
IndexOK ==
    \A c \in ClientIds :
        /\ clientMap[c] # NoOrder => clientMap[c] \in DOMAIN orders
        /\ venueMap[c] # NoOrder => venueMap[c] \in DOMAIN orders

(* The key of the order being created is not recorded yet. *)
CreatedOK ==
    task["proposals"].pc = "Created" =>
        LET e == Pending("proposals")
        IN orders[e.order].client = e.client /\ idem[e.client] = NoOrder

(* Whoever has been submitted in this life has a key. *)
Sent(c) == {i \in 1..Len(submitCmds) : submitCmds[i] = c}
Lives(c) == restarts + IF idem[c] = NoOrder THEN 0 ELSE 1
CommandsCounted == \A c \in ClientIds : Cardinality(Sent(c)) <= Lives(c)

CInv == /\ TypeOK /\ restarts \in Nat
        /\ SuspendedOK /\ IndexOK /\ CreatedOK /\ CommandsCounted

(* What the router knows of an order is of the right type. *)
RoutesOK == \A o \in DOMAIN routed : o \in OrderIds /\ routed[o] \in Route

RInv == CInv /\ RoutesOK

LEMMA TasksAre ==
    /\ Tasks = {"acks", "rejects", "fills", "cancels", "proposals"}
    /\ Topics = {"acks", "rejects", "fills", "cancels"}
    /\ \A t \in Tasks : EventsOf(t) \subseteq EventTypes
    /\ \A t \in Tasks, u \in Tasks : EventsOf(t) \cap EventsOf(u) # {} => t = u
    /\ PCs = EventTypes \cup {"idle", "dead"} /\ "idle" \notin EventTypes /\ "dead" \notin EventTypes
BY DEF Tasks, Topics, EventsOf, EventTypes, PCs

LEMMA PublishSuspends ==
    ASSUME TypeOK, NEW t \in Tasks, NEW e \in Event, Publish(t, e), SuspendedOK
    PROVE  /\ log' \in Seq(Event) /\ Len(log') = Len(log) + 1 /\ log'[Len(log')] = e
           /\ task' \in [Tasks -> [pc : PCs, at : Nat]]
           /\ task'[t].pc = e.type /\ task'[t].at = Len(log')
           /\ Pending(t)' = e /\ Suspended' = Suspended \cup {t}
           /\ \A u \in Tasks \ {t} : task'[u] = task[u]
           /\ \A u \in Suspended \ {t} : task'[u].at \in 1..Len(log') /\ Pending(u)' = Pending(u)
<1>1. /\ log \in Seq(Event) /\ task \in [Tasks -> [pc : PCs, at : Nat]]
      /\ log' = Append(log, e)
      /\ task' = [task EXCEPT ![t] = [pc |-> e.type, at |-> Len(log) + 1]]
  BY DEF TypeOK, Publish
<1>2. Len(log) \in Nat /\ e.type \in PCs /\ e.type \notin {"idle", "dead"}
  BY <1>1, TasksAre DEF Event
<1>3. log' \in Seq(Event) /\ Len(log') = Len(log) + 1
  BY <1>1
<1>4. log'[Len(log) + 1] = e /\ \A i \in 1..Len(log) : log'[i] = log[i]
  BY <1>1
<1>5. task' \in [Tasks -> [pc : PCs, at : Nat]]
  BY <1>1, <1>2
<1>6. task'[t].pc = e.type /\ task'[t].at = Len(log) + 1
  BY <1>1
<1>7. \A u \in Tasks \ {t} : task'[u] = task[u]
  BY <1>1
<1>8. Suspended' = Suspended \cup {t}
  BY <1>2, <1>6, <1>7 DEF Suspended
<1>9. \A u \in Suspended \ {t} : task'[u].at \in 1..Len(log') /\ Pending(u)' = Pending(u)
  <2> SUFFICES ASSUME NEW u \in Suspended \ {t}
               PROVE  task'[u].at \in 1..Len(log') /\ Pending(u)' = Pending(u)
    OBVIOUS
  <2>1. task'[u] = task[u] /\ task[u].at \in 1..Len(log)
    BY <1>7 DEF Suspended, SuspendedOK
  <2> QED
    BY <1>2, <1>3, <1>4, <2>1 DEF Pending
<1> QED
  BY <1>3, <1>4, <1>5, <1>6, <1>7, <1>8, <1>9 DEF Pending

LEMMA ResumeEnds ==
    ASSUME TypeOK, NEW t \in Tasks, Resume(t), log' = log
    PROVE  /\ task' \in [Tasks -> [pc : PCs, at : Nat]]
           /\ task'[t].pc = "idle" /\ Suspended' = Suspended \ {t}
           /\ \A u \in Tasks \ {t} : task'[u] = task[u] /\ Pending(u)' = Pending(u)
<1>1. /\ task \in [Tasks -> [pc : PCs, at : Nat]]
      /\ task' = [task EXCEPT ![t] = [pc |-> "idle", at |-> 0]]
  BY DEF TypeOK, Resume, Idle
<1>2. "idle" \in PCs
  BY DEF PCs
<1> QED
  BY <1>1, <1>2 DEF Pending, Suspended

(* What the handlers of the user stream do to the store. *)
OrdersKept ==
    /\ DOMAIN orders' = DOMAIN orders /\ orders' \in [DOMAIN orders -> Order]
    /\ \A o \in DOMAIN orders : orders'[o].client = orders[o].client
    /\ clientMap' = clientMap
    /\ venueMap' \in Index
    /\ \A c \in ClientIds : venueMap'[c] # NoOrder => venueMap'[c] \in DOMAIN orders

LEMMA HandlerOK ==
    ASSUME CInv, NEW t \in Topics, OrdersKept, inbox' \in [Topics -> Seq(Message)],
           UNCHANGED <<riskVars, idem, submitCmds, venueVars, restarts>>,
           cancelCmds' \in Seq(OrderIds),
           \/ UNCHANGED <<log, task>>
           \/ Resume(t) /\ log' = log
           \/ \E e \in Event : /\ Publish(t, e) /\ e.type \in EventsOf(t)
                               /\ e.order \in DOMAIN orders
    PROVE  CInv'
<1>1. t \in Tasks /\ t # "proposals" /\ "proposals" \in Tasks
  BY TasksAre
<1> DEFINE Handled ==
             /\ log' \in Seq(Event) /\ task' \in [Tasks -> [pc : PCs, at : Nat]]
             /\ task'["proposals"] = task["proposals"] /\ SuspendedOK'
             /\ "proposals" \in Suspended => Pending("proposals")' = Pending("proposals")
<1>2. Handled
  <2>1. CASE UNCHANGED <<log, task>>
    BY <2>1 DEF CInv, TypeOK, SuspendedOK, Suspended, Pending, OrdersKept
  <2>2. CASE Resume(t) /\ log' = log
    <3>1. /\ task' \in [Tasks -> [pc : PCs, at : Nat]] /\ Suspended' = Suspended \ {t}
          /\ \A u \in Tasks \ {t} : task'[u] = task[u] /\ Pending(u)' = Pending(u)
      BY <1>1, <2>2, ResumeEnds DEF CInv
    <3>2. \A u \in Suspended' : u \in Suspended /\ task'[u] = task[u] /\ Pending(u)' = Pending(u)
      BY <3>1 DEF Suspended
    <3>3. SuspendedOK'
      BY <2>2, <3>2 DEF CInv, SuspendedOK, OrdersKept
    <3> QED
      BY <1>1, <2>2, <3>1, <3>3 DEF CInv, TypeOK
  <2>3. ASSUME NEW e \in Event, Publish(t, e), e.type \in EventsOf(t), e.order \in DOMAIN orders
        PROVE  Handled
    <3>1. /\ log' \in Seq(Event) /\ Len(log') = Len(log) + 1
          /\ task' \in [Tasks -> [pc : PCs, at : Nat]]
          /\ task'[t].pc = e.type /\ task'[t].at = Len(log')
          /\ Pending(t)' = e /\ Suspended' = Suspended \cup {t}
          /\ \A u \in Tasks \ {t} : task'[u] = task[u]
          /\ \A u \in Suspended \ {t} : task'[u].at \in 1..Len(log') /\ Pending(u)' = Pending(u)
      BY <1>1, <2>3, PublishSuspends DEF CInv
    <3>2. Len(log') \in 1..Len(log')
      BY <3>1 DEF CInv, TypeOK
    <3>3. \A u \in Suspended \ {t} : u \in Tasks \ {t}
      BY DEF Suspended
    <3>4. SuspendedOK'
      BY <2>3, <3>1, <3>2, <3>3 DEF CInv, SuspendedOK, OrdersKept
    <3> QED
      BY <1>1, <3>1, <3>3, <3>4
  <2> QED
    BY <2>1, <2>2, <2>3
<1>3. UNCHANGED <<proposals, approvals, venue, sent, redelivered, clientMap>>
  BY DEF riskVars, venueVars, OrdersKept
<1>4. TypeOK'
  BY <1>2, <1>3 DEF CInv, TypeOK, OrdersKept, Index
<1>5. IndexOK'
  BY <1>3 DEF CInv, IndexOK, OrdersKept
<1>6. CreatedOK'
  <2> SUFFICES ASSUME task'["proposals"].pc = "Created" PROVE CreatedOK'
    BY DEF CreatedOK
  <2>1. "proposals" \in Suspended
    BY <1>1, <1>2 DEF Suspended
  <2>2. Pending("proposals").order \in DOMAIN orders /\ Pending("proposals")' = Pending("proposals")
    BY <1>2, <2>1 DEF CInv, SuspendedOK
  <2> QED
    BY <1>2, <2>2 DEF CInv, CreatedOK, OrdersKept
<1>7. CommandsCounted'
  BY DEF CInv, CommandsCounted, Sent, Lives
<1> QED
  BY <1>2, <1>4, <1>5, <1>6, <1>7 DEF CInv

LEMMA ReceiveTakes ==
    ASSUME CInv, NEW t \in Topics, Receive(t)
    PROVE  /\ Head(inbox[t]) \in Message /\ inbox' \in [Topics -> Seq(Message)]
           /\ UNCHANGED <<riskVars, idem, cmdVars, clientMap, venueVars>>
<1>1. /\ inbox \in [Topics -> Seq(Message)] /\ inbox[t] \in Seq(Message) /\ inbox[t] # <<>>
      /\ inbox' = [inbox EXCEPT ![t] = Tail(inbox[t])]
      /\ UNCHANGED <<riskVars, idem, cmdVars, clientMap, venueVars>>
  BY DEF CInv, TypeOK, Receive
<1>2. Head(inbox[t]) \in Message /\ Tail(inbox[t]) \in Seq(Message)
  BY <1>1
<1> QED
  BY <1>1, <1>2

LEMMA LookupInStore ==
    ASSUME CInv, NEW t \in Topics, NEW m \in Message, Lookup(t, m) # NoOrder
    PROVE  Lookup(t, m) \in DOMAIN orders
BY DEF CInv, IndexOK, Lookup, Message

LEMMA EventType ==
    ASSUME CInv, NEW t \in Tasks, NEW type \in EventsOf(t), NEW o \in DOMAIN orders,
           NEW c \in ClientIds, NEW n \in 0..Size
    PROVE  /\ Ev(type, o, c, n) \in Event /\ Ev(type, o, c, n).type = type
           /\ Ev(type, o, c, n).order = o /\ Ev(type, o, c, n).client = c
           /\ Ev(type, o, c, n).size = n
BY TasksAre DEF CInv, TypeOK, Ev, Event

(* A handler that takes a message and drops it, or publishes an event      *)
(* about its order.                                                        *)
LEMMA ReceiveOK ==
    ASSUME CInv, NEW t \in Topics, Receive(t), OrdersKept, UNCHANGED restarts,
           \/ UNCHANGED <<log, task>>
           \/ \E type \in EventsOf(t), o \in DOMAIN orders, c \in ClientIds, n \in 0..Size :
                 Publish(t, Ev(type, o, c, n))
    PROVE  CInv'
<1>1. t \in Tasks
  BY TasksAre
<1>2. /\ inbox' \in [Topics -> Seq(Message)]
      /\ UNCHANGED <<riskVars, idem, submitCmds, venueVars>>
      /\ cancelCmds' = cancelCmds /\ cancelCmds \in Seq(OrderIds)
  BY ReceiveTakes DEF cmdVars, CInv, TypeOK
<1>3. ASSUME NEW type \in EventsOf(t), NEW o \in DOMAIN orders, NEW c \in ClientIds,
             NEW n \in 0..Size, Publish(t, Ev(type, o, c, n))
      PROVE  \E e \in Event : /\ Publish(t, e) /\ e.type \in EventsOf(t)
                              /\ e.order \in DOMAIN orders
  <2> DEFINE e == Ev(type, o, c, n)
  <2>1. e \in Event /\ e.type = type /\ e.order = o
    BY <1>1, EventType
  <2>2. Publish(t, e)
    BY <1>3
  <2> HIDE DEF e
  <2> QED
    BY <2>1, <2>2
<1> QED
  BY <1>2, <1>3, HandlerOK

LEMMA KeptLemma ==
    ASSUME CInv, UNCHANGED storeVars
    PROVE  OrdersKept
BY DEF CInv, TypeOK, IndexOK, OrdersKept, storeVars, Index

(* A change of the order o that leaves its client. *)
LEMMA ChangeLemma ==
    ASSUME CInv, NEW o \in DOMAIN orders, NEW new \in Order, new.client = orders[o].client,
           orders' = [orders EXCEPT ![o] = new], clientMap' = clientMap,
           \/ venueMap' = venueMap
           \/ \E c \in ClientIds : venueMap' = [venueMap EXCEPT ![c] = o]
    PROVE  OrdersKept /\ orders'[o] = new /\ \A p \in DOMAIN orders \ {o} : orders'[p] = orders[p]
BY DEF CInv, TypeOK, IndexOK, OrdersKept, Index

LEMMA OrderLemma ==
    ASSUME CInv, NEW o \in DOMAIN orders
    PROVE  /\ orders[o] = [client |-> orders[o].client, state |-> orders[o].state,
                           filled |-> orders[o].filled, venue |-> orders[o].venue]
           /\ orders[o].client \in ClientIds /\ orders[o].state \in OrderStates
           /\ orders[o].filled \in Nat /\ orders[o].venue \in BOOLEAN
           /\ orders[o] \in Order /\ o \in OrderIds
BY DEF CInv, TypeOK, Order

LEMMA StateLemma ==
    ASSUME CInv, NEW o \in DOMAIN orders, NEW st \in OrderStates, SetState(o, st)
    PROVE  LET new == [client |-> orders[o].client, state |-> st,
                       filled |-> orders[o].filled, venue |-> orders[o].venue]
           IN new \in Order /\ orders' = [orders EXCEPT ![o] = new]
<1>1. /\ orders[o] = [client |-> orders[o].client, state |-> orders[o].state,
                      filled |-> orders[o].filled, venue |-> orders[o].venue]
      /\ orders[o].client \in ClientIds /\ orders[o].filled \in Nat /\ orders[o].venue \in BOOLEAN
  BY OrderLemma
<1>2. orders' = [orders EXCEPT ![o] = [orders[o] EXCEPT !.state = st]]
  BY DEF SetState
<1>3. [orders[o] EXCEPT !.state = st] = [client |-> orders[o].client, state |-> st,
                      filled |-> orders[o].filled, venue |-> orders[o].venue]
  BY <1>1
<1> QED
  BY <1>1, <1>2, <1>3 DEF Order

LEMMA AckedStores ==
    ASSUME CInv, NEW o \in DOMAIN orders, NEW c \in ClientIds, Acked(c, o), clientMap' = clientMap
    PROVE  LET new == [client |-> orders[o].client, state |-> "ACKED",
                       filled |-> orders[o].filled, venue |-> TRUE]
           IN /\ OrdersKept /\ new \in Order /\ orders' = [orders EXCEPT ![o] = new]
              /\ orders'[o] = new /\ venueMap' = [venueMap EXCEPT ![c] = o] /\ venueMap'[c] = o
<1> DEFINE new == [client |-> orders[o].client, state |-> "ACKED",
                   filled |-> orders[o].filled, venue |-> TRUE]
<1>1. /\ orders[o] = [client |-> orders[o].client, state |-> orders[o].state,
                      filled |-> orders[o].filled, venue |-> orders[o].venue]
      /\ orders[o].client \in ClientIds /\ orders[o].filled \in Nat
  BY OrderLemma
<1>2. new \in Order /\ new.client = orders[o].client
  BY <1>1 DEF Order, OrderStates
<1>3. venueMap' = [venueMap EXCEPT ![c] = o] /\ venueMap'[c] = o
  BY DEF Acked, IndexVenueId, CInv, TypeOK
<1>4. orders' = [orders EXCEPT ![o] = [[orders[o] EXCEPT !.state = "ACKED"] EXCEPT !.venue = TRUE]]
  BY DEF Acked, CInv, TypeOK
<1>5. [[orders[o] EXCEPT !.state = "ACKED"] EXCEPT !.venue = TRUE] = new
  <2> DEFINE yes == TRUE
             ord == orders[o]
             cl  == orders[o].client
             st  == orders[o].state
             fl  == orders[o].filled
             vn  == orders[o].venue
  <2>1. ord = [client |-> cl, state |-> st, filled |-> fl, venue |-> vn]
    BY <1>1
  <2> HIDE DEF yes, ord, cl, st, fl, vn
  <2> DEFINE mid == [ord EXCEPT !.state = "ACKED"]
  <2>2. mid = [client |-> cl, state |-> "ACKED", filled |-> fl, venue |-> vn]
    BY <2>1
  <2> HIDE DEF mid
  <2>3. [mid EXCEPT !.venue = yes] = [client |-> cl, state |-> "ACKED", filled |-> fl, venue |-> yes]
    BY <2>2
  <2> QED
    BY <2>3 DEF yes, ord, cl, fl, mid
<1>6. orders' = [orders EXCEPT ![o] = new]
  BY <1>4, <1>5
<1> HIDE DEF new
<1>7. OrdersKept /\ orders'[o] = new
  BY <1>2, <1>3, <1>6, ChangeLemma
<1> QED
  BY <1>2, <1>3, <1>6, <1>7 DEF new

(* A handler that is done. *)
LEMMA EndsOK ==
    ASSUME CInv, NEW t \in Topics, Resume(t), OrdersKept,
           UNCHANGED <<riskVars, idem, cmdVars, log, inbox, venueVars, restarts>>
    PROVE  CInv'
<1>1. /\ inbox' \in [Topics -> Seq(Message)] /\ cancelCmds' \in Seq(OrderIds)
      /\ UNCHANGED <<riskVars, idem, submitCmds, venueVars, restarts>> /\ log' = log
  BY DEF CInv, TypeOK, cmdVars
<1> QED
  BY <1>1, HandlerOK

LEMMA DropKeeps ==
    ASSUME CInv, Drop, clientMap' = clientMap
    PROVE  OrdersKept /\ UNCHANGED <<log, task>>
BY KeptLemma DEF Drop, storeVars

(* What is published by whom, about which order. *)
LEMMA PendingLemma ==
    ASSUME CInv, NEW t \in Tasks, task[t].pc \notin {"idle", "dead"}
    PROVE  /\ t \in Suspended /\ task[t].pc \in EventsOf(t) /\ task[t].at \in 1..Len(log)
           /\ Pending(t) \in Event /\ Pending(t).type = task[t].pc
           /\ Pending(t).order \in DOMAIN orders /\ Pending(t).client \in ClientIds
           /\ Pending(t).size \in 0..Size
<1>1. t \in Suspended
  BY DEF Suspended
<1>2. /\ task[t].pc \in EventsOf(t) /\ task[t].at \in 1..Len(log)
      /\ Pending(t).type = task[t].pc /\ Pending(t).order \in DOMAIN orders
  BY <1>1 DEF CInv, SuspendedOK
<1>3. Pending(t) \in Event
  BY <1>2 DEF Pending, CInv, TypeOK
<1> QED
  BY <1>1, <1>2, <1>3 DEF Event

LEMMA ReceiveAckCounted ==
    ASSUME CInv, ReceiveAck, UNCHANGED restarts
    PROVE  CInv'
<1> DEFINE m == Head(inbox["acks"])
           o == Lookup("acks", m)
<1>1. "acks" \in Topics /\ Receive("acks") /\ "Ack" \in EventsOf("acks") /\ 0 \in 0..Size
  BY TasksAre, SizeAssumption DEF ReceiveAck, EventsOf
<1>2. m \in Message /\ m.client \in ClientIds /\ clientMap' = clientMap
  BY <1>1, ReceiveTakes DEF Message
<1>3. CASE Drop
  BY <1>1, <1>2, <1>3, DropKeeps, ReceiveOK
<1>4. CASE o # NoOrder /\ Acked(m.client, o) /\ Publish("acks", Ev("Ack", o, m.client, 0))
  <2>1. o \in DOMAIN orders
    BY <1>1, <1>2, <1>4, LookupInStore
  <2> HIDE DEF o, m
  <2>2. OrdersKept
    BY <1>2, <1>4, <2>1, AckedStores
  <2> QED
    BY <1>1, <1>2, <1>4, <2>1, <2>2, ReceiveOK
<1> QED
  BY <1>3, <1>4 DEF ReceiveAck

LEMMA ReceiveRejectCounted ==
    ASSUME CInv, ReceiveReject, UNCHANGED restarts
    PROVE  CInv'
<1> DEFINE m == Head(inbox["rejects"])
           o == Lookup("rejects", m)
<1>1. "rejects" \in Topics /\ Receive("rejects") /\ "Rejected" \in EventsOf("rejects") /\ 0 \in 0..Size
  BY TasksAre, SizeAssumption DEF ReceiveReject, EventsOf
<1>2. m \in Message /\ clientMap' = clientMap
  BY <1>1, ReceiveTakes
<1>3. CASE Drop
  BY <1>1, <1>2, <1>3, DropKeeps, ReceiveOK
<1>4. CASE /\ o # NoOrder /\ Publish("rejects", Ev("Rejected", o, orders[o].client, 0))
           /\ UNCHANGED <<orders, venueMap>>
  <2>1. o \in DOMAIN orders
    BY <1>1, <1>2, <1>4, LookupInStore
  <2> HIDE DEF o, m
  <2>2. OrdersKept /\ orders[o].client \in ClientIds
    BY <1>2, <1>4, <2>1, KeptLemma, OrderLemma DEF storeVars
  <2> QED
    BY <1>1, <1>4, <2>1, <2>2, ReceiveOK
<1> QED
  BY <1>3, <1>4 DEF ReceiveReject

LEMMA ReceiveFillCounted ==
    ASSUME CInv, ReceiveFill, UNCHANGED restarts
    PROVE  CInv'
<1> DEFINE m == Head(inbox["fills"])
           o == Lookup("fills", m)
<1>1. "fills" \in Topics /\ Receive("fills") /\ "Fill" \in EventsOf("fills")
  BY TasksAre DEF ReceiveFill, EventsOf
<1>2. m \in Message /\ m.size \in 0..Size /\ clientMap' = clientMap
  BY <1>1, ReceiveTakes DEF Message
<1>3. CASE Drop
  BY <1>1, <1>2, <1>3, DropKeeps, ReceiveOK
<1>4. CASE /\ o # NoOrder /\ Publish("fills", Ev("Fill", o, orders[o].client, m.size))
           /\ UNCHANGED <<orders, venueMap>>
  <2>1. o \in DOMAIN orders
    BY <1>1, <1>2, <1>4, LookupInStore
  <2> HIDE DEF o, m
  <2>2. OrdersKept /\ orders[o].client \in ClientIds
    BY <1>2, <1>4, <2>1, KeptLemma, OrderLemma DEF storeVars
  <2> QED
    BY <1>1, <1>2, <1>4, <2>1, <2>2, ReceiveOK
<1> QED
  BY <1>3, <1>4 DEF ReceiveFill

LEMMA ReceiveCancelCounted ==
    ASSUME CInv, ReceiveCancel, UNCHANGED restarts
    PROVE  CInv'
<1> DEFINE m == Head(inbox["cancels"])
           o == Lookup("cancels", m)
<1>1. /\ "cancels" \in Topics /\ Receive("cancels") /\ "CancelRequested" \in EventsOf("cancels")
      /\ 0 \in 0..Size
  BY TasksAre, SizeAssumption DEF ReceiveCancel, EventsOf
<1>2. m \in Message /\ clientMap' = clientMap
  BY <1>1, ReceiveTakes
<1>3. CASE Drop
  BY <1>1, <1>2, <1>3, DropKeeps, ReceiveOK
<1>4. CASE /\ o # NoOrder /\ Publish("cancels", Ev("CancelRequested", o, orders[o].client, 0))
           /\ UNCHANGED <<orders, venueMap>>
  <2>1. o \in DOMAIN orders
    BY <1>1, <1>2, <1>4, LookupInStore
  <2> HIDE DEF o, m
  <2>2. OrdersKept /\ orders[o].client \in ClientIds
    BY <1>2, <1>4, <2>1, KeptLemma, OrderLemma DEF storeVars
  <2> QED
    BY <1>1, <1>4, <2>1, <2>2, ReceiveOK
<1> QED
  BY <1>3, <1>4 DEF ReceiveCancel

LEMMA ApplyAckCounted ==
    ASSUME CInv, ApplyAck, UNCHANGED restarts
    PROVE  CInv'
<1> DEFINE e == Pending("acks")
<1>1. "acks" \in Topics /\ "acks" \in Tasks
  BY TasksAre
<1>2. e.order \in DOMAIN orders /\ e.client \in ClientIds
  BY <1>1, PendingLemma DEF ApplyAck
<1>3. /\ UNCHANGED <<riskVars, idem, cmdVars, log, inbox, venueVars>> /\ clientMap' = clientMap
      /\ Resume("acks")
  BY DEF ApplyAck
<1>4. Acked(e.client, e.order) \/ UNCHANGED <<orders, venueMap>>
  BY DEF ApplyAck
<1> HIDE DEF e
<1>5. OrdersKept
  BY <1>2, <1>3, <1>4, AckedStores, KeptLemma DEF storeVars
<1> QED
  BY <1>1, <1>3, <1>5, EndsOK

LEMMA ApplyStateOK ==
    ASSUME CInv, NEW t \in Topics, task[t].pc \notin {"idle", "dead"}, NEW st \in OrderStates,
           SetState(Pending(t).order, st) \/ UNCHANGED orders, Resume(t),
           UNCHANGED <<riskVars, clientMap, venueMap, idem, cmdVars, log, inbox, venueVars, restarts>>
    PROVE  CInv'
<1> DEFINE o == Pending(t).order
<1>1. t \in Tasks
  BY TasksAre
<1>2. o \in DOMAIN orders
  BY <1>1, PendingLemma
<1> HIDE DEF o
<1>3. CASE SetState(o, st)
  <2> DEFINE new == [client |-> orders[o].client, state |-> st,
                     filled |-> orders[o].filled, venue |-> orders[o].venue]
  <2>1. new \in Order /\ orders' = [orders EXCEPT ![o] = new] /\ new.client = orders[o].client
    BY <1>2, <1>3, StateLemma
  <2> HIDE DEF new
  <2>2. OrdersKept
    BY <1>2, <2>1, ChangeLemma
  <2> QED
    BY <2>2, EndsOK
<1>4. CASE UNCHANGED orders
  BY <1>4, KeptLemma, EndsOK DEF storeVars
<1> QED
  BY <1>3, <1>4 DEF o

LEMMA ApplyRejectCounted ==
    ASSUME CInv, ApplyReject, UNCHANGED restarts
    PROVE  CInv'
<1>1. "rejects" \in Topics /\ "REJECTED" \in OrderStates
  BY TasksAre DEF OrderStates
<1> QED
  BY <1>1, ApplyStateOK DEF ApplyReject

LEMMA ApplyCancelCounted ==
    ASSUME CInv, ApplyCancel, UNCHANGED restarts
    PROVE  CInv'
<1>1. "cancels" \in Topics /\ "CANCELLED" \in OrderStates
  BY TasksAre DEF OrderStates
<1> QED
  BY <1>1, ApplyStateOK DEF ApplyCancel

(* What handle_fill makes of its order. *)
Fills(o, n, st) ==
    orders' = [orders EXCEPT ![o].state = st, ![o].filled = FilledAfter(orders[o], n)]

LEMMA FilledLemma ==
    ASSUME CInv, NEW o \in DOMAIN orders, NEW n \in 0..Size, NEW st \in OrderStates,
           Fills(o, n, st)
    PROVE  LET new == [client |-> orders[o].client, state |-> st,
                       filled |-> orders[o].filled + n, venue |-> orders[o].venue]
           IN new \in Order /\ orders' = [orders EXCEPT ![o] = new]
<1> DEFINE ord == orders[o]
           fl  == orders[o].filled + n
           mid == [ord EXCEPT !.state = st]
<1>1. /\ ord = [client |-> ord.client, state |-> ord.state, filled |-> ord.filled, venue |-> ord.venue]
      /\ ord.client \in ClientIds /\ ord.venue \in BOOLEAN /\ fl \in Nat
  BY OrderLemma, SizeAssumption
<1>2. orders' = [orders EXCEPT ![o] = [mid EXCEPT !.filled = fl]]
  BY DEF Fills, FilledAfter, CInv, TypeOK
<1>3. [mid EXCEPT !.filled = fl] = [client |-> ord.client, state |-> st, filled |-> fl,
                                    venue |-> ord.venue]
  <2> HIDE DEF ord, fl
  <2>1. mid = [client |-> ord.client, state |-> st, filled |-> ord.filled, venue |-> ord.venue]
    BY <1>1
  <2> HIDE DEF mid
  <2> QED
    BY <2>1
<1>4. [client |-> ord.client, state |-> st, filled |-> fl, venue |-> ord.venue] \in Order
  <2> HIDE DEF fl, ord
  <2> QED
    BY <1>1 DEF Order
<1> HIDE DEF mid
<1> QED
  BY <1>2, <1>3, <1>4

LEMMA ApplyFillCounted ==
    ASSUME CInv, ApplyFill, UNCHANGED restarts
    PROVE  CInv'
<1> DEFINE o == Pending("fills").order
           n == Pending("fills").size
           st == StateAfterFill(orders[o], n)
<1>1. "fills" \in Topics /\ "fills" \in Tasks
  BY TasksAre
<1>2. o \in DOMAIN orders /\ n \in 0..Size
  BY <1>1, PendingLemma DEF ApplyFill
<1>3. st \in OrderStates
  BY <1>2, OrderLemma DEF StateAfterFill, OrderStates
<1>4. \/ Fills(o, n, st)
      \/ orders' = orders
  BY DEF ApplyFill, Fills
<1>5. /\ UNCHANGED <<riskVars, clientMap, venueMap, idem, cmdVars, log, inbox, venueVars>>
      /\ Resume("fills")
  BY DEF ApplyFill
<1> HIDE DEF o, n, st
<1>6. CASE orders' = orders
  BY <1>1, <1>5, <1>6, KeptLemma, EndsOK DEF storeVars
<1>7. CASE Fills(o, n, st)
  <2> DEFINE new == [client |-> orders[o].client, state |-> st,
                     filled |-> orders[o].filled + n, venue |-> orders[o].venue]
  <2>1. new \in Order /\ orders' = [orders EXCEPT ![o] = new] /\ new.client = orders[o].client
    BY <1>2, <1>3, <1>7, FilledLemma
  <2> HIDE DEF new
  <2>2. OrdersKept
    BY <1>2, <1>5, <2>1, ChangeLemma
  <2> QED
    BY <1>1, <1>5, <2>2, EndsOK
<1> QED
  BY <1>4, <1>6, <1>7

LEMMA SendCancelCounted ==
    ASSUME CInv, SendCancel, UNCHANGED restarts
    PROVE  CInv'
<1> DEFINE o == Pending("cancels").order
           e == Ev("Canceled", o, orders[o].client, 0)
<1>1. /\ "cancels" \in Topics /\ "cancels" \in Tasks /\ 0 \in 0..Size
      /\ "Canceled" \in EventsOf("cancels")
  BY TasksAre, SizeAssumption DEF EventsOf
<1>2. o \in DOMAIN orders /\ o \in OrderIds /\ orders[o].client \in ClientIds
  BY <1>1, PendingLemma, OrderLemma DEF SendCancel
<1>3. /\ cancelCmds' = Append(cancelCmds, o) /\ Publish("cancels", e)
      /\ UNCHANGED <<riskVars, storeVars, idem, submitCmds, inbox, venueVars>>
  BY DEF SendCancel
<1> HIDE DEF o
<1>4. e \in Event /\ e.type = "Canceled" /\ e.order = o
  BY <1>1, <1>2, EventType
<1> HIDE DEF e
<1>5. cancelCmds' \in Seq(OrderIds) /\ inbox' \in [Topics -> Seq(Message)]
  BY <1>2, <1>3 DEF CInv, TypeOK
<1>6. OrdersKept
  BY <1>3, KeptLemma
<1> QED
  BY <1>1, <1>2, <1>3, <1>4, <1>5, <1>6, HandlerOK

(* The queues of approved proposals and of the venue's messages. *)
LEMMA EnvironmentCounted ==
    ASSUME CInv, Environment, UNCHANGED restarts
    PROVE  CInv'
<1> DEFINE Kept == UNCHANGED <<orders, clientMap, venueMap, idem, submitCmds, cancelCmds, log, task>>
<1>1. SUFFICES Kept /\ TypeOK'
  <2>1. ASSUME Kept, TypeOK' PROVE CInv'
    <3>1. Suspended' = Suspended /\ \A t \in Tasks : Pending(t)' = Pending(t)
      BY <2>1 DEF Suspended, Pending
    <3>2. SuspendedOK'
      BY <2>1, <3>1 DEF CInv, SuspendedOK, Suspended
    <3>3. CreatedOK'
      BY <2>1, <3>1, TasksAre DEF CInv, CreatedOK
    <3>4. IndexOK' /\ CommandsCounted'
      BY <2>1 DEF CInv, IndexOK, CommandsCounted, Sent, Lives
    <3> QED
      BY <2>1, <3>2, <3>3, <3>4 DEF CInv
  <2> QED
    BY <2>1
<1>2. ASSUME NEW c \in ClientIds, Approve(c) PROVE Kept /\ TypeOK'
  <2>1. proposals' \in Seq(ClientIds) /\ approvals' \in 0..MaxApprovals
    BY <1>2, BoundsAssumption DEF CInv, TypeOK, Approve
  <2> QED
    BY <1>2, <2>1 DEF CInv, TypeOK, Approve, storeVars, cmdVars, venueVars
<1>3. ASSUME NEW t \in Topics, NEW m \in Message, Deliver(t, m),
             redelivered' \in 0..MaxRedeliveries,
             venue' \in [ClientIds -> [st : VenueStates, matched : 0..Size]],
             UNCHANGED <<riskVars, storeVars, idem, cmdVars, log, task>>
      PROVE  Kept /\ TypeOK'
  <2>1. inbox' \in [Topics -> Seq(Message)]
    <3>1. Append(inbox[t], m) \in Seq(Message)
      BY DEF CInv, TypeOK
    <3> QED
      BY <1>3, <3>1 DEF CInv, TypeOK, Deliver
  <2>2. sent' \in [Topics -> SUBSET Message]
    BY <1>3 DEF CInv, TypeOK, Deliver
  <2> QED
    BY <1>3, <2>1, <2>2 DEF CInv, TypeOK, storeVars, cmdVars, riskVars
<1>4. ASSUME NEW c \in ClientIds, NEW st \in VenueStates, NEW n \in 0..Size,
             venue[c].matched + n \in 0..Size, NEW t \in Topics, VenueStep(c, st, n, t)
      PROVE  Kept /\ TypeOK'
  <2>1. Msg(c, n) \in Message
    BY DEF Msg, Message
  <2>2. venue' \in [ClientIds -> [st : VenueStates, matched : 0..Size]]
    BY <1>4 DEF CInv, TypeOK, VenueStep
  <2> QED
    BY <1>3, <1>4, <2>1, <2>2 DEF VenueStep, CInv, TypeOK
<1>5. ASSUME NEW c \in ClientIds
      PROVE  /\ venue[c].matched \in 0..Size /\ venue[c].matched + 0 \in 0..Size /\ 0 \in 0..Size
             /\ {"open", "rejected", "closed"} \subseteq VenueStates
             /\ {"acks", "rejects", "fills", "cancels"} \subseteq Topics
  BY SizeAssumption DEF CInv, TypeOK, VenueStates, Topics
<1>6. ASSUME NEW c \in ClientIds, VenuePlace(c) PROVE Kept /\ TypeOK'
  BY <1>4, <1>5, <1>6 DEF VenuePlace
<1>7. ASSUME NEW c \in ClientIds, VenueRefuse(c) PROVE Kept /\ TypeOK'
  BY <1>4, <1>5, <1>7 DEF VenueRefuse
<1>8. ASSUME NEW c \in ClientIds, VenueCancel(c) PROVE Kept /\ TypeOK'
  BY <1>4, <1>5, <1>8 DEF VenueCancel
<1>9. ASSUME NEW c \in ClientIds, NEW n \in 1..Size, VenueMatch(c, n) PROVE Kept /\ TypeOK'
  <2> DEFINE st == IF venue[c].matched + n = Size THEN "closed" ELSE "open"
  <2>1. st \in VenueStates /\ n \in 0..Size /\ "fills" \in Topics
    BY <1>5
  <2>2. venue[c].matched + n \in 0..Size
    BY <1>5, <1>9, SizeAssumption DEF VenueMatch
  <2>3. VenueStep(c, st, n, "fills")
    BY <1>9 DEF VenueMatch
  <2> HIDE DEF st
  <2> QED
    BY <1>4, <2>1, <2>2, <2>3
<1>10. ASSUME NEW t \in Topics, NEW m \in sent[t], Redeliver(t, m) PROVE Kept /\ TypeOK'
  <2>1. m \in Message
    BY DEF CInv, TypeOK
  <2>2. redelivered' \in 0..MaxRedeliveries
    BY <1>10, BoundsAssumption DEF Redeliver, CInv, TypeOK
  <2>3. venue' \in [ClientIds -> [st : VenueStates, matched : 0..Size]]
    BY <1>10 DEF Redeliver, CInv, TypeOK
  <2> QED
    BY <1>3, <1>10, <2>1, <2>2, <2>3 DEF Redeliver
<1> HIDE DEF Kept
<1> QED
  BY <1>2, <1>6, <1>7, <1>8, <1>9, <1>10 DEF Environment

(* create_order. *)
LEMMA CreateOrderCounted ==
    ASSUME CInv, CreateOrder, FreshIds, UNCHANGED restarts
    PROVE  CInv'
<1>1. /\ "proposals" \in Tasks /\ task["proposals"].pc = "idle" /\ "proposals" \notin Suspended
      /\ "Created" \in EventsOf("proposals")
  BY TasksAre DEF CreateOrder, Suspended, EventsOf
<1>2. /\ proposals \in Seq(ClientIds) /\ proposals # <<>> /\ proposals' = Tail(proposals)
      /\ UNCHANGED <<approvals, idem, submitCmds, cancelCmds, inbox, venue, sent, redelivered>>
  BY DEF CreateOrder, cmdVars, venueVars, CInv, TypeOK
<1> DEFINE c == Head(proposals)
<1>3. c \in ClientIds /\ proposals' \in Seq(ClientIds)
  BY <1>2
<1>4. CASE UNCHANGED <<storeVars, log, task>>
  <2>1. UNCHANGED <<orders, clientMap, venueMap, log, task>>
    BY <1>4 DEF storeVars
  <2>2. Suspended' = Suspended /\ \A t \in Tasks : Pending(t)' = Pending(t)
    BY <2>1 DEF Suspended, Pending
  <2>3. SuspendedOK' /\ CreatedOK'
    BY <1>1, <2>1, <2>2 DEF CInv, SuspendedOK, Suspended, CreatedOK
  <2>4. IndexOK' /\ CommandsCounted' /\ TypeOK'
    BY <1>2, <1>3, <2>1 DEF CInv, IndexOK, CommandsCounted, Sent, Lives, TypeOK
  <2> QED
    BY <2>3, <2>4 DEF CInv
<1>5. CASE /\ ~IsDuplicate(c)
           /\ \E o \in OrderIds \ DOMAIN orders :
                /\ orders' = [x \in DOMAIN orders \cup {o} |->
                                IF x = o THEN [client |-> c, state |-> "NEW",
                                               filled |-> 0, venue |-> FALSE]
                                         ELSE orders[x]]
                /\ clientMap' = [clientMap EXCEPT ![c] = o]
                /\ Publish("proposals", Ev("Created", o, c, 0))
           /\ UNCHANGED venueMap
  <2> HIDE DEF c
  <2> DEFINE new == [client |-> c, state |-> "NEW", filled |-> 0, venue |-> FALSE]
             e(o) == Ev("Created", o, c, 0)
  <2>1. new \in Order /\ new.client = c
    BY <1>3 DEF Order, OrderStates
  <2> HIDE DEF new
  <2>2. PICK o \in OrderIds \ DOMAIN orders :
            /\ orders' = [x \in DOMAIN orders \cup {o} |-> IF x = o THEN new ELSE orders[x]]
            /\ clientMap' = [clientMap EXCEPT ![c] = o]
            /\ Publish("proposals", e(o))
    BY <1>5 DEF new
  <2>3. e(o) \in Event /\ e(o).type = "Created" /\ e(o).order = o /\ e(o).client = c
    BY <1>3, TasksAre, SizeAssumption DEF Ev, Event, EventTypes
  <2> HIDE DEF e
  <2>4. /\ DOMAIN orders' = DOMAIN orders \cup {o} /\ DOMAIN orders' \subseteq OrderIds
        /\ orders' \in [DOMAIN orders' -> Order] /\ orders'[o] = new
    BY <2>1, <2>2 DEF CInv, TypeOK
  <2>5. /\ log' \in Seq(Event) /\ Len(log') = Len(log) + 1
        /\ task' \in [Tasks -> [pc : PCs, at : Nat]]
        /\ task'["proposals"].pc = "Created" /\ task'["proposals"].at = Len(log')
        /\ Pending("proposals")' = e(o) /\ Suspended' = Suspended \cup {"proposals"}
        /\ \A u \in Suspended : /\ task'[u] = task[u] /\ task'[u].at \in 1..Len(log')
                                /\ Pending(u)' = Pending(u)
    <3>1. \A u \in Suspended : u \in Tasks \ {"proposals"} /\ u \in Suspended \ {"proposals"}
      BY <1>1 DEF Suspended
    <3> QED
      BY <1>1, <2>2, <2>3, <3>1, PublishSuspends DEF CInv
  <2>6. SuspendedOK'
    <3>1. Len(log') \in 1..Len(log')
      BY <2>5 DEF CInv, TypeOK
    <3> QED
      BY <1>1, <2>3, <2>4, <2>5, <3>1 DEF CInv, SuspendedOK
  <2>7. clientMap' \in Index /\ venueMap' = venueMap
    BY <1>3, <1>5, <2>2 DEF CInv, TypeOK, Index
  <2>8. TypeOK'
    BY <1>2, <1>3, <2>4, <2>5, <2>7 DEF CInv, TypeOK, Index
  <2>9. IndexOK'
    BY <1>3, <2>2, <2>4, <2>7 DEF CInv, IndexOK, TypeOK
  <2>10. CreatedOK'
    BY <1>2, <1>5, <2>1, <2>3, <2>4, <2>5 DEF CreatedOK, IsDuplicate
  <2>11. CommandsCounted'
    BY <1>2 DEF CInv, CommandsCounted, Sent, Lives
  <2> QED
    BY <2>6, <2>8, <2>9, <2>10, <2>11 DEF CInv
<1> QED
  BY <1>4, <1>5 DEF CreateOrder

LEMMA SentLemma ==
    ASSUME CInv, NEW c \in ClientIds
    PROVE  IsFiniteSet(Sent(c)) /\ Cardinality(Sent(c)) \in Nat
<1>1. Len(submitCmds) \in Nat
  BY DEF CInv, TypeOK
<1>2. IsFiniteSet(1..Len(submitCmds))
  BY <1>1, FS_Interval
<1>3. Sent(c) \subseteq 1..Len(submitCmds)
  BY DEF Sent
<1>4. IsFiniteSet(Sent(c))
  BY <1>2, <1>3, FS_Subset
<1> QED
  BY <1>4, FS_CardinalityType

LEMMA SendSubmitCounted ==
    ASSUME CInv, SendSubmit, UNCHANGED restarts
    PROVE  CInv'
<1> DEFINE o == Pending("proposals").order
           c == orders[o].client
           e == Ev("Submitted", o, c, 0)
<1>1. /\ "proposals" \in Tasks /\ task["proposals"].pc = "Created" /\ "proposals" \in Suspended
      /\ "Submitted" \in EventsOf("proposals") /\ 0 \in 0..Size
  BY TasksAre, SizeAssumption DEF SendSubmit, Suspended, EventsOf
<1>2. o \in DOMAIN orders /\ o \in OrderIds /\ c \in ClientIds /\ idem[c] = NoOrder /\ o # NoOrder
  <2>1. o \in DOMAIN orders
    BY <1>1 DEF CInv, SuspendedOK
  <2>2. c = Pending("proposals").client /\ idem[c] = NoOrder
    BY <1>1 DEF CInv, CreatedOK
  <2> QED
    BY <2>1, <2>2, OrderLemma, NoOrderAssumption
<1>3. /\ idem' = [idem EXCEPT ![c] = o] /\ submitCmds' = Append(submitCmds, c)
      /\ SetState(o, "SUBMITTED") /\ Publish("proposals", e)
      /\ UNCHANGED <<proposals, approvals, clientMap, venueMap, cancelCmds, inbox, venue, sent, redelivered>>
  BY DEF SendSubmit, RecordOrder, riskVars, venueVars
<1>4. e \in Event /\ e.type = "Submitted" /\ e.order = o
  BY <1>1, <1>2, EventType
<1> DEFINE new == [client |-> c, state |-> "SUBMITTED", filled |-> orders[o].filled,
                   venue |-> orders[o].venue]
<1>5. new \in Order /\ orders' = [orders EXCEPT ![o] = new]
  BY <1>2, <1>3, StateLemma DEF OrderStates
<1> HIDE DEF e, new
<1>6. /\ log' \in Seq(Event) /\ Len(log') = Len(log) + 1
      /\ task' \in [Tasks -> [pc : PCs, at : Nat]]
      /\ task'["proposals"].pc = "Submitted" /\ task'["proposals"].at = Len(log')
      /\ Pending("proposals")' = e /\ Suspended' = Suspended
      /\ \A u \in Suspended \ {"proposals"} :
            /\ task'[u] = task[u] /\ task'[u].at \in 1..Len(log') /\ Pending(u)' = Pending(u)
  <2>1. \A u \in Suspended \ {"proposals"} : u \in Tasks \ {"proposals"}
    BY DEF Suspended
  <2>2. TypeOK /\ SuspendedOK /\ Publish("proposals", e)
    BY <1>3 DEF CInv
  <2> HIDE DEF o, c
  <2>3. /\ log' \in Seq(Event) /\ Len(log') = Len(log) + 1
        /\ task' \in [Tasks -> [pc : PCs, at : Nat]]
        /\ task'["proposals"].pc = e.type /\ task'["proposals"].at = Len(log')
        /\ Pending("proposals")' = e /\ Suspended' = Suspended \cup {"proposals"}
        /\ \A u \in Tasks \ {"proposals"} : task'[u] = task[u]
        /\ \A u \in Suspended \ {"proposals"} : task'[u].at \in 1..Len(log') /\ Pending(u)' = Pending(u)
    BY <1>1, <1>4, <2>2, PublishSuspends
  <2> QED
    BY <1>1, <1>4, <2>1, <2>3
<1> HIDE DEF o, c
<1>7. DOMAIN orders' = DOMAIN orders /\ orders' \in [DOMAIN orders -> Order]
  BY <1>2, <1>5 DEF CInv, TypeOK
<1>8. SuspendedOK'
  <2>1. Len(log') \in 1..Len(log')
    BY <1>6 DEF CInv, TypeOK
  <2>2. ASSUME NEW u \in Suspended \ {"proposals"}
        PROVE  /\ task'[u].pc \in EventsOf(u) /\ task'[u].at \in 1..Len(log')
               /\ Pending(u)'.type = task'[u].pc /\ Pending(u)'.order \in DOMAIN orders'
    BY <1>6, <1>7 DEF CInv, SuspendedOK
  <2>3. /\ task'["proposals"].pc \in EventsOf("proposals") /\ task'["proposals"].at \in 1..Len(log')
        /\ Pending("proposals")'.type = task'["proposals"].pc
        /\ Pending("proposals")'.order \in DOMAIN orders'
    BY <1>1, <1>2, <1>4, <1>6, <1>7, <2>1
  <2> QED
    BY <1>6, <2>2, <2>3 DEF SuspendedOK
<1>9. TypeOK'
  <2>1. idem' \in [ClientIds -> OrderIds \cup {NoOrder}] /\ submitCmds' \in Seq(ClientIds)
    BY <1>2, <1>3 DEF CInv, TypeOK
  <2> QED
    BY <1>3, <1>6, <1>7, <2>1 DEF CInv, TypeOK
<1>10. IndexOK' /\ CreatedOK'
  BY <1>3, <1>6, <1>7 DEF CInv, IndexOK, CreatedOK
<1>11. CommandsCounted'
  <2> SUFFICES ASSUME NEW d \in ClientIds PROVE Cardinality(Sent(d)') <= Lives(d)'
    BY DEF CommandsCounted
  <2> DEFINE n == Len(submitCmds)
  <2>1. /\ n \in Nat /\ Len(submitCmds') = n + 1 /\ submitCmds'[n + 1] = c
        /\ \A i \in 1..n : submitCmds'[i] = submitCmds[i]
    BY <1>2, <1>3 DEF CInv, TypeOK
  <2>2. Cardinality(Sent(d)) <= Lives(d) /\ restarts \in Nat
    BY DEF CInv, CommandsCounted
  <2>3. CASE d = c
    <3>1. Sent(d)' = Sent(d) \cup {n + 1} /\ n + 1 \notin Sent(d)
      BY <2>1, <2>3 DEF Sent
    <3>2. Cardinality(Sent(d)') = Cardinality(Sent(d)) + 1
      BY <3>1, SentLemma, FS_AddElement
    <3>3. Lives(d)' = Lives(d) + 1
      BY <1>2, <1>3, <2>2, <2>3 DEF Lives, CInv, TypeOK
    <3> QED
      BY <2>2, <3>2, <3>3, SentLemma DEF Lives
  <2>4. CASE d # c
    <3>1. Sent(d)' = Sent(d)
      BY <2>1, <2>4 DEF Sent
    <3>2. Lives(d)' = Lives(d)
      BY <1>2, <1>3, <2>4 DEF Lives, CInv, TypeOK
    <3> QED
      BY <2>2, <3>1, <3>2
  <2> QED
    BY <2>3, <2>4
<1> QED
  BY <1>8, <1>9, <1>10, <1>11 DEF CInv

(* A confirmed order leaves the task idle; otherwise run() ends. *)
LEMMA ConfirmSubmittedCounted ==
    ASSUME CInv, ConfirmSubmitted, UNCHANGED restarts
    PROVE  CInv'
<1>1. UNCHANGED <<proposals, approvals, orders, clientMap, venueMap, idem, submitCmds, cancelCmds,
                  log, inbox, venue, sent, redelivered>>
  BY DEF ConfirmSubmitted, riskVars, storeVars, cmdVars, venueVars
<1>2. /\ task' \in [Tasks -> [pc : PCs, at : Nat]] /\ task'["proposals"].pc \in {"idle", "dead"}
      /\ \A t \in Suspended' : t \in Suspended /\ task'[t] = task[t]
  <2>1. CASE Resume("proposals")
    <3>1. /\ task' \in [Tasks -> [pc : PCs, at : Nat]] /\ task'["proposals"].pc = "idle"
          /\ Suspended' = Suspended \ {"proposals"}
          /\ \A u \in Tasks \ {"proposals"} : task'[u] = task[u]
      BY <1>1, <2>1, TasksAre, ResumeEnds DEF CInv
    <3> QED
      BY <3>1 DEF Suspended
  <2>2. CASE task' = [t \in Tasks |-> Dead]
    BY <2>2, TasksAre DEF Dead, Suspended, PCs
  <2> QED
    BY <2>1, <2>2 DEF ConfirmSubmitted
<1>3. TypeOK' /\ IndexOK' /\ CommandsCounted'
  BY <1>1, <1>2 DEF CInv, TypeOK, IndexOK, CommandsCounted, Sent, Lives
<1>4. SuspendedOK'
  BY <1>1, <1>2 DEF CInv, SuspendedOK, Pending
<1>5. CreatedOK'
  BY <1>2 DEF CreatedOK
<1> QED
  BY <1>3, <1>4, <1>5 DEF CInv

(* The store is rebuilt, the keys and what was under way are forgotten. *)
LEMMA RestartOK ==
    ASSUME CInv, Restart
    PROVE  CInv'
<1> DEFINE r == Rebuild(log')
<1>1. log' \in Seq(Event)
  <2>1. PICK lost : log' = Without(log, lost)
    BY DEF Restart
  <2> QED
    BY <2>1, WithoutType DEF CInv, TypeOK
<1>2. r \in Stores
  BY <1>1, RebuildType
<1>3. /\ restarts' = restarts + 1 /\ orders' = r.orders /\ clientMap' = r.clientMap
      /\ venueMap' = r.venueMap /\ idem' = Forgotten
      /\ proposals' = <<>> /\ inbox' = [t \in Topics |-> <<>>] /\ task' = [t \in Tasks |-> Idle]
      /\ UNCHANGED <<approvals, submitCmds, cancelCmds, venue, sent, redelivered>>
  BY DEF Restart, cmdVars, venueVars
<1> HIDE DEF r
<1>4. DOMAIN orders' \subseteq OrderIds /\ orders' \in [DOMAIN orders' -> Order]
  BY <1>2, <1>3, BooksLemma DEF Stores
<1>5. clientMap' \in Index /\ venueMap' \in Index /\ IndexOK'
  BY <1>2, <1>3 DEF Stores, IndexOK
<1>6. task' \in [Tasks -> [pc : PCs, at : Nat]] /\ \A t \in Tasks : task'[t].pc = "idle"
  BY <1>3 DEF Idle, PCs
<1>7. TypeOK'
  <2>1. proposals' \in Seq(ClientIds)
    BY <1>3
  <2>2. inbox' \in [Topics -> Seq(Message)]
    <3>1. <<>> \in Seq(Message)
      OBVIOUS
    <3> QED
      BY <1>3, <3>1
  <2>3. idem' \in [ClientIds -> OrderIds \cup {NoOrder}]
    BY <1>3 DEF Forgotten
  <2> QED
    BY <1>1, <1>3, <1>4, <1>5, <1>6, <2>1, <2>2, <2>3 DEF CInv, TypeOK, Index
<1>8. SuspendedOK' /\ CreatedOK'
  BY <1>6, TasksAre DEF SuspendedOK, CreatedOK, Suspended
<1>9. CommandsCounted'
  <2> SUFFICES ASSUME NEW c \in ClientIds PROVE Cardinality(Sent(c)') <= Lives(c)'
    BY DEF CommandsCounted
  <2>1. Sent(c)' = Sent(c) /\ Cardinality(Sent(c)) <= Lives(c) /\ Cardinality(Sent(c)) \in Nat
    BY <1>3, SentLemma DEF Sent, CInv, CommandsCounted
  <2>2. Lives(c)' = restarts + 1
    BY <1>3 DEF Lives, Forgotten, CInv
  <2> QED
    BY <2>1, <2>2 DEF Lives, CInv
<1> QED
  BY <1>3, <1>5, <1>7, <1>8, <1>9 DEF CInv

LEMMA RunOK ==
    ASSUME CInv, Run
    PROVE  CInv'
<1>1. UNCHANGED restarts /\ FreshIds
  BY DEF Run, CInv
<1>2. CASE ProposalsTask
  BY <1>1, <1>2, CreateOrderCounted, SendSubmitCounted, ConfirmSubmittedCounted DEF ProposalsTask
<1>3. CASE AcksTask
  BY <1>1, <1>3, ReceiveAckCounted, ApplyAckCounted DEF AcksTask
<1>4. CASE RejectsTask
  BY <1>1, <1>4, ReceiveRejectCounted, ApplyRejectCounted DEF RejectsTask
<1>5. CASE FillsTask
  BY <1>1, <1>5, ReceiveFillCounted, ApplyFillCounted DEF FillsTask
<1>6. CASE CancelsTask
  BY <1>1, <1>6, ReceiveCancelCounted, SendCancelCounted, ApplyCancelCounted DEF CancelsTask
<1>7. CASE Environment
  BY <1>1, <1>7, EnvironmentCounted
<1> QED
  BY <1>2, <1>3, <1>4, <1>5, <1>6, <1>7 DEF Run, Next, System

(* An order is routed with the order and the client of its command. *)
LEMMA RunRoutes ==
    ASSUME CInv, RoutesOK, Run
    PROVE  RoutesOK'
<1> DEFINE e == Pending("proposals")
<1>1. CASE submitCmds' = submitCmds
  <2>1. routed' = routed
    BY <1>1 DEF Run, Routes
  <2> QED
    BY <2>1 DEF RoutesOK
<1>2. CASE submitCmds' # submitCmds
  <2>1. task["proposals"].pc = "Created"
    <3>1. CASE ProposalsTask
      BY <1>2, <3>1 DEF ProposalsTask, CreateOrder, SendSubmit, ConfirmSubmitted, cmdVars
    <3>2. CASE AcksTask
      BY <1>2, <3>2 DEF AcksTask, ReceiveAck, ApplyAck, Receive, cmdVars
    <3>3. CASE RejectsTask
      BY <1>2, <3>3 DEF RejectsTask, ReceiveReject, ApplyReject, Receive, cmdVars
    <3>4. CASE FillsTask
      BY <1>2, <3>4 DEF FillsTask, ReceiveFill, ApplyFill, Receive, cmdVars
    <3>5. CASE CancelsTask
      BY <1>2, <3>5 DEF CancelsTask, ReceiveCancel, SendCancel, ApplyCancel, Receive, cmdVars
    <3>6. CASE Environment
      BY <1>2, <3>6 DEF Environment, Approve, VenuePlace, VenueRefuse, VenueCancel, VenueMatch,
                        VenueStep, Redeliver, cmdVars
    <3> QED
      BY <3>1, <3>2, <3>3, <3>4, <3>5, <3>6 DEF Run, Next, System
  <2>2. e.order \in OrderIds /\ e.client \in ClientIds
    BY <2>1, PendingLemma, OrderLemma, TasksAre
  <2>3. routed' = [o \in DOMAIN routed \cup {e.order} |->
                     IF o = e.order THEN [client |-> e.client, st |-> "sent", at |-> 0]
                                    ELSE routed[o]]
    BY <1>2 DEF Run, Routes
  <2> HIDE DEF e
  <2>4. /\ DOMAIN routed' = DOMAIN routed \cup {e.order}
        /\ routed'[e.order] = [client |-> e.client, st |-> "sent", at |-> 0]
        /\ \A o \in DOMAIN routed \ {e.order} : routed'[o] = routed[o]
    BY <2>3
  <2>5. routed'[e.order] \in Route
    BY <2>2, <2>4 DEF Route
  <2> QED
    BY <2>2, <2>4, <2>5 DEF RoutesOK
<1> QED
  BY <1>1, <1>2

(* A route that has moved on. *)
LEMMA RouteMoves ==
    ASSUME RoutesOK, NEW o \in DOMAIN routed, NEW st, NEW n \in Nat,
           st \in {"sent", "done", "gone"} \cup RouterEvents
    PROVE  [routed[o] EXCEPT !.st = st, !.at = n] \in Route
<1> DEFINE new == [client |-> routed[o].client, st |-> st, at |-> n]
<1>1. routed[o] \in Route
  BY DEF RoutesOK
<1>2. [routed[o] EXCEPT !.st = st, !.at = n] = new
  <2> DEFINE r == routed[o]
             c == routed[o].client
             mid == [r EXCEPT !.st = st]
  <2>1. r = [client |-> c, st |-> r.st, at |-> r.at]
    BY <1>1 DEF Route
  <2> HIDE DEF r, c
  <2>2. mid = [client |-> c, st |-> st, at |-> r.at]
    BY <2>1
  <2> HIDE DEF mid
  <2>3. [mid EXCEPT !.at = n] = [client |-> c, st |-> st, at |-> n]
    BY <2>2
  <2> QED
    BY <2>3 DEF mid, r, c
<1>3. new \in Route
  BY <1>1 DEF Route
<1> QED
  BY <1>2, <1>3

(* The router adds to the log, or does nothing here. *)
LEMMA RouterLogs ==
    ASSUME RInv, Router
    PROVE  /\ \/ log' = log
              \/ \E e \in Event : log' = Append(log, e) /\ e.type # "Created"
           /\ RoutesOK'
           /\ UNCHANGED <<riskVars, storeVars, idem, cmdVars, inbox, task, venueVars, restarts>>
<1>1. PICK o \in DOMAIN routed :
          RouterRejects(o) \/ RouterFills(o) \/ RouterAcks(o) \/ RouterRests(o)
  BY DEF Router
<1>2. o \in OrderIds /\ routed[o].client \in ClientIds /\ Len(log) + 1 \in Nat
  BY DEF RInv, RoutesOK, Route, CInv, TypeOK
<1>3. ASSUME NEW type \in {"Rejected", "Fill", "Ack"}, NEW n \in 0..Size, RouterSays(o, type, n)
      PROVE  /\ \E e \in Event : log' = Append(log, e) /\ e.type # "Created"
             /\ RoutesOK'
  <2> DEFINE e == Ev(type, o, routed[o].client, n)
  <2>1. e \in Event /\ e.type = type
    BY <1>2 DEF Ev, Event, EventTypes
  <2>2. log' = Append(log, e)
    BY <1>3 DEF RouterSays
  <2> HIDE DEF e
  <2> DEFINE new == [routed[o] EXCEPT !.st = type, !.at = Len(log) + 1]
  <2>3. new \in Route
    BY <1>2, RouteMoves DEF RInv, RouterEvents
  <2>4. routed' = [routed EXCEPT ![o] = new]
    BY <1>3 DEF RouterSays
  <2> HIDE DEF new
  <2>5. RoutesOK'
    BY <2>3, <2>4 DEF RInv, RoutesOK
  <2> QED
    BY <2>1, <2>2, <2>5
<1>4. CASE RouterRests(o)
  <2> DEFINE new == [routed[o] EXCEPT !.st = "done", !.at = 0]
  <2>1. new \in Route
    BY RouteMoves DEF RInv
  <2>2. routed' = [routed EXCEPT ![o] = new]
    BY <1>4 DEF RouterRests
  <2> HIDE DEF new
  <2>3. RoutesOK'
    BY <2>1, <2>2 DEF RInv, RoutesOK
  <2> QED
    BY <1>4, <2>3 DEF RouterRests, Router
<1>5. 0 \in 0..Size /\ Size \in 0..Size
  BY SizeAssumption
<1>6. CASE RouterRejects(o) \/ RouterFills(o) \/ RouterAcks(o)
  <2>1. /\ \E e \in Event : log' = Append(log, e) /\ e.type # "Created"
        /\ RoutesOK'
    BY <1>3, <1>5, <1>6 DEF RouterRejects, RouterFills, RouterAcks
  <2> QED
    BY <2>1 DEF Router
<1> QED
  BY <1>1, <1>4, <1>6

LEMMA RouterOK ==
    ASSUME RInv, Router
    PROVE  RInv'
<1>1. /\ RoutesOK'
      /\ log' = log \/ \E e \in Event : log' = Append(log, e)
      /\ UNCHANGED <<proposals, approvals, orders, clientMap, venueMap, idem, submitCmds, cancelCmds,
                     inbox, task, venue, sent, redelivered, restarts>>
  BY RouterLogs DEF riskVars, storeVars, cmdVars, venueVars
<1>2. /\ log' \in Seq(Event) /\ Len(log) \in Nat /\ Len(log') \in Nat /\ Len(log) <= Len(log')
      /\ \A i \in 1..Len(log) : log'[i] = log[i]
  <2>1. log \in Seq(Event)
    BY DEF RInv, CInv, TypeOK
  <2>2. CASE log' = log
    BY <2>1, <2>2
  <2>3. ASSUME NEW e \in Event, log' = Append(log, e)
        PROVE  /\ log' \in Seq(Event) /\ Len(log') = Len(log) + 1 /\ Len(log) \in Nat
               /\ \A i \in 1..Len(log) : log'[i] = log[i]
    BY <2>1, <2>3
  <2> QED
    BY <1>1, <2>2, <2>3
<1>3. \A t \in Suspended : task[t].at \in 1..Len(log) /\ Pending(t)' = Pending(t)
  BY <1>1, <1>2 DEF RInv, CInv, SuspendedOK, Pending
<1>4. Suspended' = Suspended
  BY <1>1 DEF Suspended
<1>5. SuspendedOK'
  BY <1>1, <1>2, <1>3, <1>4 DEF RInv, CInv, SuspendedOK
<1>6. CreatedOK'
  <2> SUFFICES ASSUME task["proposals"].pc = "Created" PROVE CreatedOK'
    BY <1>1 DEF CreatedOK
  <2>1. "proposals" \in Suspended
    BY TasksAre DEF Suspended
  <2> QED
    BY <1>1, <1>3, <2>1 DEF RInv, CInv, CreatedOK
<1>7. TypeOK' /\ IndexOK' /\ CommandsCounted'
  BY <1>1, <1>2 DEF RInv, CInv, TypeOK, IndexOK, CommandsCounted, Sent, Lives
<1> QED
  BY <1>1, <1>5, <1>6, <1>7 DEF RInv, CInv

LEMMA InitRInv == RecoveryInit => RInv
<1> SUFFICES ASSUME RecoveryInit PROVE RInv
  OBVIOUS
<1>1. /\ Init /\ restarts = 0
      /\ \A t \in Tasks : task[t].pc = "idle"
      /\ submitCmds = <<>> /\ DOMAIN orders = {}
  BY DEF RecoveryInit, Init, Idle
<1>2. orders \in [DOMAIN orders -> Order]
  BY <1>1
<1>3. log \in Seq(Event) /\ submitCmds \in Seq(ClientIds) /\ cancelCmds \in Seq(OrderIds)
  BY <1>1 DEF Init
<1>4. inbox \in [Topics -> Seq(Message)] /\ proposals \in Seq(ClientIds)
  <2>1. <<>> \in Seq(Message)
    OBVIOUS
  <2> QED
    BY <1>1, <2>1 DEF Init
<1>5. venue \in [ClientIds -> [st : VenueStates, matched : 0..Size]] /\ sent \in [Topics -> SUBSET Message]
  BY <1>1, SizeAssumption DEF Init, VenueStates
<1>6. task \in [Tasks -> [pc : PCs, at : Nat]]
  BY <1>1 DEF Init, Idle, PCs
<1>7. TypeOK
  BY <1>1, <1>2, <1>3, <1>4, <1>5, <1>6, BoundsAssumption DEF TypeOK, Init
<1>8. SuspendedOK /\ CreatedOK
  BY <1>1, TasksAre DEF SuspendedOK, CreatedOK, Suspended
<1>9. IndexOK
  BY <1>1 DEF Init, IndexOK
<1>10. CommandsCounted
  <2> SUFFICES ASSUME NEW c \in ClientIds PROVE Cardinality(Sent(c)) <= Lives(c)
    BY DEF CommandsCounted
  <2>1. Sent(c) = {}
    BY <1>1 DEF Sent
  <2>2. Lives(c) = 0
    BY <1>1 DEF Lives, Init
  <2> QED
    BY <2>1, <2>2, FS_EmptySet
<1>11. RoutesOK
  BY DEF RecoveryInit, RoutesOK
<1> QED
  BY <1>1, <1>7, <1>8, <1>9, <1>10, <1>11 DEF CInv, RInv

LEMMA NextRInv == RInv /\ [RecoveryNext]_recoveryVars => RInv'
<1> SUFFICES ASSUME RInv, [RecoveryNext]_recoveryVars PROVE RInv'
  OBVIOUS
<1>1. CASE UNCHANGED recoveryVars
  <2>1. Suspended' = Suspended /\ \A t \in Tasks : Pending(t)' = Pending(t)
    BY <1>1 DEF recoveryVars, vars, Suspended, Pending
  <2>2. SuspendedOK' /\ CreatedOK'
    BY <1>1, <2>1, TasksAre DEF recoveryVars, vars, RInv, CInv, SuspendedOK, Suspended, CreatedOK
  <2>3. TypeOK' /\ IndexOK' /\ CommandsCounted'
    BY <1>1 DEF recoveryVars, vars, RInv, CInv, TypeOK, IndexOK, CommandsCounted, Sent, Lives
  <2>4. RoutesOK'
    BY <1>1 DEF recoveryVars, RInv, RoutesOK
  <2> QED
    BY <1>1, <2>2, <2>3, <2>4 DEF recoveryVars, RInv, CInv
<1>2. CASE Run
  <2>1. CInv'
    BY <1>2, RunOK DEF RInv
  <2>2. RoutesOK'
    BY <1>2, RunRoutes DEF RInv
  <2> QED
    BY <2>1, <2>2 DEF RInv
<1>3. CASE Router
  BY <1>3, RouterOK
<1>4. CASE Restart
  <2>1. CInv'
    BY <1>4, RestartOK DEF RInv
  <2>2. RoutesOK'
    <3> SUFFICES ASSUME NEW o \in DOMAIN routed PROVE o \in OrderIds /\ routed'[o] \in Route
      BY <1>4 DEF Restart, RoutesOK
    <3> DEFINE st == IF routed[o].st = "done" THEN "done" ELSE "gone"
    <3>1. routed'[o] = [routed[o] EXCEPT !.st = st, !.at = 0]
      BY <1>4 DEF Restart
    <3>2. st \in {"done", "gone"}
      OBVIOUS
    <3> HIDE DEF st
    <3>3. [routed[o] EXCEPT !.st = st, !.at = 0] \in Route
      BY <3>2, RouteMoves DEF RInv
    <3> QED
      BY <3>1, <3>3 DEF RInv, RoutesOK
  <2> QED
    BY <2>1, <2>2 DEF RInv
<1> QED
  BY <1>1, <1>2, <1>3, <1>4 DEF RecoveryNext

THEOREM RecoveryInvariance == RecoverySpec => []RInv
  BY InitRInv, NextRInv, PTL DEF RecoverySpec

(* However often an intent is approved, it is submitted at most once       *)
(* between two restarts, although the key is recorded only after the       *)
(* publish of OrderCreatedEvent and no restart rebuilds it.                *)
THEOREM OneSubmitPerLife == RecoverySpec => []SubmittedOncePerLife
<1>1. CInv => SubmittedOncePerLife
  <2> SUFFICES ASSUME CInv, NEW c \in ClientIds PROVE Cardinality(Sent(c)) <= 1 + restarts
    BY DEF SubmittedOncePerLife, Sent
  <2> QED
    BY SentLemma DEF CInv, CommandsCounted, Lives
<1> QED
  BY <1>1, RecoveryInvariance, PTL DEF RInv

-----------------------------------------------------------------------------
(* What a rebuild knows and the store knows. *)

(* b is what became of the order a. *)
Extends(a, b) ==
    /\ b.client = a.client /\ a.filled <= b.filled
    /\ a.venue = TRUE => b.venue = TRUE
    /\ a.state \in TerminalStates => b.state = a.state

(* What the rebuild has made of an event that the store has yet to apply   *)
(* to an order of which n units are filled.                                *)
Applied(e, b, n) ==
    /\ e.type = "Rejected" => b.state = "REJECTED"
    /\ e.type = "Canceled" => b.state = "CANCELLED"
    /\ e.type = "Ack" => b.venue = TRUE
    /\ e.type = "Fill" => n + e.size <= b.filled

Ahead ==
    LET r == Rebuild(log) IN
    r.ok = TRUE =>
        /\ DOMAIN r.orders = DOMAIN orders /\ r.clientMap = clientMap
        /\ \A o \in DOMAIN orders : Extends(orders[o], r.orders[o])
        /\ \A t \in Suspended : Applied(Pending(t), r.orders[Pending(t).order],
                                       orders[Pending(t).order].filled)

(* A step of a rebuild that does not break it off. *)
LEMMA ReplayGrows ==
    ASSUME NEW s \in Stores, NEW e \in Event, Replay(e, s).ok = TRUE, e.type # "Created"
    PROVE  /\ s.ok = TRUE /\ DOMAIN Replay(e, s).orders = DOMAIN s.orders
           /\ Replay(e, s).clientMap = s.clientMap
           /\ \A o \in DOMAIN s.orders : Extends(s.orders[o], Replay(e, s).orders[o])
           /\ e.order \in DOMAIN s.orders =>
                 LET a == s.orders[e.order]
                     b == Replay(e, s).orders[e.order]
                 IN /\ e.type = "Rejected" => b.state = "REJECTED"
                    /\ e.type = "Canceled" => b.state = "CANCELLED"
                    /\ e.type = "Ack" => b.venue = TRUE
                    /\ e.type = "Fill" => b.filled = a.filled + e.size
<1>1. /\ s.ok \in BOOLEAN /\ e.type \in EventTypes /\ e.size \in Nat
      /\ s.orders \in [DOMAIN s.orders -> Order]
  BY BooksLemma, SizeAssumption DEF Stores, Event
<1>2. e.type \in Moving \/ e.type = "CancelRequested"
  BY <1>1 DEF EventTypes, Moving
<1>3. \A o \in DOMAIN s.orders : Extends(s.orders[o], s.orders[o])
  BY <1>1 DEF Extends, Order
<1>4. CASE Same(e, s)
  <2>1. Replay(e, s) = s
    BY <1>4, ReplaySame
  <2>2. s.ok = TRUE
    BY <2>1
  <2>3. e.order \in DOMAIN s.orders => e.type = "CancelRequested"
    BY <1>4, <2>2 DEF Same
  <2> QED
    BY <1>3, <2>1, <2>2, <2>3
<1>5. CASE ~Same(e, s)
  <2>1. s.ok = TRUE /\ e.type \in Moving /\ e.order \in DOMAIN s.orders
    BY <1>1, <1>2, <1>5 DEF Same
  <2> DEFINE a == s.orders[e.order]
             b == Booked(a, e)
  <2>2. Takes(a, e)
    <3>1. ASSUME ~Takes(a, e) PROVE FALSE
      <4>1. Replay(e, s) = [ok |-> FALSE, orders |-> s.orders, clientMap |-> s.clientMap,
                            venueMap |-> s.venueMap]
        BY <2>1, <3>1, ReplayBroken
      <4> QED
        BY <4>1
    <3> QED
      BY <3>1
  <2>3. a \in Order
    BY <1>1, <2>1
  <2>4. Replay(e, s) = [ok |-> TRUE,
                        orders |-> [s.orders EXCEPT ![e.order] = b],
                        clientMap |-> s.clientMap,
                        venueMap |-> IF e.type = "Ack" THEN [s.venueMap EXCEPT ![e.client] = e.order]
                                     ELSE s.venueMap]
    BY <2>1, <2>2, ReplayMoved
  <2>5. b = [client |-> a.client, state |-> Target(a, e),
             filled |-> IF e.type = "Fill" THEN a.filled + e.size ELSE a.filled,
             venue  |-> a.venue \/ e.type = "Ack"]
    BY <2>1, <2>3, BookedType
  <2>6. a.state \in TerminalStates => Target(a, e) = a.state
    BY <2>1, <2>2, <2>3, BookedKeeps
  <2> HIDE DEF a, b
  <2>7. /\ e.type = "Rejected" => b.state = "REJECTED"
        /\ e.type = "Canceled" => b.state = "CANCELLED"
        /\ e.type = "Fill" => b.filled = a.filled + e.size
    BY <2>5 DEF Target
  <2>8. (a.venue = TRUE => b.venue = TRUE) /\ (e.type = "Ack" => b.venue = TRUE)
    BY <2>5
  <2>9. Extends(a, b)
    BY <1>1, <2>3, <2>5, <2>6, <2>8 DEF Extends, Order
  <2>10. /\ DOMAIN Replay(e, s).orders = DOMAIN s.orders
         /\ Replay(e, s).orders[e.order] = b
         /\ \A o \in DOMAIN s.orders \ {e.order} : Replay(e, s).orders[o] = s.orders[o]
         /\ Replay(e, s).clientMap = s.clientMap
    BY <2>1, <2>4
  <2>11. ASSUME NEW o \in DOMAIN s.orders PROVE Extends(s.orders[o], Replay(e, s).orders[o])
    BY <1>3, <2>9, <2>10 DEF a
  <2> QED
    BY <2>1, <2>7, <2>8, <2>10, <2>11 DEF a
<1> QED
  BY <1>4, <1>5

LEMMA ExtendsTwice ==
    ASSUME NEW a \in Order, NEW b \in Order, NEW c \in Order, Extends(a, b), Extends(b, c)
    PROVE  Extends(a, c)
BY DEF Extends, Order

(* The orders of the two, as values. *)
LEMMA AheadTypes ==
    ASSUME CInv, Rebuild(log).ok = TRUE, Ahead
    PROVE  /\ Rebuild(log) \in Stores
           /\ \A o \in DOMAIN orders :
                 orders[o] \in Order /\ Rebuild(log).orders[o] \in Order
<1>1. Rebuild(log) \in Stores
  BY RebuildType DEF CInv, TypeOK
<1>2. Rebuild(log).orders \in [DOMAIN Rebuild(log).orders -> Order]
  BY <1>1, BooksLemma DEF Stores
<1> QED
  BY <1>1, <1>2 DEF Ahead, CInv, TypeOK

(* One more event in the log. *)
LEMMA LogGrows ==
    ASSUME CInv, Ahead, NEW e \in Event, log' = Append(log, e), e.type # "Created",
           Rebuild(log').ok = TRUE
    PROVE  LET r == Rebuild(log)
               q == Rebuild(log')
           IN /\ r.ok = TRUE /\ DOMAIN q.orders = DOMAIN orders /\ q.clientMap = clientMap
              /\ \A o \in DOMAIN orders :
                    q.orders[o] \in Order /\ Extends(orders[o], q.orders[o])
                                        /\ Extends(r.orders[o], q.orders[o])
              /\ e.order \in DOMAIN orders =>
                    Applied(e, q.orders[e.order], orders[e.order].filled)
<1> DEFINE r == Rebuild(log)
           q == Rebuild(log')
<1>1. log \in Seq(Event) /\ r \in Stores /\ q = Replay(e, r) /\ q \in Stores
  BY RebuildType, RebuildAppend, ReplayType DEF CInv, TypeOK
<1>7. Replay(e, r).ok = TRUE
  BY <1>1
<1> HIDE DEF r, q
<1>2. /\ r.ok = TRUE /\ DOMAIN q.orders = DOMAIN r.orders /\ q.clientMap = r.clientMap
      /\ \A o \in DOMAIN r.orders : Extends(r.orders[o], q.orders[o])
      /\ e.order \in DOMAIN r.orders =>
              /\ e.type = "Rejected" => q.orders[e.order].state = "REJECTED"
              /\ e.type = "Canceled" => q.orders[e.order].state = "CANCELLED"
              /\ e.type = "Ack" => q.orders[e.order].venue = TRUE
              /\ e.type = "Fill" => q.orders[e.order].filled = r.orders[e.order].filled + e.size
  <2>1. /\ r.ok = TRUE /\ DOMAIN Replay(e, r).orders = DOMAIN r.orders
        /\ Replay(e, r).clientMap = r.clientMap
        /\ \A o \in DOMAIN r.orders : Extends(r.orders[o], Replay(e, r).orders[o])
    BY <1>1, <1>7, ReplayGrows
  <2>2. e.order \in DOMAIN r.orders =>
            LET a == r.orders[e.order]
                b == Replay(e, r).orders[e.order]
            IN /\ e.type = "Rejected" => b.state = "REJECTED"
               /\ e.type = "Canceled" => b.state = "CANCELLED"
               /\ e.type = "Ack" => b.venue = TRUE
               /\ e.type = "Fill" => b.filled = a.filled + e.size
    BY <1>1, <1>7, ReplayGrows
  <2> QED
    BY <1>1, <2>1, <2>2
<1>3. /\ DOMAIN r.orders = DOMAIN orders /\ r.clientMap = clientMap
      /\ \A o \in DOMAIN orders : Extends(orders[o], r.orders[o])
      /\ \A o \in DOMAIN orders : orders[o] \in Order /\ r.orders[o] \in Order
  BY <1>2, AheadTypes DEF Ahead, r
<1>4. q.orders \in [DOMAIN q.orders -> Order]
  BY <1>1, BooksLemma DEF Stores
<1>5. ASSUME NEW o \in DOMAIN orders
      PROVE  q.orders[o] \in Order /\ Extends(orders[o], q.orders[o])
  BY <1>2, <1>3, <1>4, ExtendsTwice
<1>6. ASSUME e.order \in DOMAIN orders 
      PROVE  Applied(e, q.orders[e.order], orders[e.order].filled)
  <2> DEFINE o == e.order
  <2>1. orders[o].filled <= r.orders[o].filled
    BY <1>3, <1>6 DEF Extends
  <2>2. e.size \in Nat /\ orders[o].filled \in Nat /\ r.orders[o].filled \in Nat
    BY <1>3, <1>6, SizeAssumption DEF Event, Order
  <2> QED
    BY <1>2, <1>3, <1>6, <2>1, <2>2 DEF Applied
<1> QED
  BY <1>2, <1>3, <1>5, <1>6 DEF r, q

(* What was applied stays applied. *)
LEMMA StaysApplied ==
    ASSUME NEW e \in Event, NEW a \in Order, NEW b \in Order, NEW n \in Nat,
           Applied(e, a, n), Extends(a, b)
    PROVE  Applied(e, b, n)
<1>1. e.size \in Nat
  BY SizeAssumption DEF Event
<1> QED
  BY <1>1 DEF Applied, Extends, Order, TerminalStates

(* The store and its tasks are left alone, the log may grow. *)
LEMMA AloneAhead ==
    ASSUME CInv, Ahead, UNCHANGED <<orders, clientMap, task>>,
           log' = log \/ \E e \in Event : log' = Append(log, e) /\ e.type # "Created"
    PROVE  Ahead'
<1>1. Suspended' = Suspended /\ \A t \in Suspended : t \in Tasks /\ task[t].pc \notin {"idle", "dead"}
  BY DEF Suspended
<1>2. CASE log' = log
  <2>1. \A t \in Suspended : Pending(t)' = Pending(t)
    BY <1>2 DEF Pending
  <2> QED
    BY <1>1, <1>2, <2>1 DEF Ahead, Applied
<1>3. ASSUME NEW e \in Event, log' = Append(log, e), e.type # "Created" PROVE Ahead'
  <2> DEFINE r == Rebuild(log)
             q == Rebuild(log')
             b(t) == q.orders[Pending(t).order]
             n(t) == orders[Pending(t).order].filled
  <2> SUFFICES ASSUME q.ok = TRUE PROVE Ahead'
    BY DEF Ahead
  <2>1. /\ r.ok = TRUE /\ DOMAIN q.orders = DOMAIN orders /\ q.clientMap = clientMap
        /\ \A o \in DOMAIN orders :
              q.orders[o] \in Order /\ Extends(orders[o], q.orders[o])
                                  /\ Extends(r.orders[o], q.orders[o])
    BY <1>3, LogGrows
  <2>2. \A o \in DOMAIN orders : orders[o] \in Order /\ r.orders[o] \in Order
    BY <2>1, AheadTypes
  <2>3. ASSUME NEW t \in Suspended
        PROVE  Pending(t)' = Pending(t) /\ Applied(Pending(t), b(t), n(t))
    <3>1. /\ Pending(t) \in Event /\ Pending(t).order \in DOMAIN orders
          /\ task[t].at \in 1..Len(log)
      BY <1>1, PendingLemma
    <3>2. Pending(t)' = Pending(t)
      BY <1>3, <3>1 DEF Pending, CInv, TypeOK
    <3>3. Applied(Pending(t), r.orders[Pending(t).order], n(t))
      BY <2>1 DEF Ahead
    <3>4. n(t) \in Nat
      BY <2>2, <3>1 DEF Order
    <3> HIDE DEF r, q, n
    <3> QED
      BY <2>1, <2>2, <3>1, <3>2, <3>3, <3>4, StaysApplied
  <2> HIDE DEF b, n, r
  <2>4. /\ DOMAIN q.orders = DOMAIN orders' /\ q.clientMap = clientMap'
        /\ \A o \in DOMAIN orders' : Extends(orders'[o], q.orders[o])
    BY <2>1
  <2>5. ASSUME NEW t \in Suspended'
        PROVE  Applied(Pending(t)', q.orders[Pending(t)'.order], orders'[Pending(t)'.order].filled)
    BY <1>1, <2>3 DEF b, n
  <2> HIDE DEF q
  <2> QED
    BY <2>4, <2>5 DEF Ahead, q
<1> QED
  BY <1>2, <1>3

(* A task publishes an event about an order.  It has changed no more of    *)
(* the order than the event tells.                                         *)
LEMMA PublishAhead ==
    ASSUME CInv, Ahead, NEW t \in Tasks, NEW e \in Event, Publish(t, e), e.type # "Created",
           e.order \in DOMAIN orders, NEW new \in Order,
           orders' = [orders EXCEPT ![e.order] = new], clientMap' = clientMap,
           new.client = orders[e.order].client, new.filled = orders[e.order].filled,
           new.venue = TRUE => orders[e.order].venue = TRUE \/ e.type = "Ack",
           new.state \in TerminalStates => new.state = orders[e.order].state
    PROVE  Ahead'
<1> DEFINE r == Rebuild(log)
           q == Rebuild(log')
           b(u) == q.orders[Pending(u).order]
           n(u) == orders[Pending(u).order].filled
           o == e.order
<1> SUFFICES ASSUME q.ok = TRUE PROVE Ahead'
  BY DEF Ahead
<1>1. log' = Append(log, e)
  BY DEF Publish
<1>2. /\ r.ok = TRUE /\ DOMAIN q.orders = DOMAIN orders /\ q.clientMap = clientMap
      /\ \A x \in DOMAIN orders :
            q.orders[x] \in Order /\ Extends(orders[x], q.orders[x])
                                /\ Extends(r.orders[x], q.orders[x])
      /\ Applied(e, q.orders[o], orders[o].filled)
  BY <1>1, LogGrows
<1>3. \A x \in DOMAIN orders : orders[x] \in Order /\ r.orders[x] \in Order
  BY <1>2, AheadTypes
<1>4. /\ DOMAIN orders' = DOMAIN orders /\ orders'[o] = new
      /\ \A x \in DOMAIN orders \ {o} : orders'[x] = orders[x]
      /\ \A x \in DOMAIN orders : orders'[x].filled = orders[x].filled
  OBVIOUS
<1>5. Extends(new, q.orders[o])
  BY <1>2, <1>3 DEF Extends, Applied
<1>6. /\ Pending(t)' = e /\ Suspended' = Suspended \cup {t}
      /\ \A u \in Suspended \ {t} : Pending(u)' = Pending(u)
  BY PublishSuspends DEF CInv
<1>7. ASSUME NEW u \in Suspended
      PROVE  Applied(Pending(u), b(u), n(u)) /\ Pending(u).order \in DOMAIN orders
  <2>1. Pending(u) \in Event /\ Pending(u).order \in DOMAIN orders
    BY PendingLemma DEF Suspended
  <2>2. Applied(Pending(u), r.orders[Pending(u).order], n(u))
    BY <1>2 DEF Ahead
  <2>3. n(u) \in Nat
    BY <1>3, <2>1 DEF Order
  <2> HIDE DEF r, q, n
  <2> QED
    BY <1>2, <1>3, <2>1, <2>2, <2>3, StaysApplied
<1> HIDE DEF r, b, n, o
<1>8. /\ DOMAIN q.orders = DOMAIN orders' /\ q.clientMap = clientMap'
      /\ \A x \in DOMAIN orders' : Extends(orders'[x], q.orders[x])
  BY <1>2, <1>4, <1>5
<1>9. ASSUME NEW u \in Suspended'
      PROVE  Applied(Pending(u)', q.orders[Pending(u)'.order], orders'[Pending(u)'.order].filled)
  <2>1. CASE u = t
    BY <1>2, <1>4, <1>6, <2>1 DEF o
  <2>2. CASE u # t
    <3>1. u \in Suspended /\ Pending(u)' = Pending(u)
      BY <1>6, <2>2
    <3>2. Applied(Pending(u), b(u), n(u)) /\ orders'[Pending(u).order].filled = n(u)
      BY <1>4, <1>7, <3>1 DEF n
    <3> QED
      BY <3>1, <3>2 DEF b
  <2> QED
    BY <2>1, <2>2
<1> HIDE DEF q
<1> QED
  BY <1>8, <1>9 DEF Ahead, q

(* A task has applied its event, to an order that is still behind what the *)
(* rebuild makes of it.                                                    *)
LEMMA EndAhead ==
    ASSUME CInv, Ahead, NEW t \in Tasks, task[t].pc \notin {"idle", "dead"}, Resume(t), log' = log,
           NEW new \in Order, orders' = [orders EXCEPT ![Pending(t).order] = new],
           clientMap' = clientMap,
           new.filled = orders[Pending(t).order].filled \/ Pending(t).type = "Fill",
           Rebuild(log).ok = TRUE => Extends(new, Rebuild(log).orders[Pending(t).order])
    PROVE  Ahead'
<1> DEFINE r == Rebuild(log)
           o == Pending(t).order
<1> SUFFICES ASSUME r.ok = TRUE PROVE Ahead'
  BY DEF Ahead
<1>1. o \in DOMAIN orders /\ Pending(t).type \in EventsOf(t)
  BY PendingLemma
<1>2. Suspended' = Suspended \ {t} /\ \A u \in Tasks \ {t} : Pending(u)' = Pending(u)
  BY ResumeEnds DEF CInv
<1>3. /\ DOMAIN r.orders = DOMAIN orders /\ r.clientMap = clientMap
      /\ \A x \in DOMAIN orders : Extends(orders[x], r.orders[x])
      /\ \A u \in Suspended : Applied(Pending(u), r.orders[Pending(u).order],
                                      orders[Pending(u).order].filled)
  BY DEF Ahead
<1>4. /\ DOMAIN orders' = DOMAIN orders /\ orders'[o] = new
      /\ \A x \in DOMAIN orders \ {o} : orders'[x] = orders[x]
  BY <1>1
<1>5. Extends(new, r.orders[o])
  OBVIOUS
<1>6. ASSUME NEW u \in Suspended'
      PROVE  Applied(Pending(u)', r.orders[Pending(u)'.order], orders'[Pending(u)'.order].filled)
  <2>1. u \in Tasks /\ u # t /\ u \in Suspended /\ Pending(u)' = Pending(u)
    BY <1>2 DEF Suspended
  <2>2. Pending(u).order \in DOMAIN orders /\ Pending(u).type \in EventsOf(u)
    BY <2>1, PendingLemma DEF Suspended
  <2>3. orders'[Pending(u).order].filled = orders[Pending(u).order].filled \/ Pending(u).type # "Fill"
    <3>1. Pending(t).type = "Fill" => Pending(u).type # "Fill"
      BY <1>1, <2>1, <2>2, TasksAre
    <3> QED
      BY <1>4, <2>2, <3>1
  <2> QED
    BY <1>3, <2>1, <2>3 DEF Applied
<1> HIDE DEF o
<1>7. /\ DOMAIN r.orders = DOMAIN orders' /\ r.clientMap = clientMap'
      /\ \A x \in DOMAIN orders' : Extends(orders'[x], r.orders[x])
  BY <1>3, <1>4, <1>5
<1>8. r = Rebuild(log')
  OBVIOUS
<1> HIDE DEF r
<1> QED
  BY <1>6, <1>7, <1>8 DEF Ahead

(* ... or has left the order as it is. *)
LEMMA NothingAhead ==
    ASSUME CInv, Ahead, UNCHANGED <<orders, clientMap, log>>,
           \A u \in Suspended' : u \in Suspended /\ task'[u] = task[u]
    PROVE  Ahead'
<1>1. \A u \in Suspended' : Pending(u)' = Pending(u)
  BY DEF Pending
<1> QED
  BY <1>1 DEF Ahead

LEMMA PublishOnlyAhead ==
    ASSUME CInv, Ahead, NEW t \in Tasks, NEW type \in EventsOf(t), type # "Created",
           NEW o \in DOMAIN orders, NEW c \in ClientIds, NEW n \in 0..Size,
           Publish(t, Ev(type, o, c, n)), UNCHANGED <<orders, clientMap>>
    PROVE  Ahead'
<1> DEFINE e == Ev(type, o, c, n)
           new == orders[o]
<1>1. e \in Event /\ e.type = type /\ e.order = o /\ Publish(t, e)
  BY EventType
<1>2. new \in Order /\ orders' = [orders EXCEPT ![o] = new]
  BY OrderLemma DEF CInv, TypeOK
<1>3. /\ new.client = orders[o].client /\ new.filled = orders[o].filled
      /\ new.venue = orders[o].venue /\ new.state = orders[o].state
  OBVIOUS
<1>4. e.type # "Created" /\ e.order \in DOMAIN orders
  BY <1>1
<1> HIDE DEF e, new
<1>5. /\ orders' = [orders EXCEPT ![e.order] = new] /\ clientMap' = clientMap
      /\ new.client = orders[e.order].client /\ new.filled = orders[e.order].filled
      /\ new.venue = TRUE => orders[e.order].venue = TRUE \/ e.type = "Ack"
      /\ new.state \in TerminalStates => new.state = orders[e.order].state
  BY <1>1, <1>2, <1>3
<1> QED
  BY <1>1, <1>2, <1>4, <1>5, PublishAhead

(* A message that is dropped. *)
LEMMA DropAhead ==
    ASSUME CInv, Ahead, Drop, clientMap' = clientMap
    PROVE  Ahead'
BY AloneAhead DEF Drop

LEMMA CreateOrderAhead ==
    ASSUME CInv, Ahead, CreateOrder
    PROVE  Ahead'
<1> DEFINE c == Head(proposals)
<1>1. c \in ClientIds
  BY DEF CreateOrder, CInv, TypeOK
<1>2. CASE UNCHANGED <<storeVars, log, task>>
  BY <1>2, AloneAhead DEF storeVars
<1>3. CASE \E o \in OrderIds \ DOMAIN orders :
                /\ orders' = [x \in DOMAIN orders \cup {o} |->
                                IF x = o THEN [client |-> c, state |-> "NEW",
                                               filled |-> 0, venue |-> FALSE]
                                         ELSE orders[x]]
                /\ clientMap' = [clientMap EXCEPT ![c] = o]
                /\ Publish("proposals", Ev("Created", o, c, 0))
  <2> HIDE DEF c
  <2> DEFINE new == [client |-> c, state |-> "NEW", filled |-> 0, venue |-> FALSE]
             e(o) == Ev("Created", o, c, 0)
             r == Rebuild(log)
             q == Rebuild(log')
  <2>1. PICK o \in OrderIds \ DOMAIN orders :
            /\ orders' = [x \in DOMAIN orders \cup {o} |-> IF x = o THEN new ELSE orders[x]]
            /\ clientMap' = [clientMap EXCEPT ![c] = o]
            /\ Publish("proposals", e(o))
    BY <1>3
  <2>2. e(o) \in Event /\ e(o).type = "Created" /\ e(o).order = o /\ e(o).client = c
    BY <1>1, TasksAre, SizeAssumption DEF Ev, Event, EventTypes
  <2> HIDE DEF e
  <2>3. "proposals" \in Tasks /\ "proposals" \notin Suspended
    BY TasksAre DEF CreateOrder, Suspended
  <2>4. /\ Pending("proposals")' = e(o) /\ Suspended' = Suspended \cup {"proposals"}
        /\ \A u \in Suspended : Pending(u)' = Pending(u)
    BY <2>1, <2>2, <2>3, PublishSuspends DEF CInv
  <2> SUFFICES ASSUME q.ok = TRUE PROVE Ahead'
    BY DEF Ahead
  <2>5. r \in Stores /\ q = Replay(e(o), r)
    BY <2>1, <2>2, RebuildType, RebuildAppend DEF CInv, TypeOK, Publish
  <2> HIDE DEF q
  <2>6. r.ok = TRUE
    <3>1. ASSUME r.ok # TRUE PROVE FALSE
      <4>1. r.ok = FALSE
        BY <2>5, <3>1 DEF Stores
      <4>2. q = r
        BY <2>2, <2>5, <4>1, ReplaySame DEF Same
      <4> QED
        BY <4>1, <4>2
    <3> QED
      BY <3>1
  <2>7. /\ DOMAIN r.orders = DOMAIN orders /\ r.clientMap = clientMap
        /\ \A x \in DOMAIN orders : Extends(orders[x], r.orders[x])
        /\ \A u \in Suspended : Applied(Pending(u), r.orders[Pending(u).order],
                                        orders[Pending(u).order].filled)
    BY <2>6 DEF Ahead
  <2> HIDE DEF r
  <2>8. q = [ok |-> TRUE,
             orders |-> [x \in DOMAIN r.orders \cup {o} |-> IF x = o THEN new ELSE r.orders[x]],
             clientMap |-> [r.clientMap EXCEPT ![c] = o], venueMap |-> r.venueMap]
    <3> DEFINE ev == e(o)
    <3>1. /\ ev \in Event /\ ev.type = "Created" /\ ev.order = o /\ ev.client = c
          /\ q = Replay(ev, r) /\ ev.order \notin DOMAIN r.orders
      BY <2>1, <2>2, <2>5, <2>7
    <3> HIDE DEF ev
    <3>2. Replay(ev, r) =
               [ok |-> TRUE,
                orders |-> [x \in DOMAIN r.orders \cup {ev.order} |->
                              IF x = ev.order THEN [client |-> ev.client, state |-> "NEW",
                                                    filled |-> 0, venue |-> FALSE]
                                              ELSE r.orders[x]],
                clientMap |-> [r.clientMap EXCEPT ![ev.client] = ev.order],
                venueMap |-> r.venueMap]
      BY <2>5, <2>6, <3>1, ReplayCreated
    <3> QED
      BY <3>1, <3>2
  <2>9. Extends(new, new) /\ new.filled = 0
    BY DEF Extends
  <2> HIDE DEF new
  <2>10. /\ DOMAIN q.orders = DOMAIN orders' /\ q.clientMap = clientMap'
         /\ \A x \in DOMAIN orders : q.orders[x] = r.orders[x] /\ orders'[x] = orders[x]
         /\ q.orders[o] = new /\ orders'[o] = new
    BY <2>1, <2>7, <2>8
  <2>11. \A x \in DOMAIN orders' : Extends(orders'[x], q.orders[x])
    BY <2>1, <2>7, <2>9, <2>10
  <2>12. ASSUME NEW u \in Suspended'
         PROVE  Applied(Pending(u)', q.orders[Pending(u)'.order], orders'[Pending(u)'.order].filled)
    <3>1. CASE u = "proposals"
      BY <2>2, <2>4, <3>1 DEF Applied
    <3>2. CASE u # "proposals"
      <4>1. u \in Suspended /\ Pending(u)' = Pending(u)
        BY <2>4, <3>2
      <4>2. Pending(u).order \in DOMAIN orders
        BY <4>1, PendingLemma DEF Suspended
      <4> QED
        BY <2>7, <2>10, <4>1, <4>2
    <3> QED
      BY <3>1, <3>2
  <2> QED
    BY <2>10, <2>11, <2>12 DEF Ahead, q
<1> QED
  BY <1>2, <1>3 DEF CreateOrder

LEMMA SendSubmitAhead ==
    ASSUME CInv, Ahead, SendSubmit
    PROVE  Ahead'
<1> DEFINE o == Pending("proposals").order
           c == orders[o].client
           e == Ev("Submitted", o, c, 0)
           new == [client |-> c, state |-> "SUBMITTED", filled |-> orders[o].filled,
                   venue |-> orders[o].venue]
<1>1. "proposals" \in Tasks /\ "Submitted" \in EventsOf("proposals") /\ 0 \in 0..Size
  BY TasksAre, SizeAssumption DEF EventsOf
<1>2. o \in DOMAIN orders /\ c \in ClientIds
  <2>1. o \in DOMAIN orders
    BY <1>1, PendingLemma DEF SendSubmit
  <2> QED
    BY <2>1, OrderLemma
<1>3. e \in Event /\ e.type = "Submitted" /\ e.order = o
  BY <1>1, <1>2, EventType
<1>4. SetState(o, "SUBMITTED") /\ Publish("proposals", e) /\ clientMap' = clientMap
  BY DEF SendSubmit
<1>5. new \in Order /\ orders' = [orders EXCEPT ![o] = new]
  BY <1>2, <1>4, StateLemma DEF OrderStates
<1>6. /\ new.client = orders[o].client /\ new.filled = orders[o].filled
      /\ new.venue = orders[o].venue /\ new.state \notin TerminalStates
  BY DEF TerminalStates
<1> HIDE DEF e, new, c, o
<1> QED
  BY <1>1, <1>2, <1>3, <1>4, <1>5, <1>6, PublishAhead

LEMMA ConfirmSubmittedAhead ==
    ASSUME CInv, Ahead, ConfirmSubmitted
    PROVE  Ahead'
<1>1. UNCHANGED <<orders, clientMap, log>>
  BY DEF ConfirmSubmitted, storeVars
<1>2. \A t \in Suspended' : t \in Suspended /\ task'[t] = task[t]
  <2>1. CASE Resume("proposals")
    <3>1. /\ Suspended' = Suspended \ {"proposals"}
          /\ \A u \in Tasks \ {"proposals"} : task'[u] = task[u]
      BY <1>1, <2>1, TasksAre, ResumeEnds DEF CInv
    <3> QED
      BY <3>1 DEF Suspended
  <2>2. CASE task' = [t \in Tasks |-> Dead]
    BY <2>2 DEF Dead, Suspended
  <2> QED
    BY <2>1, <2>2 DEF ConfirmSubmitted
<1> QED
  BY <1>1, <1>2, NothingAhead

LEMMA ReceiveAckAhead ==
    ASSUME CInv, Ahead, ReceiveAck
    PROVE  Ahead'
<1> DEFINE m == Head(inbox["acks"])
           o == Lookup("acks", m)
<1>1. /\ "acks" \in Topics /\ "acks" \in Tasks /\ Receive("acks")
      /\ "Ack" \in EventsOf("acks") /\ 0 \in 0..Size
  BY TasksAre, SizeAssumption DEF ReceiveAck, EventsOf
<1>2. m \in Message /\ m.client \in ClientIds /\ clientMap' = clientMap
  BY <1>1, ReceiveTakes DEF Message
<1>3. CASE Drop
  BY <1>2, <1>3, DropAhead
<1>4. CASE o # NoOrder /\ Acked(m.client, o) /\ Publish("acks", Ev("Ack", o, m.client, 0))
  <2>1. o \in DOMAIN orders
    BY <1>1, <1>2, <1>4, LookupInStore
  <2> DEFINE e == Ev("Ack", o, m.client, 0)
             new == [client |-> orders[o].client, state |-> "ACKED",
                     filled |-> orders[o].filled, venue |-> TRUE]
  <2> HIDE DEF o, m
  <2>2. e \in Event /\ e.type = "Ack" /\ e.order = o /\ Publish("acks", e)
    BY <1>1, <1>2, <1>4, <2>1, EventType
  <2>3. new \in Order /\ orders' = [orders EXCEPT ![o] = new]
    BY <1>2, <1>4, <2>1, AckedStores
  <2>4. /\ new.client = orders[o].client /\ new.filled = orders[o].filled
        /\ new.state \notin TerminalStates
    BY DEF TerminalStates
  <2> HIDE DEF e, new
  <2> QED
    BY <1>1, <1>2, <2>1, <2>2, <2>3, <2>4, PublishAhead
<1> QED
  BY <1>3, <1>4 DEF ReceiveAck

LEMMA ReceiveRejectAhead ==
    ASSUME CInv, Ahead, ReceiveReject
    PROVE  Ahead'
<1> DEFINE m == Head(inbox["rejects"])
           o == Lookup("rejects", m)
<1>1. /\ "rejects" \in Topics /\ "rejects" \in Tasks /\ Receive("rejects")
      /\ "Rejected" \in EventsOf("rejects") /\ 0 \in 0..Size
  BY TasksAre, SizeAssumption DEF ReceiveReject, EventsOf
<1>2. m \in Message /\ clientMap' = clientMap
  BY <1>1, ReceiveTakes
<1>3. CASE Drop
  BY <1>2, <1>3, DropAhead
<1>4. CASE /\ o # NoOrder /\ Publish("rejects", Ev("Rejected", o, orders[o].client, 0))
           /\ UNCHANGED <<orders, venueMap>>
  <2>1. o \in DOMAIN orders
    BY <1>1, <1>2, <1>4, LookupInStore
  <2> HIDE DEF o, m
  <2> QED
    BY <1>1, <1>2, <1>4, <2>1, OrderLemma, PublishOnlyAhead
<1> QED
  BY <1>3, <1>4 DEF ReceiveReject

LEMMA ReceiveFillAhead ==
    ASSUME CInv, Ahead, ReceiveFill
    PROVE  Ahead'
<1> DEFINE m == Head(inbox["fills"])
           o == Lookup("fills", m)
<1>1. /\ "fills" \in Topics /\ "fills" \in Tasks /\ Receive("fills")
      /\ "Fill" \in EventsOf("fills")
  BY TasksAre DEF ReceiveFill, EventsOf
<1>2. m \in Message /\ m.size \in 0..Size /\ clientMap' = clientMap
  BY <1>1, ReceiveTakes DEF Message
<1>3. CASE Drop
  BY <1>2, <1>3, DropAhead
<1>4. CASE /\ o # NoOrder /\ Publish("fills", Ev("Fill", o, orders[o].client, m.size))
           /\ UNCHANGED <<orders, venueMap>>
  <2>1. o \in DOMAIN orders
    BY <1>1, <1>2, <1>4, LookupInStore
  <2> HIDE DEF o, m
  <2> QED
    BY <1>1, <1>2, <1>4, <2>1, OrderLemma, PublishOnlyAhead
<1> QED
  BY <1>3, <1>4 DEF ReceiveFill

LEMMA ReceiveCancelAhead ==
    ASSUME CInv, Ahead, ReceiveCancel
    PROVE  Ahead'
<1> DEFINE m == Head(inbox["cancels"])
           o == Lookup("cancels", m)
<1>1. /\ "cancels" \in Topics /\ "cancels" \in Tasks /\ Receive("cancels")
      /\ "CancelRequested" \in EventsOf("cancels") /\ 0 \in 0..Size
  BY TasksAre, SizeAssumption DEF ReceiveCancel, EventsOf
<1>2. m \in Message /\ clientMap' = clientMap
  BY <1>1, ReceiveTakes
<1>3. CASE Drop
  BY <1>2, <1>3, DropAhead
<1>4. CASE /\ o # NoOrder /\ Publish("cancels", Ev("CancelRequested", o, orders[o].client, 0))
           /\ UNCHANGED <<orders, venueMap>>
  <2>1. o \in DOMAIN orders
    BY <1>1, <1>2, <1>4, LookupInStore
  <2> HIDE DEF o, m
  <2> QED
    BY <1>1, <1>2, <1>4, <2>1, OrderLemma, PublishOnlyAhead
<1> QED
  BY <1>3, <1>4 DEF ReceiveCancel

LEMMA SendCancelAhead ==
    ASSUME CInv, Ahead, SendCancel
    PROVE  Ahead'
<1> DEFINE o == Pending("cancels").order
<1>1. /\ "cancels" \in Tasks /\ "Canceled" \in EventsOf("cancels") /\ 0 \in 0..Size
  BY TasksAre, SizeAssumption DEF EventsOf
<1>2. o \in DOMAIN orders /\ orders[o].client \in ClientIds
  <2>1. o \in DOMAIN orders
    BY <1>1, PendingLemma DEF SendCancel
  <2> QED
    BY <2>1, OrderLemma
<1>3. /\ Publish("cancels", Ev("Canceled", o, orders[o].client, 0))
      /\ UNCHANGED <<orders, clientMap>>
  BY DEF SendCancel, storeVars
<1> HIDE DEF o
<1> QED
  BY <1>1, <1>2, <1>3, PublishOnlyAhead

(* A handler that ends without a change. *)
LEMMA ResumeAhead ==
    ASSUME CInv, Ahead, NEW t \in Tasks, Resume(t), UNCHANGED <<orders, clientMap, log>>
    PROVE  Ahead'
<1>1. Suspended' = Suspended \ {t} /\ \A u \in Tasks \ {t} : task'[u] = task[u]
  BY ResumeEnds DEF CInv
<1> QED
  BY <1>1, NothingAhead DEF Suspended

(* What the rebuild has made of the event that a task is about to apply. *)
LEMMA AheadOf ==
    ASSUME CInv, Ahead, Rebuild(log).ok = TRUE, NEW t \in Tasks, task[t].pc \notin {"idle", "dead"}
    PROVE  LET e == Pending(t)
               b == Rebuild(log).orders[e.order]
           IN /\ orders[e.order] \in Order /\ b \in Order /\ Extends(orders[e.order], b)
              /\ Applied(e, b, orders[e.order].filled) /\ Sound(Rebuild(log).orders)
              /\ e.order \in DOMAIN Rebuild(log).orders
<1>1. t \in Suspended /\ Pending(t).order \in DOMAIN orders
  BY PendingLemma
<1>2. Rebuild(log) \in Stores
  BY AheadTypes
<1> QED
  BY <1>1, <1>2, AheadTypes DEF Ahead, Stores

LEMMA ApplyAckAhead ==
    ASSUME CInv, Ahead, ApplyAck
    PROVE  Ahead'
<1> DEFINE e == Pending("acks")
           o == e.order
           new == [client |-> orders[o].client, state |-> "ACKED",
                   filled |-> orders[o].filled, venue |-> TRUE]
           b == Rebuild(log).orders[o]
<1>1. "acks" \in Tasks /\ task["acks"].pc = "Ack" /\ Resume("acks") /\ log' = log /\ clientMap' = clientMap
  BY TasksAre DEF ApplyAck
<1>2. o \in DOMAIN orders /\ e.client \in ClientIds /\ e.type = "Ack"
  BY <1>1, PendingLemma
<1>3. CASE UNCHANGED orders
  BY <1>1, <1>3, ResumeAhead
<1>4. CASE Acked(e.client, o)
  <2>1. new \in Order /\ orders' = [orders EXCEPT ![o] = new]
    BY <1>1, <1>2, <1>4, AckedStores
  <2>2. ASSUME Rebuild(log).ok = TRUE PROVE Extends(new, b)
    <3>1. Extends(orders[o], b) /\ Applied(e, b, orders[o].filled)
      BY <1>1, <2>2, AheadOf
    <3> QED
      BY <1>2, <3>1 DEF Extends, Applied, TerminalStates
  <2>3. new.filled = orders[o].filled
    OBVIOUS
  <2> HIDE DEF new
  <2> QED
    BY <1>1, <2>1, <2>2, <2>3, EndAhead
<1> QED
  BY <1>3, <1>4 DEF ApplyAck

(* An order is moved to the state the rebuild has moved it to. *)
LEMMA ApplyStateAhead ==
    ASSUME CInv, Ahead, NEW t \in Tasks, task[t].pc \notin {"idle", "dead"}, NEW st \in OrderStates,
           SetState(Pending(t).order, st) \/ UNCHANGED orders, Resume(t),
           UNCHANGED <<clientMap, log>>,
           \A b, n : Applied(Pending(t), b, n) => b.state = st
    PROVE  Ahead'
<1> DEFINE o == Pending(t).order
           new == [client |-> orders[o].client, state |-> st,
                   filled |-> orders[o].filled, venue |-> orders[o].venue]
           b == Rebuild(log).orders[o]
<1>1. o \in DOMAIN orders
  BY PendingLemma
<1>2. CASE UNCHANGED orders
  BY <1>2, ResumeAhead
<1>3. CASE SetState(o, st)
  <2>1. new \in Order /\ orders' = [orders EXCEPT ![o] = new]
    BY <1>1, <1>3, StateLemma
  <2>2. ASSUME Rebuild(log).ok = TRUE PROVE Extends(new, b)
    <3>1. Extends(orders[o], b) /\ Applied(Pending(t), b, orders[o].filled)
      BY <2>2, AheadOf
    <3>2. b.state = st
      BY <3>1
    <3> QED
      BY <3>1, <3>2 DEF Extends
  <2>3. new.filled = orders[o].filled
    OBVIOUS
  <2> HIDE DEF new
  <2> QED
    BY <2>1, <2>2, <2>3, EndAhead
<1> QED
  BY <1>2, <1>3

LEMMA ApplyRejectAhead ==
    ASSUME CInv, Ahead, ApplyReject
    PROVE  Ahead'
<1>1. /\ "rejects" \in Tasks /\ "REJECTED" \in OrderStates /\ task["rejects"].pc = "Rejected"
      /\ Resume("rejects") /\ UNCHANGED <<clientMap, log>>
      /\ SetState(Pending("rejects").order, "REJECTED") \/ UNCHANGED orders
  BY TasksAre DEF ApplyReject, OrderStates
<1>2. Pending("rejects").type = "Rejected"
  BY <1>1, PendingLemma
<1>3. \A b, n : Applied(Pending("rejects"), b, n) => b.state = "REJECTED"
  BY <1>2 DEF Applied
<1> QED
  BY <1>1, <1>3, ApplyStateAhead

LEMMA ApplyCancelAhead ==
    ASSUME CInv, Ahead, ApplyCancel
    PROVE  Ahead'
<1>1. /\ "cancels" \in Tasks /\ "CANCELLED" \in OrderStates /\ task["cancels"].pc = "Canceled"
      /\ Resume("cancels") /\ UNCHANGED <<clientMap, log>>
      /\ SetState(Pending("cancels").order, "CANCELLED") \/ UNCHANGED orders
  BY TasksAre DEF ApplyCancel, OrderStates
<1>2. Pending("cancels").type = "Canceled"
  BY <1>1, PendingLemma
<1>3. \A b, n : Applied(Pending("cancels"), b, n) => b.state = "CANCELLED"
  BY <1>2 DEF Applied
<1> QED
  BY <1>1, <1>3, ApplyStateAhead

(* A fill that completes the order in the store completes it in the        *)
(* rebuild, which has added up at least as much.                           *)
LEMMA ApplyFillAhead ==
    ASSUME CInv, Ahead, ApplyFill
    PROVE  Ahead'
<1> DEFINE e == Pending("fills")
           o == e.order
           n == e.size
           st == StateAfterFill(orders[o], n)
           new == [client |-> orders[o].client, state |-> st,
                   filled |-> orders[o].filled + n, venue |-> orders[o].venue]
           b == Rebuild(log).orders[o]
<1>1. /\ "fills" \in Tasks /\ task["fills"].pc = "Fill" /\ Resume("fills")
      /\ log' = log /\ clientMap' = clientMap
  BY TasksAre DEF ApplyFill
<1>2. o \in DOMAIN orders /\ n \in 0..Size /\ e.type = "Fill"
  BY <1>1, PendingLemma
<1>3. st \in OrderStates
  BY <1>2, OrderLemma DEF StateAfterFill, OrderStates
<1>4. Fills(o, n, st) \/ orders' = orders
  BY DEF ApplyFill, Fills
<1>5. CASE orders' = orders
  BY <1>1, <1>5, ResumeAhead
<1>6. CASE Fills(o, n, st)
  <2>1. new \in Order /\ orders' = [orders EXCEPT ![o] = new]
    <3> HIDE DEF o, n, st
    <3> QED
      BY <1>2, <1>3, <1>6, FilledLemma
  <2>2. ASSUME Rebuild(log).ok = TRUE PROVE Extends(new, b)
    <3>1. /\ Extends(orders[o], b) /\ Applied(e, b, orders[o].filled)
          /\ orders[o] \in Order /\ b \in Order
          /\ b.filled >= Size => b.state = "FILLED"
      BY <1>1, <2>2, AheadOf DEF Sound
    <3>2. orders[o].filled + n <= b.filled
      BY <1>2, <3>1 DEF Applied
    <3>3. st \in TerminalStates => b.state = st
      <4>1. CASE orders[o].filled + n >= Size
        <5>1. st = "FILLED"
          BY <4>1 DEF StateAfterFill, FilledAfter
        <5>2. b.filled >= Size
          BY <1>2, <3>1, <3>2, <4>1, SizeAssumption DEF Order
        <5> QED
          BY <3>1, <5>1, <5>2
      <4>2. CASE ~(orders[o].filled + n >= Size)
        <5>1. st = "PARTIALLY_FILLED" \/ st = orders[o].state
          BY <4>2 DEF StateAfterFill, FilledAfter
        <5> HIDE DEF st
        <5> QED
          BY <3>1, <5>1 DEF Extends, TerminalStates
      <4> QED
        BY <4>1, <4>2
    <3> HIDE DEF st, b, n
    <3> QED
      BY <3>1, <3>2, <3>3 DEF Extends
  <2> HIDE DEF new
  <2> QED
    BY <1>1, <1>2, <2>1, <2>2, EndAhead
<1> QED
  BY <1>4, <1>5, <1>6

LEMMA EnvironmentAhead ==
    ASSUME CInv, Ahead, Environment
    PROVE  Ahead'
<1>1. UNCHANGED <<orders, clientMap, task, log>>
  BY DEF Environment, Approve, VenuePlace, VenueRefuse, VenueCancel, VenueMatch, VenueStep,
         Redeliver, storeVars
<1> QED
  BY <1>1, AloneAhead

(* After a restart the store is what the rebuild has made. *)
LEMMA RestartAhead ==
    ASSUME CInv, Restart
    PROVE  Ahead'
<1> DEFINE r == Rebuild(log')
<1>1. orders' = r.orders /\ clientMap' = r.clientMap /\ Suspended' = {}
  BY DEF Restart, Suspended, Idle
<1>2. r \in Stores
  <2>1. PICK lost : log' = Without(log, lost)
    BY DEF Restart
  <2>2. log' \in Seq(Event)
    BY <2>1, WithoutType DEF CInv, TypeOK
  <2> QED
    BY <2>2, RebuildType
<1>3. \A o \in DOMAIN r.orders : r.orders[o] \in Order
  BY <1>2, BooksLemma DEF Stores
<1>4. \A o \in DOMAIN r.orders : Extends(r.orders[o], r.orders[o])
  BY <1>3 DEF Extends, Order
<1> HIDE DEF r
<1> QED
  BY <1>1, <1>4 DEF Ahead, r

LEMMA RunAhead ==
    ASSUME CInv, Ahead, Run
    PROVE  Ahead'
<1>1. CASE ProposalsTask
  BY <1>1, CreateOrderAhead, SendSubmitAhead, ConfirmSubmittedAhead DEF ProposalsTask
<1>2. CASE AcksTask
  BY <1>2, ReceiveAckAhead, ApplyAckAhead DEF AcksTask
<1>3. CASE RejectsTask
  BY <1>3, ReceiveRejectAhead, ApplyRejectAhead DEF RejectsTask
<1>4. CASE FillsTask
  BY <1>4, ReceiveFillAhead, ApplyFillAhead DEF FillsTask
<1>5. CASE CancelsTask
  BY <1>5, ReceiveCancelAhead, SendCancelAhead, ApplyCancelAhead DEF CancelsTask
<1>6. CASE Environment
  BY <1>6, EnvironmentAhead
<1> QED
  BY <1>1, <1>2, <1>3, <1>4, <1>5, <1>6 DEF Run, Next, System

LEMMA InitAhead == RecoveryInit => Ahead
<1> SUFFICES ASSUME RecoveryInit PROVE Ahead
  OBVIOUS
<1>1. log = <<>> /\ DOMAIN orders = {} /\ clientMap = [c \in ClientIds |-> NoOrder] /\ Suspended = {}
  BY DEF RecoveryInit, Init, Suspended, Idle
<1>2. Rebuild(log) = Empty
  BY <1>1, RebuildEmpty
<1> QED
  BY <1>1, <1>2 DEF Ahead, Empty

LEMMA NextAhead == RInv /\ Ahead /\ [RecoveryNext]_recoveryVars => Ahead'
<1> SUFFICES ASSUME RInv, Ahead, [RecoveryNext]_recoveryVars PROVE Ahead'
  OBVIOUS
<1>1. CInv
  BY DEF RInv
<1>2. CASE UNCHANGED recoveryVars
  BY <1>1, <1>2, AloneAhead DEF recoveryVars, vars
<1>3. CASE Run
  BY <1>1, <1>3, RunAhead
<1>4. CASE Router
  BY <1>1, <1>4, RouterLogs, AloneAhead DEF storeVars
<1>5. CASE Restart
  BY <1>1, <1>5, RestartAhead
<1> QED
  BY <1>2, <1>3, <1>4, <1>5 DEF RecoveryNext

(* A rebuild that runs to its end forgets nothing the OMS knows of its     *)
(* orders: whatever is suspended, refused, lost in an append or published  *)
(* by the router besides, and after any number of restarts.                *)
THEOREM LogForgetsNothing == RecoverySpec => []RebuildForgetsNothing
<1>1. RInv /\ Ahead => RebuildForgetsNothing
  <2> SUFFICES ASSUME RInv, Ahead PROVE RebuildForgetsNothing
    OBVIOUS
  <2> DEFINE r == Rebuild(log)
  <2>1. CInv
    BY DEF RInv
  <2>2. r \in Stores
    BY <2>1, RebuildType DEF CInv, TypeOK
  <2>3. r.ok \in BOOLEAN
    BY <2>2 DEF Stores
  <2>4. CASE r.ok = FALSE
    BY <2>4 DEF RebuildForgetsNothing
  <2>5. CASE r.ok = TRUE
    <3>1. /\ DOMAIN r.orders = DOMAIN orders /\ r.clientMap = clientMap
          /\ \A o \in DOMAIN orders : Extends(orders[o], r.orders[o])
      BY <2>5 DEF Ahead
    <3>2. ASSUME NEW o \in DOMAIN orders PROVE orders[o].venue => r.orders[o].venue
      <4>1. orders[o].venue \in BOOLEAN
        BY <2>1, OrderLemma
      <4>2. orders[o].venue = TRUE => r.orders[o].venue = TRUE
        BY <3>1 DEF Extends
      <4> QED
        BY <4>1, <4>2
    <3> HIDE DEF r
    <3>3. /\ r.clientMap = clientMap
          /\ \A o \in DOMAIN orders :
                /\ o \in DOMAIN r.orders
                /\ r.orders[o].client = orders[o].client
                /\ orders[o].filled <= r.orders[o].filled
                /\ orders[o].venue => r.orders[o].venue
                /\ orders[o].state \in TerminalStates => r.orders[o].state = orders[o].state
      BY <3>1, <3>2 DEF Extends
    <3> QED
      BY <3>3, Zenon DEF RebuildForgetsNothing, r
  <2> QED
    BY <2>3, <2>4, <2>5
<1>2. RecoveryInit => RInv /\ Ahead
  BY InitRInv, InitAhead
<1>3. RInv /\ Ahead /\ [RecoveryNext]_recoveryVars => (RInv /\ Ahead)'
  BY NextRInv, NextAhead
<1> QED
  BY <1>1, <1>2, <1>3, PTL DEF RecoverySpec
=============================================================================
