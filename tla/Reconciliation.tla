--------------------------- MODULE Reconciliation ---------------------------
(***************************************************************************)
(* Watching over the orders: what the OMS and the venue know of an order,  *)
(* the messages between them, the comparison of the two (oms/reconcile.py),*)
(* the circuit breaker and the execution flag (ops/control.py).            *)
(***************************************************************************)
EXTENDS FiniteSets, Integers, Sequences

CONSTANTS
    Orders,
    Size,            \* lots of an order
    MaxPhantoms, MaxOrphans, MaxMismatches, NeedsError,  \* CircuitBreakerThresholds
    Word,            \* the venue's word for an open order, as ExternalOrder reads it
    MaxLost,         \* bound: messages of the user stream that are lost
    MaxFetchErrors   \* bound: lists of the venue that cannot be had or read

ASSUME ReconciliationAssumption ==
    /\ IsFiniteSet(Orders) /\ Size \in Nat \ {0} /\ NeedsError \in BOOLEAN
    /\ Word \in {"OPEN", "UNKNOWN"}
    /\ {MaxPhantoms, MaxOrphans, MaxMismatches, MaxLost, MaxFetchErrors} \subseteq Nat

VARIABLES
    venue,    \* the orders as the venue has them
    oms,      \* and as the OMS has them, once it has their venue id
    calls,    \* the router's calls that place them: "none", "open", "cut"
    log,      \* the OMS's orders as the stored events tell them
    mail,     \* [Orders -> messages to the OMS, oldest first]
    watch,    \* the reconciliation in progress: phase, snapshot of the OMS, the venue's
              \* orders at that moment, and its list
    breaker,  \* "none", "closed" or "open" (triggered)
    control,  \* ExecutionControl: [enabled, killed]
    faults    \* messages lost, requests failed

orders == <<venue, calls, oms, log, mail>>
guard  == <<watch, breaker, control>>

View    == [known : BOOLEAN, filled : 0..Size, ended : BOOLEAN]
Unknown == [known |-> FALSE, filled |-> 0, ended |-> FALSE]
Open(o) == o.known /\ o.filled < Size /\ ~o.ended

NoOrders  == [i \in Orders |-> Unknown]
Nothing   == [i \in Orders |-> "absent"]
Idle      == [phase |-> "idle", snap |-> NoOrders, was |-> NoOrders, list |-> Nothing]
Executing == control.enabled /\ ~control.killed

ReconciliationInit ==
    /\ venue = NoOrders /\ oms = NoOrders /\ log = NoOrders
    /\ mail = [i \in Orders |-> <<>>] /\ calls = [i \in Orders |-> "none"]
    /\ watch = Idle /\ breaker = "none"
    /\ control = [enabled |-> FALSE, killed |-> FALSE]
    /\ faults = [lost |-> 0, fetch |-> 0]

-----------------------------------------------------------------------------
(* Orders and messages *)

Changed(o, message) ==
    CASE message = "ack"  -> [o EXCEPT !.known = TRUE]
      [] message = "fill" -> [o EXCEPT !.filled = @ + 1]
      [] message = "end"  -> [o EXCEPT !.ended = TRUE]

(* What becomes of an order is told on the user stream only, and to nobody *)
(* while that is not connected.  A message the OMS cannot match to an order*)
(* is as good as lost.                                                     *)
Happen(i, message, connected) ==
    /\ venue' = [venue EXCEPT ![i] = Changed(@, message)]
    /\ mail' = IF connected THEN [mail EXCEPT ![i] = Append(@, message)] ELSE mail
    /\ UNCHANGED <<oms, guard, faults>>

(* The gate is passed; the call goes on although the router is stopped.    *)
Submit(i) ==
    /\ Executing /\ calls[i] = "none"
    /\ calls' = [calls EXCEPT ![i] = "open"]
    /\ UNCHANGED <<venue, oms, log, mail, guard, faults>>

(* If the router gets the answer, it publishes an OrderAckEvent: the OMS   *)
(* does not hear that, but the rebuild does.                               *)
Place(i, connected, answered) ==
    /\ calls[i] # "none" /\ ~venue[i].known
    /\ Happen(i, "ack", connected)
    /\ answered => calls[i] = "open"
    /\ log' = IF answered THEN [log EXCEPT ![i].known = TRUE] ELSE log
    /\ UNCHANGED calls

Trade(i, connected) == Open(venue[i]) /\ Happen(i, "fill", connected) /\ UNCHANGED <<calls, log>>
End(i, connected)   == Open(venue[i]) /\ Happen(i, "end", connected) /\ UNCHANGED <<calls, log>>

(* The OMS ignores what it is told of an order it does not know. *)
Deliver(i) ==
    /\ mail[i] # <<>>
    /\ IF Head(mail[i]) = "ack" \/ Open(oms[i])
         THEN LET o == Changed(oms[i], Head(mail[i]))
              IN oms' = [oms EXCEPT ![i] = o] /\ log' = [log EXCEPT ![i] = o]
         ELSE UNCHANGED <<oms, log>>
    /\ mail' = [mail EXCEPT ![i] = Tail(@)]
    /\ UNCHANGED <<venue, calls, guard, faults>>

Lose(i) ==
    /\ mail[i] # <<>> /\ faults.lost < MaxLost
    /\ mail' = [mail EXCEPT ![i] = Tail(@)]
    /\ faults' = [faults EXCEPT !.lost = @ + 1]
    /\ UNCHANGED <<venue, calls, oms, log, guard>>

-----------------------------------------------------------------------------
(* reconcile: the OMS's open orders are read, the venue is asked, and what *)
(* it answers, some time later, is compared with what was read.            *)

Ask ==
    /\ watch.phase = "idle"
    /\ watch' = [Idle EXCEPT !.phase = "asked", !.snap = oms, !.was = venue]
    /\ UNCHANGED <<orders, breaker, control, faults>>

(* The venue lists open orders (clob.py get_orders).                       *)
Listed(o) == IF Open(o) THEN Word ELSE "absent"

Answer ==
    /\ watch.phase = "asked"
    /\ watch' = [watch EXCEPT !.phase = "answered", !.list = [i \in Orders |-> Listed(venue[i])]]
    /\ UNCHANGED <<orders, breaker, control, faults>>

(* The call fails, which reconcile reports; or it lists what cannot be     *)
(* parsed, and reconcile raises.                                           *)
FetchError ==
    /\ watch.phase = "asked" /\ faults.fetch < MaxFetchErrors
    /\ \E phase \in {"refused", "raised"} : watch' = [watch EXCEPT !.phase = phase]
    /\ faults' = [faults EXCEPT !.fetch = @ + 1]
    /\ UNCHANGED <<orders, breaker, control>>

Event(type, i, severity) == [type |-> type, order |-> i, severity |-> severity]

(* Mutant: orders only the venue has are no divergence. *)
Divergences_NoOrphans(snap, list) ==
    { Event("phantom", i, "WARNING") : i \in {j \in Orders : Open(snap[j]) /\ list[j] = "absent"} }
    \cup { Event("mismatch", i, "ERROR") : i \in {j \in Orders : Open(snap[j]) /\ list[j] = "FILLED"} }

(* Mutant: all of the OMS's orders are compared, not the open ones. *)
Divergences_All(snap, list) ==
    { Event("phantom", i, "WARNING") : i \in {j \in Orders : snap[j].known /\ list[j] = "absent"} }
    \cup { Event("orphan", i, "WARNING") : i \in {j \in Orders : list[j] # "absent" /\ ~snap[j].known} }

(* An open order the OMS has no venue id of is not compared. *)
Divergences(snap, list) ==
    LET Both(status) == {i \in Orders : Open(snap[i]) /\ list[i] = status}
    IN { Event("phantom", i, "WARNING") : i \in Both("absent") }
       \cup { Event("orphan", i, "WARNING") : i \in {j \in Orders : list[j] # "absent" /\ ~Open(snap[j])} }
       \cup { Event("mismatch", i, "ERROR") : i \in Both("FILLED") }
       \cup { Event("mismatch", i, "WARNING") : i \in {j \in Both("OPEN") : snap[j].filled > 0} }

Answered == watch.phase \in {"answered", "refused", "raised"}

(* What reconcile returns, or the boot takes for it if it raises. *)
Events ==
    CASE watch.phase = "refused"  -> { [type |-> "none", severity |-> "ERROR"] }
      [] watch.phase = "raised"   -> {}
      [] watch.phase = "answered" -> Divergences(watch.snap, watch.list)

Count(events, type) == Cardinality({e \in events : e.type = type})

(* Mutant: a threshold is to be exceeded, not reached. *)
Trips_Above(events) ==
    /\ \/ Count(events, "phantom") > MaxPhantoms
       \/ Count(events, "orphan") > MaxOrphans
       \/ Count(events, "mismatch") > MaxMismatches
    /\ NeedsError => \E e \in events : e.severity = "ERROR"

(* CircuitBreaker.check *)
Trips(events) ==
    /\ events # {}
    /\ \/ Count(events, "phantom") >= MaxPhantoms
       \/ Count(events, "orphan") >= MaxOrphans
       \/ Count(events, "mismatch") >= MaxMismatches
    /\ NeedsError => \E e \in events : e.severity = "ERROR"

Check(events) ==
    IF breaker = "closed" /\ Trips(events)
    THEN breaker' = "open" /\ control' = [control EXCEPT !.enabled = FALSE]
    ELSE UNCHANGED <<breaker, control>>

(* The end of a round of the periodic loop. *)
Conclude ==
    /\ Answered
    /\ Check(Events)
    /\ watch' = Idle
    /\ UNCHANGED <<orders, faults>>
=============================================================================
