-------------------------- MODULE SystemSupervisor --------------------------
(***************************************************************************)
(* The supervisor of live trading (supervisor/system.py): boot sequence,   *)
(* health gates (ops/health.py) and boot permit, the services, the         *)
(* periodic reconciliation, stop, crash, and the operator's controls.      *)
(* start is called again only after stop: on a supervisor that runs, or    *)
(* whose start failed, it does nothing.                                    *)
(***************************************************************************)
EXTENDS Reconciliation

CONSTANTS
    MayFail,         \* what may fail: "core", "rebuild" and names of services
    ResetsFirst,     \* does the operator reset the breaker before enabling?
    MaxDivergences,  \* HealthGateThresholds.max_reconciliation_divergences
    MaxStarts, MaxCrashes, MaxActs   \* bounds

Services  == <<"portfolio", "risk", "oms", "router", "positions", "stream", "loop", "breaker">>

(* Mutant: the OMS stops before the user stream. *)
StopOrder_OMSFirst == <<"sink", "loop", "oms", "stream", "positions", "router", "risk", "portfolio">>

StopOrder == <<"sink", "loop", "stream", "positions", "router", "oms", "risk", "portfolio">>

ASSUME SupervisorAssumption ==
    /\ MayFail \subseteq {"core", "rebuild", "portfolio", "risk", "stream", "breaker"}
    /\ MaxDivergences \in Nat /\ ResetsFirst \in BOOLEAN
    /\ {MaxStarts, MaxCrashes, MaxActs} \subseteq Nat

VARIABLES
    stage,    \* of start and stop
    at,       \* services started, or stopped, so far
    running,  \* the services that run
    found,    \* what the initial reconciliation found
    compared, \* did it compare the lists at all?
    before,   \* the venue's orders when start was called, until the gates
    tripped,  \* "yes" from a trip of the breaker to the operator's reset or enabling, then
              \* "no"; "restarted" after a start that followed it
    count     \* starts, crashes and acts so far

vars == <<orders, guard, faults, stage, at, running, found, compared, before, tripped, count>>

Init ==
    /\ ReconciliationInit
    /\ stage = "off" /\ at = 0 /\ running = {} /\ found = {} /\ compared = FALSE
    /\ before = NoOrders
    /\ tripped = "no" /\ count = [starts |-> 0, crashes |-> 0, acts |-> 0]

Watching == stage \in {"services", "up", "failed"}   \* _running, past the initial steps

-----------------------------------------------------------------------------
(* start *)

(* The core components are created anew, with an empty order store.        *)
Start ==
    /\ stage = "off" /\ count.starts < MaxStarts
    /\ stage' \in {"loading"} \cup IF "core" \in MayFail THEN {"failed"} ELSE {}
    /\ oms' = NoOrders /\ before' = venue /\ found' = {} /\ compared' = FALSE /\ at' = 0
    /\ count' = [count EXCEPT !.starts = @ + 1]
    /\ UNCHANGED <<venue, calls, log, mail, guard, faults, running, tripped>>

(* Configuration, event store, event sink: their errors do not end a start. *)
Load ==
    /\ stage = "loading" /\ stage' = "created"
    /\ UNCHANGED <<orders, guard, faults, at, running, found, compared, before, tripped, count>>

(* A failed reconstruction leaves the orders rebuilt so far. *)
Reconstruct ==
    /\ stage = "created"
    /\ \E rebuilt \in IF "rebuild" \in MayFail THEN SUBSET Orders ELSE {Orders} :
          oms' = [i \in Orders |-> IF i \in rebuilt THEN log[i] ELSE Unknown]
    /\ stage' = "reconstructed"
    /\ UNCHANGED <<venue, calls, log, mail, guard, faults, at, running, found, compared, before, tripped, count>>

AskAtBoot ==
    /\ stage = "reconstructed" /\ Ask
    /\ stage' = "reconciling"
    /\ UNCHANGED <<at, running, found, compared, before, tripped, count>>

ReconciledAtBoot ==
    /\ stage = "reconciling" /\ Answered
    /\ found' = Events /\ compared' = (watch.phase = "answered") /\ watch' = Idle
    /\ stage' = "reconciled"
    /\ UNCHANGED <<orders, breaker, control, faults, at, running, before, tripped, count>>

(* HealthService: failures to fetch ("none") are no divergences, and what  *)
(* raised has returned none.                                               *)
Reconciled ==
    LET actual == {e \in found : e.type # "none"}
    IN Cardinality(actual) <= MaxDivergences /\ \A e \in actual : e.severity # "ERROR"

Status(fresh) == [fresh |-> fresh, reconciled |-> Reconciled, tripped |-> breaker = "open"]

(* Mutant: the breaker is no gate. *)
GatesPass_NoBreaker(status) == status.fresh /\ status.reconciled

GatesPass(status) == status.fresh /\ status.reconciled /\ ~status.tripped

(* enable_with_permit *)
Permit(passed) == control' = [control EXCEPT !.enabled = @ \/ passed]

(* All gates, market data and tick storage (fresh) among them, and the     *)
(* permit if they pass; the services are started in either case.           *)
EvaluateGates ==
    /\ stage = "reconciled"
    /\ \E fresh \in BOOLEAN : Permit(GatesPass(Status(fresh)))
    /\ stage' = "services"
    /\ found' = {} /\ compared' = FALSE /\ before' = NoOrders
    /\ UNCHANGED <<orders, watch, breaker, faults, at, running, tripped, count>>

Started(s) ==
    /\ running' = running \cup {s}
    /\ breaker' = IF s = "breaker" THEN "closed" ELSE breaker
    /\ at' = at + 1
    /\ UNCHANGED stage

(* What was started goes on, and the supervisor is still _running. *)
NotStarted(s) == s \in MayFail /\ stage' = "failed" /\ UNCHANGED <<running, breaker, at>>

StartService ==
    /\ stage = "services" /\ at < Len(Services)
    /\ Started(Services[at + 1]) \/ NotStarted(Services[at + 1])
    /\ UNCHANGED <<orders, watch, control, faults, found, compared, before, tripped, count>>

(* The event sink may be missing or fail without failing the start. *)
StartSink ==
    /\ stage = "services" /\ at = Len(Services)
    /\ running' \in {running, running \cup {"sink"}}
    /\ stage' = "up"
    /\ tripped' = IF tripped = "yes" THEN "restarted" ELSE tripped
    /\ UNCHANGED <<orders, guard, faults, at, found, compared, before, count>>

(* The periodic loop; an exception ends it. *)
LoopAsks      == Ask /\ UNCHANGED <<running, tripped>>
LoopConcludes ==
    /\ Conclude
    /\ running' = IF watch.phase = "raised" THEN running \ {"loop"} ELSE running
    /\ tripped' = IF breaker' # breaker THEN "yes" ELSE tripped

Loop ==
    /\ Watching /\ "loop" \in running
    /\ LoopAsks \/ LoopConcludes
    /\ UNCHANGED <<stage, at, found, compared, before, count>>
Venue == (Answer \/ FetchError) /\ UNCHANGED <<stage, at, running, found, compared, before, tripped, count>>

-----------------------------------------------------------------------------
(* stop, crash, operator *)

Stop ==
    /\ stage \in {"up", "failed"}
    /\ stage' = "stopping" /\ at' = 0
    /\ UNCHANGED <<orders, guard, faults, running, found, compared, before, tripped, count>>

(* Whoever waits for the answer of a call is gone. *)
CutOff == [i \in Orders |-> IF calls[i] = "open" THEN "cut" ELSE calls[i]]

(* The loop is cancelled where it waits; what the OMS has not read by the  *)
(* time it stops is lost with its queues.                                  *)
StopService ==
    /\ stage = "stopping"
    /\ LET s == StopOrder[at + 1]
       IN /\ running' = running \ {s}
          /\ watch' = IF s = "loop" THEN Idle ELSE watch
          /\ mail' = IF s = "oms" THEN [i \in Orders |-> <<>>] ELSE mail
          /\ calls' = IF s = "router" THEN CutOff ELSE calls
    /\ at' = at + 1
    /\ stage' = IF at' = Len(StopOrder) THEN "off" ELSE stage
    /\ UNCHANGED <<venue, oms, log, breaker, control, faults, found, compared, before, tripped, count>>

(* The process dies and comes back with new objects. *)
Crash ==
    /\ stage # "off" /\ count.crashes < MaxCrashes
    /\ stage' = "off" /\ at' = 0 /\ running' = {} /\ found' = {} /\ compared' = FALSE /\ before' = NoOrders
    /\ oms' = NoOrders /\ mail' = [i \in Orders |-> <<>>] /\ calls' = CutOff
    /\ watch' = Idle /\ breaker' = "none" /\ control' = [enabled |-> FALSE, killed |-> FALSE]
    /\ tripped' = "no" /\ count' = [count EXCEPT !.crashes = @ + 1]
    /\ UNCHANGED <<venue, log, faults>>

Enable ==
    /\ ResetsFirst => breaker # "open"
    /\ control' = [control EXCEPT !.enabled = TRUE]
    /\ tripped' = "no" /\ UNCHANGED breaker

Kill(active) ==
    /\ control' = [enabled |-> control.enabled /\ ~active, killed |-> active]
    /\ UNCHANGED <<breaker, tripped>>

Reset == breaker = "open" /\ breaker' = "closed" /\ tripped' = "no" /\ UNCHANGED control

Operator ==
    /\ count.acts < MaxActs /\ count' = [count EXCEPT !.acts = @ + 1]
    /\ Enable \/ Reset \/ \E active \in BOOLEAN : active # control.killed /\ Kill(active)
    /\ UNCHANGED <<orders, watch, faults, stage, at, running, found, compared, before>>

-----------------------------------------------------------------------------
Connected == "stream" \in running

Order(i) ==
    /\ \/ {"oms", "router"} \subseteq running /\ Submit(i)
       \/ \E answered \in BOOLEAN : Place(i, Connected, answered)
       \/ Trade(i, Connected)
       \/ End(i, Connected)
       \/ "oms" \in running /\ Deliver(i)
       \/ Lose(i)
    /\ UNCHANGED <<stage, at, running, found, compared, before, tripped, count>>

Boot == Start \/ Load \/ Reconstruct \/ AskAtBoot \/ ReconciledAtBoot \/ EvaluateGates \/ StartService \/ StartSink

Next ==
    \/ Boot \/ Loop \/ Venue \/ Stop \/ StopService \/ Crash \/ Operator
    \/ \E i \in Orders : Order(i)

Spec     == Init /\ [][Next]_vars
FairSpec == Spec /\ WF_vars(Loop) /\ WF_vars(Venue)

-----------------------------------------------------------------------------
(* Properties *)

(* Types; the loop's and the boot's reconciliations do not overlap. *)
TypeOK ==
    /\ {venue, oms, log} \subseteq [Orders -> View]
    /\ watch.phase \in {"idle", "asked", "answered", "refused", "raised"}
    /\ running \subseteq {Services[i] : i \in DOMAIN Services} \cup {"sink"}
    /\ stage \in {"off", "loading", "created", "reconstructed", "reconciled"} =>
          watch.phase = "idle" /\ running \subseteq {"breaker"}

(* Who publishes the user stream's messages runs only while the OMS reads  *)
(* them, in a start, a stop and a start that failed (_start_services:      *)
(* "Subscribers before publishers").                                       *)
StreamIsHeard == "stream" \in running => "oms" \in running

(* After the breaker has tripped nothing is executed until the operator    *)
(* resets it or enables execution, not even if the supervisor is stopped   *)
(* and started in between: the gates of the next start see the breaker     *)
(* (flows.mdc, 13: "require manual/health reset to re-enable").  The start *)
(* after that one sees a new breaker and may give the permit.              *)
TripHolds == tripped = "yes" => ~Executing

(* With the boot permit the OMS and the venue agree on which orders are    *)
(* open, but for those that changed at the venue since the start, if the   *)
(* initial reconciliation did compare them (_evaluate_health_gates).       *)
PermitMeansAgreement ==
    [][stage # "services" /\ stage' = "services" /\ control'.enabled /\ ~control.enabled /\ compared
          => \A i \in Orders : venue[i] = before[i] => (Open(oms[i]) <=> Open(venue[i]))]_vars

(* No false alarm: the breaker trips only if the two disagreed on an open  *)
(* order when the OMS was read, the venue has changed an order since, or   *)
(* an open order has fills (reconcile, CircuitBreaker.check).              *)
TripIsGrounded ==
    [][breaker = "closed" /\ breaker' = "open"
          => \E i \in Orders : \/ Open(watch.snap[i]) # Open(watch.was[i])
                               \/ venue[i] # watch.was[i]
                               \/ Open(watch.snap[i]) /\ watch.snap[i].filled > 0]_vars

(* A lasting disagreement on whether an order is open, its message lost or *)
(* never sent, stops trading, if one divergence is enough and the operator *)
(* resets the breaker before enabling execution (reconciliation_loop).     *)
Disagree(i) == mail[i] = <<>> /\ Open(oms[i]) # Open(venue[i])
DisagreementStopsTrading ==
    \A i \in Orders : stage = "up" /\ "loop" \in running /\ Disagree(i)
        ~> ~Executing \/ stage # "up" \/ "loop" \notin running \/ Open(oms[i]) = Open(venue[i])

-----------------------------------------------------------------------------
(* What the documents say and the code does not keep. *)

(* stop: "Stop EventSink (should be last to flush remaining events)". *)
SinkIsLast == stage = "stopping" /\ running \ {"breaker"} # {} => "sink" \in running

(* _initial_reconciliation, of one that raised: "(health gates will fail   *)
(* if reconciliation is required)".                                        *)
ReconciledBeforePermit ==
    [][stage # "services" /\ stage' = "services" /\ control'.enabled /\ ~control.enabled
          => compared]_vars

(* flows.mdc, 12 and 13: reconciliation goes on periodically.  An exception*)
(* ends its loop and nobody starts it again.                               *)
LoopGoesOn == stage = "up" => "loop" \in running
=============================================================================
