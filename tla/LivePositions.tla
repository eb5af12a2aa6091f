--------------------------- MODULE LivePositions ----------------------------
(***************************************************************************)
(* PositionManager (position_manager/__init__.py), the position manager of *)
(* live trading: it opens and closes positions as orders are executed,     *)
(* proposes a sale when a tick reaches a position's target, and compares   *)
(* its positions with the venue's list of orders from time to time.        *)
(*                                                                         *)
(* A market's outcome is a key; its token names it as well.  Sizes, entry  *)
(* prices and _order_id_to_position, which nothing reads, are left out.    *)
(* External: who executes orders and publishes ORDERS and MARKET_DATA, and *)
(* the venue, which lists open orders (clob.py get_orders).                *)
(***************************************************************************)
EXTENDS Naturals, Sequences, FiniteSets

CONSTANTS
    Keys,       \* markets' outcomes
    MaxOrders,  \* bound: orders the venue comes to know
    Prices,     \* of ticks and targets
    HalfPrice,  \* 0.5, the target of a position nobody gave one
    Syncs,      \* sync_interval > 0
    Listed,     \* statuses of the orders get_orders lists: "OPEN" by its
                \* contract, though _reconcile_positions handles the others
    OwnerSides, \* what the account's owner does outside of the platform
    MaxTicks,   \* bound: ticks
    MaxErrors   \* bound: calls of the venue and of Gamma that fail

ASSUME LiveAssumption ==
    /\ HalfPrice \in Prices /\ Prices \subseteq Nat
    /\ OwnerSides \subseteq {"BUY", "SELL"} /\ Syncs \in BOOLEAN
    /\ Listed \subseteq {"OPEN", "FILLED", "CANCELLED"}
    /\ MaxOrders \in Nat /\ MaxTicks \in Nat /\ MaxErrors \in Nat

VARIABLES
    phase,     \* of run(): "new", "syncing" before its loop, "running", "stopped"
    running,   \* _running
    queue,     \* Topics -> what waits in the manager's queue
    pending,   \* topics whose queue.get() of this round has not completed
    got,       \* Topics -> what it has completed with, if it has
    hand,      \* what this round has still to handle ...
    step,      \* ... and where it is suspended: "wait", "ready", "lookup"
    positions, \* _positions: key -> target price
    tokens,    \* _token_to_market: the keys whose token is known
    sync,      \* Syncers -> the venue's answer, <<>> if there is none
    venue,     \* external: orders, as [key, side, ours, status], by id
    handled,   \* ids of the executed orders _handle_order has seen
    missed,    \* ids of the orders executed before the queue was there
    proposed,  \* key -> prices at which a sale was proposed
    ticks, errors \* counters

vars == <<phase, running, queue, pending, got, hand, step, positions, tokens, sync, venue,
          handled, missed, proposed, ticks, errors>>
loopVars  == <<phase, running, queue, pending, got, hand, step>>
bookVars  == <<positions, tokens, handled, proposed>>
worldVars == <<venue, missed, ticks>>

Topics == {"ORDERS", "MARKET_DATA"}

OrderIds == 1..MaxOrders

(* run() syncs once itself, _periodic_sync goes on doing it. *)
Syncers == {"run", "periodic"}

(* What the list of orders says of a key: FILLED goes before CANCELLED,    *)
(* CANCELLED before OPEN; a filled SELL alone creates nothing.  Nothing    *)
(* follows from an open order, nor from one whose status is UNKNOWN.       *)
Verdicts == {"none", "bought", "sold", "cancelled", "open"}

Item == [topic : {"ORDERS"}, id : OrderIds, key : Keys, side : {"BUY", "SELL"},
         price : Prices]
   \cup [topic : {"MARKET_DATA"}, key : Keys, price : Prices]

With(k, price) == [x \in DOMAIN positions \cup {k} |-> IF x = k THEN price ELSE positions[x]]
Except(keys)   == [x \in DOMAIN positions \ keys |-> positions[x]]

-----------------------------------------------------------------------------
Init ==
    /\ phase = "new" /\ running = FALSE
    /\ queue = [t \in Topics |-> <<>>] /\ pending = {} /\ got = [t \in Topics |-> <<>>]
    /\ hand = <<>> /\ step = "wait"
    /\ positions = <<>> /\ tokens = {} /\ sync = [s \in Syncers |-> <<>>]
    /\ venue = <<>> /\ handled = {} /\ missed = {}
    /\ proposed = [k \in Keys |-> {}]
    /\ ticks = 0 /\ errors = 0

Emit(t, item) ==
    queue' = IF phase = "new" THEN queue ELSE [queue EXCEPT ![t] = Append(@, item)]

(* The venue: an order is placed, by the platform or by the account's      *)
(* owner, and then filled or cancelled.  What the platform has executed is *)
(* published on ORDERS; a BUY carries its target, or none.                 *)
Place(k, side, ours) ==
    /\ Len(venue) < MaxOrders /\ (ours \/ side \in OwnerSides)
    /\ venue' = Append(venue, [key |-> k, side |-> side, ours |-> ours, status |-> "OPEN"])
    /\ UNCHANGED <<loopVars, bookVars, sync, missed, ticks, errors>>

Execute(o, price) ==
    /\ venue[o].status = "OPEN"
    /\ venue' = [venue EXCEPT ![o].status = "FILLED"]
    /\ (venue[o].ours /\ venue[o].side = "BUY") \/ price = HalfPrice
    /\ IF venue[o].ours
         THEN /\ Emit("ORDERS", [topic |-> "ORDERS", id |-> o, key |-> venue[o].key,
                                 side |-> venue[o].side, price |-> price])
              /\ missed' = IF phase = "new" THEN missed \cup {o} ELSE missed
         ELSE UNCHANGED <<queue, missed>>
    /\ UNCHANGED <<phase, running, pending, got, hand, step, bookVars, sync, ticks, errors>>

Cancel(o) ==
    /\ venue[o].status = "OPEN"
    /\ venue' = [venue EXCEPT ![o].status = "CANCELLED"]
    /\ UNCHANGED <<loopVars, bookVars, sync, missed, ticks, errors>>

Tick(k, price) ==
    /\ ticks < MaxTicks /\ ticks' = ticks + 1
    /\ Emit("MARKET_DATA", [topic |-> "MARKET_DATA", key |-> k, price |-> price])
    /\ UNCHANGED <<phase, running, pending, got, hand, step, bookVars, sync, venue, missed, errors>>

-----------------------------------------------------------------------------
(* run(): subscribes, starts the periodic sync and syncs itself. *)
Run ==
    /\ phase = "new"
    /\ phase' = IF Syncs THEN "syncing" ELSE "running"
    /\ running' = TRUE
    /\ pending' = IF Syncs THEN {} ELSE Topics
    /\ UNCHANGED <<queue, got, hand, step, bookVars, sync, worldVars, errors>>

(* While step is "ready" the loop's task runs and no other does.           *)

(* A get() completes: asyncio.wait is told, or, while an item is being     *)
(* handled, nobody is.                                                     *)
Get(t) ==
    /\ step # "ready" /\ t \in pending /\ queue[t] # <<>>
    /\ pending' = pending \ {t}
    /\ got' = [got EXCEPT ![t] = <<Head(queue[t])>>]
    /\ queue' = [queue EXCEPT ![t] = Tail(@)]
    /\ UNCHANGED <<phase, running, hand, step, bookVars, sync, worldVars, errors>>

(* asyncio.wait returns: what has completed is handled, in either order. *)
Woken_First == {got[t] : t \in Topics} \ {<<>>}

Woken ==
    {s \in {got["ORDERS"] \o got["MARKET_DATA"], got["MARKET_DATA"] \o got["ORDERS"]} : s # <<>>}

Wake ==
    /\ phase = "running" /\ step = "wait"
    /\ hand' \in Woken
    /\ step' = "ready"
    /\ got' = [t \in Topics |-> <<>>]
    /\ UNCHANGED <<phase, running, queue, pending, bookVars, sync, worldVars, errors>>

(* Every round makes a get() for each queue. *)
Getters_Left == pending

Getters == Topics

(* The round is over: what was pending is cancelled.  A get() that has     *)
(* completed meanwhile cannot be: it is awaited and its item forgotten.    *)
EndRound ==
    /\ step = "ready" /\ hand = <<>>
    /\ step' = "wait"
    /\ got' = [t \in Topics |-> <<>>]
    /\ IF running
         THEN pending' = Getters /\ UNCHANGED <<phase, sync>>
         ELSE pending' = {} /\ phase' = "stopped" /\ sync' = [sync EXCEPT !["periodic"] = <<>>]
    /\ UNCHANGED <<running, queue, hand, bookVars, worldVars, errors>>

(* _handle_order up to the lookup of the token, which a thread makes. *)
HandleOrder ==
    /\ step = "ready" /\ hand # <<>> /\ Head(hand).topic = "ORDERS"
    /\ LET o == Head(hand) IN
       /\ handled' = handled \cup {o.id}
       /\ IF o.side = "BUY"
            THEN /\ positions' = With(o.key, o.price)
                 /\ step' = "lookup" /\ UNCHANGED hand
            ELSE /\ positions' = Except({o.key})
                 /\ hand' = Tail(hand) /\ UNCHANGED step
    /\ UNCHANGED <<phase, running, queue, pending, got, tokens, proposed, sync, worldVars, errors>>

(* _cache_token_id: the answer, or an exception that is logged. *)
CacheToken ==
    /\ step = "lookup"
    /\ \/ tokens' = tokens \cup {Head(hand).key} /\ UNCHANGED errors
       \/ errors < MaxErrors /\ errors' = errors + 1 /\ UNCHANGED tokens
    /\ hand' = Tail(hand) /\ step' = "ready"
    /\ UNCHANGED <<phase, running, queue, pending, got, positions, handled, proposed, sync, worldVars>>

(* _check_target_prices: a sale is proposed whenever a tick is at or above *)
(* the target, however often one was proposed before.  The bus it is wired *)
(* with has no store that suspends; with one, the pending get() of ORDERS  *)
(* could complete meanwhile and its order be lost like a tick.             *)
CheckTargetPrices ==
    /\ step = "ready" /\ hand # <<>> /\ Head(hand).topic = "MARKET_DATA"
    /\ LET e   == Head(hand)
           hit == e.key \in DOMAIN positions /\ e.price >= positions[e.key]
       IN /\ proposed' = IF hit THEN [proposed EXCEPT ![e.key] = @ \cup {positions[e.key]}]
                         ELSE proposed
          /\ hand' = Tail(hand)
    /\ UNCHANGED <<phase, running, queue, pending, got, step, positions, tokens, handled, sync,
                   worldVars, errors>>

-----------------------------------------------------------------------------
(* _sync_with_external: the venue answers, in a thread, with what it lists *)
(* at some moment of the call ...                                          *)
Verdict(k) ==
    LET of(st) == {o \in DOMAIN venue : venue[o].key = k /\ venue[o].status \in Listed \cap {st}} IN
    IF \E o \in of("FILLED") : venue[o].side = "BUY" THEN "bought"
    ELSE IF of("FILLED") # {} THEN "sold"
    ELSE IF of("CANCELLED") # {} THEN "cancelled"
    ELSE IF of("OPEN") # {} THEN "open" ELSE "none"

(* The sync a task may be in: run()'s before its loop, the periodic one    *)
(* as long as the manager runs.                                            *)
MaySync(s) == IF s = "run" THEN phase = "syncing"
              ELSE Syncs /\ phase \in {"syncing", "running"} /\ running

Fetch(s) ==
    /\ step # "ready" /\ MaySync(s) /\ sync[s] = <<>>
    /\ sync' = [sync EXCEPT ![s] = <<[k \in Keys |-> Verdict(k)]>>]
    /\ UNCHANGED <<loopVars, bookVars, worldVars, errors>>

(* run() goes on to its loop after its sync, whatever came of it, unless   *)
(* it was stopped: then it ends and the periodic sync with it.             *)
Synced(s) ==
    /\ sync' = [x \in Syncers |-> IF x = s \/ (s = "run" /\ ~running) THEN <<>> ELSE sync[x]]
    /\ IF s = "run"
         THEN /\ phase' = IF running THEN "running" ELSE "stopped"
              /\ pending' = IF running THEN Topics ELSE {}
         ELSE UNCHANGED <<phase, pending>>

(* The target of a position that was found at the venue. *)
DiscoveredTarget == HalfPrice

(* ... and _reconcile_positions applies it later: of the keys whose token  *)
(* is known, a bought one without a position gets one at the default       *)
(* target, a cancelled one loses its position.                             *)
Reconcile(s) ==
    /\ step # "ready" /\ sync[s] # <<>>
    /\ LET says(v) == {k \in tokens : sync[s][1][k] = v}
           kept    == Except(says("cancelled"))
       IN positions' = [k \in DOMAIN kept \cup says("bought") |->
                           IF k \in DOMAIN kept THEN kept[k] ELSE DiscoveredTarget]
    /\ Synced(s)
    /\ UNCHANGED <<running, queue, got, hand, step, tokens, handled, proposed, worldVars, errors>>

(* The client or the call raises: logged. *)
SyncFails(s) ==
    /\ step # "ready" /\ MaySync(s) /\ sync[s] = <<>> /\ errors < MaxErrors
    /\ errors' = errors + 1
    /\ Synced(s)
    /\ UNCHANGED <<running, queue, got, hand, step, bookVars, worldVars>>

(* stop(): a flag, looked at when a round ends. *)
Stop ==
    /\ running
    /\ running' = FALSE
    /\ UNCHANGED <<phase, queue, pending, got, hand, step, bookVars, sync, worldVars, errors>>

-----------------------------------------------------------------------------
World == \/ \E k \in Keys, side \in {"BUY", "SELL"}, ours \in BOOLEAN : Place(k, side, ours)
         \/ \E o \in DOMAIN venue : Cancel(o) \/ \E price \in Prices : Execute(o, price)
         \/ \E k \in Keys, price \in Prices : Tick(k, price)
Loop  == Wake \/ EndRound \/ HandleOrder \/ CacheToken \/ CheckTargetPrices
Next  == \/ Loop
         \/ step # "ready" /\ (World \/ Run \/ Stop)
         \/ \E t \in Topics : Get(t)
         \/ \E s \in Syncers : Fetch(s) \/ Reconcile(s) \/ SyncFails(s)

Spec == Init /\ [][Next]_vars

(* asyncio runs what is ready, threads end, and the interval passes. *)
FairSpec == /\ Spec /\ WF_vars(Loop)
            /\ \A t \in Topics : WF_vars(Get(t))
            /\ \A s \in Syncers : WF_vars(Fetch(s)) /\ WF_vars(Reconcile(s))

-----------------------------------------------------------------------------
(* Properties *)

(* Types. *)
TypeOK ==
    /\ phase \in {"new", "syncing", "running", "stopped"} /\ running \in BOOLEAN
    /\ queue \in [Topics -> Seq(Item)] /\ pending \subseteq Topics /\ got \in [Topics -> Seq(Item)]
    /\ hand \in Seq(Item) /\ Len(hand) <= 2
    /\ step \in {"wait", "ready", "lookup"}
    /\ DOMAIN positions \subseteq Keys /\ \A k \in DOMAIN positions : positions[k] \in Prices
    /\ tokens \subseteq Keys
    /\ \A s \in Syncers : Len(sync[s]) <= 1 /\ sync[s] \in Seq([Keys -> Verdicts])
    /\ handled \subseteq OrderIds /\ missed \subseteq OrderIds
    /\ proposed \in [Keys -> SUBSET Prices]

(* Although a round forgets what its pending get() has taken, no executed  *)
(* order is lost: while the manager is suspended the pending one can only  *)
(* be that of the ticks.                                                   *)
InTransit == {i \in OrderIds :
                \/ \E n \in 1..Len(queue["ORDERS"]) : queue["ORDERS"][n].id = i
                \/ got["ORDERS"] # <<>> /\ got["ORDERS"][1].id = i
                \/ \E n \in 1..Len(hand) : hand[n].topic = "ORDERS" /\ hand[n].id = i}
NoOrderIsLost ==
    \A o \in DOMAIN venue :
        venue[o].ours /\ venue[o].status = "FILLED" => o \in missed \cup InTransit \cup handled

(* Every order executed after run() has subscribed is handled in the end,  *)
(* unless the manager is stopped: whatever its sync before the loop, the   *)
(* lookups and the rounds in between come to (run, _handle_order).         *)
OrdersAreHandled ==
    \A o \in OrderIds :
        (o \in DOMAIN venue /\ venue[o].ours /\ venue[o].status = "FILLED" /\ o \notin missed)
            ~> (o \in handled \/ ~running)

-----------------------------------------------------------------------------
(* What does not hold, whatever the code's texts suggest.                  *)

Held(k) ==
    LET filled(side) == {o \in DOMAIN venue : venue[o].key = k /\ venue[o].side = side
                                              /\ venue[o].status = "FILLED"}
    IN Cardinality(filled("BUY")) > Cardinality(filled("SELL"))

(* "Automatically synchronizes internal positions with external API state":*)
(* a sale drops a position that two purchases made, and as the venue lists *)
(* open orders only, no sync brings back what is still held.               *)
HeldIsTracked ==
    \A k \in Keys :
        (Held(k) /\ k \in tokens /\ phase = "running" /\ Syncs)
            ~> (k \in DOMAIN positions \/ ~Held(k) \/ ~running)

(* "Creates positions for externally filled BUY orders": if the venue      *)
(* listed filled orders, as the tests let it, a sync after a sale would    *)
(* find the old BUY and open the position again, at target 0.5.            *)
SyncOpensWhatIsHeld ==
    [][\A k \in DOMAIN positions' \ DOMAIN positions : sync' # sync => Held(k)]_vars

(* stop() takes effect with the next order or tick only. *)
StopStops == ~running /\ phase # "new" ~> phase = "stopped"
=============================================================================
