--------------------------- MODULE PaperPositions ---------------------------
(***************************************************************************)
(* The paper position manager (position_manager/paper.py) with the outcome *)
(* tracker and the per-strategy performance tracker it feeds               *)
(* (outcome_tracker.py, platform/performance.py).                          *)
(*                                                                         *)
(* Three tasks read three queues, FILLS, MARKET_DATA and MARKET_CHANGE.    *)
(* The platform gives it a bus without an event store (tasks/platform.py), *)
(* so that no publish suspends and a handler is one step; nothing orders   *)
(* the three queues.                                                       *)
(***************************************************************************)
EXTENDS Naturals, FiniteSets, SequencesExt

CONSTANTS
    Strategies,   \* strategy ids
    Markets,      \* a sequence: each expires and is followed by the next
    Full          \* the price 1.0, in the unit of the model's prices

ASSUME PositionsAssumption ==
    /\ Markets \in Seq(ToSet(Markets)) /\ Markets # <<>>
    /\ "none" \notin Strategies
    /\ Full \in Nat \ {0} /\ Full % 2 = 0

Outcomes == {"UP", "DOWN"}
Keys     == ToSet(Markets) \X Outcomes
Half     == Full \div 2
Other(k) == <<k[1], CHOOSE o \in Outcomes : o # k[2]>>

VARIABLES
    fills,     \* queue of FILLS: the order each fill belongs to
    ticks,     \* queue of MARKET_DATA: [key, mid]
    changes,   \* queue of MARKET_CHANGE: the market that has expired
    held,      \* keys of _positions, in the order of the dict
    position,  \* _positions[k]: [size, target], zeros if k is not held
    bought,    \* _position_fills[k]: cumulative size of BUY fills
    last,      \* _latest_prices[k], 0 if there is none (a mid is > 0 here)
    selling,   \* _sell_pending
    owner,     \* _position_strategy[k], "none" if there is none
    tracked,   \* the per-strategy tracker's position of <<s, k>>: its size
    closed,    \* the outcome tracker's closed positions, in order
    attributed \* closed positions of the strategies' trackers, in order

ppm == <<held, position, bought, last, selling, owner, tracked, closed, attributed>>

NoPosition == [size |-> 0, target |-> 0]
IsHeld(k)  == k \in ToSet(held)

PositionsInit ==
    /\ fills = <<>> /\ ticks = <<>> /\ changes = <<>>
    /\ held = <<>> /\ selling = {}
    /\ position = [k \in Keys |-> NoPosition]
    /\ bought = [k \in Keys |-> 0] /\ last = [k \in Keys |-> 0]
    /\ owner = [k \in Keys |-> "none"]
    /\ tracked = [s \in Strategies |-> [k \in Keys |-> 0]]
    /\ closed = <<>> /\ attributed = <<>>

(* What is left of a sequence if only the items in S are kept.             *)
Select(s, S) ==
    LET kept[n \in 0..Len(s)] ==
            IF n = 0 THEN <<>>
            ELSE IF s[n] \in S THEN Append(kept[n - 1], s[n]) ELSE kept[n - 1]
    IN kept[Len(s)]

Closing(s, k, size, exit) == [strategy |-> s, key |-> k, size |-> size, exit |-> exit]

-----------------------------------------------------------------------------
(* _handle_fill with side BUY, record_buy_fill and _handle_buy_fill.  The  *)
(* last buyer becomes the strategy of the position; the size is the sum of *)
(* all BUY fills; the target stays that of the fill that opened it.        *)
Target(k, f) == IF IsHeld(k) THEN position[k].target ELSE f.target

BuyFill(f) ==
    LET k == f.key
        n == bought[k] + f.size
    IN /\ owner'    = [owner EXCEPT ![k] = f.strategy]
       /\ tracked'  = [tracked EXCEPT ![f.strategy][k] = @ + f.size]
       /\ bought'   = [bought EXCEPT ![k] = n]
       /\ position' = [position EXCEPT ![k] = [size |-> n, target |-> Target(k, f)]]
       /\ held'     = IF IsHeld(k) THEN held ELSE Append(held, k)
       /\ UNCHANGED <<last, selling, closed, attributed>>

(* record_sell_fill: the strategy that opened the position, or the one of  *)
(* the order, closes the whole of its position, whatever was sold.         *)
Closer_Seller(f) == f.strategy
Closer(f) == IF owner[f.key] = "none" THEN f.strategy ELSE owner[f.key]

Attribute(s, k, exit) ==
    IF s \in Strategies /\ tracked[s][k] > 0
      THEN /\ attributed' = Append(attributed, Closing(s, k, tracked[s][k], exit))
           /\ tracked' = [tracked EXCEPT ![s][k] = 0]
      ELSE UNCHANGED <<attributed, tracked>>

(* _handle_sell_fill: nothing if the key is not held; the position is      *)
(* reduced, or recorded as closed with its full size and forgotten.        *)
Forget_Fills(k) ==
    /\ bought' = [bought EXCEPT ![k] = 0]
    /\ owner'  = [owner EXCEPT ![k] = "none"]
    /\ UNCHANGED <<held, position>>
Forget(k) ==
    /\ held'     = Select(held, Keys \ {k})
    /\ position' = [position EXCEPT ![k] = NoPosition]
    /\ bought'   = [bought EXCEPT ![k] = 0]
    /\ owner'    = [owner EXCEPT ![k] = "none"]

Exhausts(f)          == f.size >= position[f.key].size

SellFill(f) ==
    LET k == f.key IN
    /\ Attribute(Closer(f), k, "sold")
    /\ \/ ~IsHeld(k) /\ UNCHANGED <<held, position, bought, owner, selling, closed>>
       \/ /\ IsHeld(k) /\ ~Exhausts(f)
          /\ position' = [position EXCEPT ![k].size = @ - f.size]
          /\ UNCHANGED <<held, bought, owner, selling, closed>>
       \/ /\ IsHeld(k) /\ Exhausts(f)
          /\ closed' = Append(closed, Closing(owner[k], k, position[k].size, "sold"))
          /\ Forget(k)
          /\ selling' = selling \ {k}
    /\ UNCHANGED last

HandleFill ==
    /\ fills # <<>> /\ fills' = Tail(fills)
    /\ LET f == Head(fills) IN
         \/ f.side = "BUY"  /\ BuyFill(f)
         \/ f.side = "SELL" /\ SellFill(f)
    /\ UNCHANGED <<ticks, changes>>

-----------------------------------------------------------------------------
(* _handle_market_data: the mid is kept; when it reaches the target of a   *)
(* held position, one SELL of the whole is proposed.                       *)
Proposes_Again(t) == IsHeld(t.key) /\ t.mid >= position[t.key].target

Proposes(t) ==
    IsHeld(t.key) /\ t.key \notin selling /\ t.mid >= position[t.key].target

SellIntent(k) ==
    [side |-> "SELL", strategy |-> "position_manager", key |-> k,
     size |-> position[k].size, target |-> position[k].target]

Offered(t) == IF Proposes(t) THEN <<SellIntent(t.key)>> ELSE <<>>

HandleMarketData ==
    /\ ticks # <<>> /\ ticks' = Tail(ticks)
    /\ LET t == Head(ticks) IN
         /\ last' = [last EXCEPT ![t.key] = t.mid]
         /\ selling' = selling \cup {o.key : o \in ToSet(Offered(t))}
    /\ UNCHANGED <<fills, changes, held, position, bought, owner, tracked, closed, attributed>>

-----------------------------------------------------------------------------
(* _determine_settlement_price, given the prices p of both outcomes: the   *)
(* higher of two known prices wins; one alone is compared with 0.5; with   *)
(* none the entry price is the settlement.                                 *)
Threshold_Inverted(p) == IF p < Half THEN "won" ELSE IF p > Half THEN "lost" ELSE "even"
Threshold(p)          == IF p > Half THEN "won" ELSE IF p < Half THEN "lost" ELSE "even"
Settlement(mine, theirs) ==
    IF mine > 0 /\ theirs > 0 THEN IF mine > theirs THEN "won" ELSE "lost"
    ELSE IF mine > 0 THEN Threshold(mine)
    ELSE "entry"

(* _handle_market_change: the positions of the expired market are closed   *)
(* in the order of the dict.  Each forgets its own last price before the   *)
(* next is settled.  _sell_pending is not cleared.                         *)
HandleMarketChange ==
    /\ changes # <<>> /\ changes' = Tail(changes)
    /\ LET open == Select(held, {Head(changes)} \X Outcomes)
           gone == ToSet(open)
           Theirs(i) == IF i = 1 THEN last[Other(open[i])] ELSE 0
           Exit(i)   == Settlement(last[open[i]], Theirs(i))
           settled == [i \in DOMAIN open |->
                          Closing(owner[open[i]], open[i], position[open[i]].size, Exit(i))]
           Tracked == {c \in ToSet(settled) :
                          c.strategy # "none" /\ tracked[c.strategy][c.key] > 0}
       IN /\ closed' = closed \o settled
          /\ attributed' = attributed \o Select(settled, Tracked)
          /\ tracked' = [s \in Strategies |-> [k \in Keys |->
                IF k \in gone /\ owner[k] = s THEN 0 ELSE tracked[s][k]]]
          /\ held'     = Select(held, Keys \ gone)
          /\ position' = [k \in Keys |-> IF k \in gone THEN NoPosition ELSE position[k]]
          /\ bought'   = [k \in Keys |-> IF k \in gone THEN 0 ELSE bought[k]]
          /\ last'     = [k \in Keys |-> IF k \in gone THEN 0 ELSE last[k]]
          /\ owner'    = [k \in Keys |-> IF k \in gone THEN "none" ELSE owner[k]]
    /\ UNCHANGED <<fills, ticks, selling>>

(* get_positions_for_strategy: what a strategy and the sizing see. *)
PositionsOf(s) == {k \in ToSet(held) : owner[k] = s}
=============================================================================
