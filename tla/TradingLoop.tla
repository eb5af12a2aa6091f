----------------------------- MODULE TradingLoop ----------------------------
(***************************************************************************)
(* The paper trading loop of the platform: market data, strategies,        *)
(* portfolio, risk, orders, fills, positions, and back.  The supervisor    *)
(* that publishes ticks and market changes, and OMS, router and adapter,   *)
(* which turn an order into a fill or not, are each one step here (they    *)
(* are modules of their own).                                              *)
(***************************************************************************)
EXTENDS SignalPath

CONSTANTS
    Polls,         \* what a poll may give: pairs of an outcome and its mid
    ReportsOrders, \* TRUE iff somebody publishes executed orders on ORDERS
    MaxTicks,      \* bound: ticks the supervisor publishes
    MaxLag         \* bound: ticks, signals and proposals unread when a tick is published

ASSUME LoopAssumption ==
    /\ ReportsOrders \in BOOLEAN /\ {MaxTicks, MaxLag} \subseteq Nat
    /\ Polls \subseteq Outcomes \X (1..Full)

VARIABLE nticks   \* how many it has published

queues == <<fills, ticks, changes>>
path   == <<current, quotes, inbox, runners, signals, proposals, executions, checker, orders>>
vars   == <<queues, ppm, path, nticks>>

Init == PositionsInit /\ SignalInit /\ nticks = 0

-----------------------------------------------------------------------------
Unread == Len(ticks) + Len(signals) + Len(proposals)
             + FoldSet(LAMBDA s, n : n + Len(inbox[s]), 0, Strategies)

(* The supervisor publishes a tick of its current market: to the store, to *)
(* every runner, to the position manager.                                  *)
Tick(k, mid) ==
    /\ nticks < MaxTicks /\ nticks' = nticks + 1
    /\ Unread < MaxLag
    /\ quotes' = [quotes EXCEPT ![k] = mid]
    /\ inbox' = [s \in Strategies |-> Append(inbox[s], [key |-> k, mid |-> mid])]
    /\ ticks' = Append(ticks, [key |-> k, mid |-> mid])
    /\ UNCHANGED <<current, runners, signals, proposals, executions, checker, orders,
                   fills, changes, ppm>>

(* The market expires and the supervisor has the next one. *)
Expire ==
    /\ current < Len(Markets) /\ current' = current + 1
    /\ changes' = Append(changes, Markets[current])
    /\ UNCHANGED <<quotes, inbox, runners, signals, proposals, executions, checker, orders,
                   fills, ticks, ppm, nticks>>

(* The paper adapter fills an order sooner or later, or never; the router  *)
(* publishes the fill of the whole order.  External: somebody publishes    *)
(* the executed order on ORDERS too, as the tests of the risk checker do   *)
(* and no component under src/polytrader does.                             *)
Fill(i) ==
    /\ orders[i].state = "sent"
    /\ orders' = [orders EXCEPT ![i].state = "filled"]
    /\ fills' = Append(fills, orders[i].intent)
    /\ executions' = IF ReportsOrders THEN Append(executions, i) ELSE executions
    /\ UNCHANGED <<current, quotes, inbox, runners, signals, proposals, checker,
                   ticks, changes, ppm, nticks>>

-----------------------------------------------------------------------------
Runner(s)  == Evaluate(s) /\ UNCHANGED <<queues, ppm, nticks>>
Portfolio  == ProcessSignal /\ UNCHANGED <<queues, ppm, nticks>>
Risk       == Check /\ UNCHANGED <<queues, ppm, nticks>>
RiskOrders == TrackOrder /\ UNCHANGED <<queues, ppm, nticks>>

PathKept   == UNCHANGED <<current, quotes, inbox, runners, signals, executions, checker,
                          orders, nticks>>
Fills      == HandleFill /\ PathKept /\ UNCHANGED proposals
MarketData == HandleMarketData /\ PathKept /\ proposals' = proposals \o Offered(Head(ticks))
Settle     == HandleMarketChange /\ PathKept /\ UNCHANGED proposals

Next ==
    \/ \E q \in Polls : Tick(<<Markets[current], q[1]>>, q[2])
    \/ Expire
    \/ \E i \in DOMAIN orders : Fill(i)
    \/ \E s \in Strategies : Runner(s)
    \/ Portfolio \/ Risk \/ RiskOrders
    \/ Fills \/ MarketData \/ Settle

Spec == Init /\ [][Next]_vars

-----------------------------------------------------------------------------
(* Properties *)

IsFilled(i) == orders[i].state = "filled"
Bought(s, k) ==
    { i \in DOMAIN orders : IsFilled(i) /\ orders[i].intent.side = "BUY"
                               /\ orders[i].intent.strategy = s /\ orders[i].intent.key = k }
Buyers(k) == {s \in Strategies : Bought(s, k) # {}}
OfKey(log, k) == Select(log, {c \in ToSet(log) : c.key = k})
Total(log, k) ==
    LET own == OfKey(log, k)
        sum[n \in 0..Len(own)] == IF n = 0 THEN 0 ELSE sum[n - 1] + own[n].size
    IN sum[Len(own)]

(* Types. *)
TypeOK ==
    /\ held \in Seq(Keys) /\ IsInjective(held)
    /\ \A k \in Keys : IsHeld(k) <=> position[k].size > 0
    /\ selling \subseteq Keys
    /\ current \in DOMAIN Markets
    /\ \A i \in DOMAIN orders : orders[i].state \in {"sent", "filled"}
    /\ approved \cup executed \subseteq (Strategies \cup {"unknown"}) \X Keys

(* A strategy's BUYs of one outcome of one market are approved at most     *)
(* once, however many signals are under way before the first is executed   *)
(* (risk/engine.py:254: "prevent race condition where multiple orders pass *)
(* risk checks before first one executes"), reported or not.               *)
OneBuyEach ==
    \A i, j \in DOMAIN orders :
        LET p == orders[i].intent
            q == orders[j].intent
        IN p.side = "BUY" /\ q.side = "BUY" /\ p.strategy = q.strategy /\ p.key = q.key
              => i = j

(* What a key's only buyer bought is either held or closed, once: by a     *)
(* sale, or by settlement, however fills, sales, ticks and expiry overtake *)
(* each other.                                                             *)
Ledger ==
    \A k \in Keys :
        Cardinality(Buyers(k)) = 1 /\ (\A i \in DOMAIN fills : fills[i].key # k)
           => LET s == CHOOSE b \in Buyers(k) : TRUE
              IN position[k].size + Total(closed, k) = Cardinality(Bought(s, k))

(* The two books agree on a key with one buyer: the strategy's tracker     *)
(* holds what the position manager holds and has closed what it closed     *)
(* (platform/performance.py:246: "Keeps per-strategy state in sync").      *)
BooksAgree ==
    \A k \in Keys :
        Cardinality(Buyers(k)) = 1 =>
            /\ \A s \in Strategies : tracked[s][k] > 0 => tracked[s][k] = position[k].size
            /\ OfKey(attributed, k) = OfKey(closed, k)

(* Never two sales of one position at a time, and never more sold than     *)
(* bought, although ticks go on while the first sale is under way          *)
(* (paper.py:90: "avoid duplicate SELLs").                                 *)
Sales(k) ==
    { i \in DOMAIN orders : orders[i].intent.side = "SELL" /\ orders[i].intent.key = k }
OneSaleEach ==
    \A k \in Keys :
        Cardinality(Buyers(k)) = 1 =>
            /\ Cardinality(Sales(k)) <= 1
            /\ Cardinality({i \in DOMAIN proposals :
                   proposals[i].side = "SELL" /\ proposals[i].key = k}) <= 1

(* A position of an expired market is settled the way its last prices      *)
(* point, whatever ticks are still unread and in whichever order the       *)
(* positions are closed, though the first price is forgotten before the    *)
(* second outcome is settled: an outcome above both one half and the other *)
(* price has won, one below one half that is not above the other has lost, *)
(* one never quoted is closed at its entry price (paper.py:889: "Try to    *)
(* use last known market price").                                          *)
Verdict(k) ==
    CASE last[k] > Half /\ last[k] > last[Other(k)]                    -> {"won"}
      [] last[k] > 0 /\ last[k] < Half
            /\ (last[Other(k)] = 0 \/ last[k] <= last[Other(k)])       -> {"lost"}
      [] last[k] = 0                                                   -> {"entry"}
      [] OTHER                                                         -> {"won", "lost", "even"}
SettledAsQuoted ==
    [][\A k \in Keys :
          changes # <<>> /\ changes' = Tail(changes) /\ Head(changes) = k[1] /\ IsHeld(k)
           => \E i \in DOMAIN closed' \ DOMAIN closed :
                 closed'[i].key = k /\ closed'[i].exit \in Verdict(k)]_vars

-----------------------------------------------------------------------------
(* What the documents say of the loop and the code does not keep. *)

(* A SELL the position manager proposes of what it holds is not stopped    *)
(* for want of tokens (paper.py:210: "So we publish SELL here when mid >=  *)
(* position.target_price so positions can close").                         *)
OwnedMaySell ==
    \A i \in DOMAIN proposals :
        LET p == proposals[i]
        IN p.side = "SELL" /\ p.strategy = "position_manager" /\ IsHeld(p.key)
              /\ (\A j \in DOMAIN orders : orders[j].state # "sent") /\ executions = <<>>
            => CheckTokenOwnership(p)

(* At most one outcome of a market is settled as the winner (paper.py:891: *)
(* "If last UP price > last DOWN price: UP wins (1.0), DOWN loses (0.0)"). *)
OneWinner ==
    \A i, j \in DOMAIN closed :
        /\ closed[i].key[1] = closed[j].key[1]
        /\ closed[i].exit = "won" /\ closed[j].exit = "won"
      => closed[i].key = closed[j].key

(* Once the change of market is handled, nothing is held in the expired    *)
(* one (paper.py:759: "When a market transitions (old_market ->            *)
(* new_market), close all positions in the old market").                   *)
ExpiredFlat ==
    fills = <<>> /\ changes = <<>>
       => \A k \in Keys : IsHeld(k) => k[1] = Markets[current]
=============================================================================
