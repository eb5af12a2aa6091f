----------------------------- MODULE SignalPath -----------------------------
(***************************************************************************)
(* From market data to an approved proposal: the runner's evaluation of a  *)
(* strategy (platform/strategy_runner.py, strategies/), the portfolio      *)
(* service (portfolio/) and the risk checker (risk/).  No publish suspends *)
(* here either: each handler is one step, between steps the next message   *)
(* waits in its queue.                                                     *)
(*                                                                         *)
(* Positions are read at the time of the handler: `Mine(s)` are the keys   *)
(* strategy s holds by the position manager, `SizeOf(k)` a held size.      *)
(***************************************************************************)
EXTENDS PaperPositions

CONSTANTS
    BuyBelow,      \* buy_threshold of simple_threshold
    MaxSignals,    \* max_trades_per_hour of the mean reversion
    MaxOrderSize,  \* RiskLimits.max_order_size
    MaxPosition,   \* RiskLimits.max_position_per_market
    MaxGlobal,     \* RiskLimits.max_position_global
    RateLimit      \* RiskLimits.order_rate_limit_per_minute

ASSUME SignalBounds == {BuyBelow, MaxSignals, MaxOrderSize, MaxPosition, MaxGlobal, RateLimit} \subseteq Nat

Exposure == 1   \* fixed_size_usd

VARIABLES
    current,    \* index of MarketSupervisor.current_market
    quotes,     \* the market data store: latest mid of a key, 0 if there is none
    inbox,      \* each runner's queue of MARKET_DATA
    kind,       \* external: what the registry has each strategy be
    instance,   \* market of the runner's strategy instance, "none" before the first
    signalled,  \* threshold: keys with a signal not cleared by a higher price
    fired,      \* reversion: signals of the instance within the hour
    signals,    \* queue of SIGNALS
    proposals,  \* queue of PROPOSALS
    executions, \* queue of ORDERS, read by track_orders
    executed,   \* RiskChecker._executed_trades
    approved,   \* RiskChecker._approved_trades
    matching,   \* RiskChecker._approved_correlation: orders approved, not yet executed
    count,      \* RiskChecker._order_count_last_minute; nothing resets it
    orders      \* the approved proposals, in order, as the OMS gets them

runners == <<kind, instance, signalled, fired>>
checker == <<executed, approved, matching, count>>

SignalInit ==
    /\ current = 1 /\ quotes = [k \in Keys |-> 0]
    /\ inbox = [s \in Strategies |-> <<>>]
    /\ kind \in [Strategies -> {"threshold", "reversion"}]
    /\ instance = [s \in Strategies |-> "none"]
    /\ signalled = [s \in Strategies |-> {}] /\ fired = [s \in Strategies |-> 0]
    /\ signals = <<>> /\ proposals = <<>> /\ executions = <<>>
    /\ executed = {} /\ approved = {} /\ matching = {} /\ count = 0
    /\ orders = <<>>

-----------------------------------------------------------------------------
(* SimpleThresholdStrategy.evaluate: below the threshold, one signal until *)
(* the price has been above it again.  The outcome of the signal is always *)
(* UP, its p_up is 1 - mid, whatever outcome the tick is of.               *)
Signal(s, market, outcome, upwards) ==
    [strategy |-> s, key |-> <<market, outcome>>, upwards |-> upwards]

Threshold_Evaluate(s, t, seen) ==
    \/ /\ t.mid < BuyBelow /\ t.key \notin seen
       /\ signals' = Append(signals, Signal(s, t.key[1], "UP", 2 * t.mid < Full))
       /\ signalled' = [signalled EXCEPT ![s] = seen \cup {t.key}]
    \/ /\ t.mid < BuyBelow /\ t.key \in seen
       /\ signalled' = [signalled EXCEPT ![s] = seen] /\ UNCHANGED signals
    \/ /\ t.mid >= BuyBelow
       /\ signalled' = [signalled EXCEPT ![s] = seen \ {t.key}] /\ UNCHANGED signals

(* VolatilityFilteredMeanReversionStrategy.evaluate: a signal of either    *)
(* outcome, as the candles have it, if the strategy is flat in its market  *)
(* and has not used up its hour.                                           *)
Flat(s, m) == \A o \in Outcomes : <<m, o>> \notin PositionsOf(s)

Reversion_Evaluate(s, t, n) ==
    \/ UNCHANGED signals /\ fired' = [fired EXCEPT ![s] = n]
    \/ /\ n < MaxSignals /\ Flat(s, t.key[1])
       /\ \E o \in Outcomes :
             signals' = Append(signals, Signal(s, t.key[1], o, o = "UP"))
       /\ fired' = [fired EXCEPT ![s] = n + 1]

(* _evaluate_strategy_loop: a tick of another market than the supervisor's *)
(* is dropped; the first tick of a new market resets the strategy.         *)
Accepts(t) == t.key[1] = Markets[current]

Evaluate(s) ==
    /\ inbox[s] # <<>> /\ inbox' = [inbox EXCEPT ![s] = Tail(@)]
    /\ LET t == Head(inbox[s])
           same == instance[s] = t.key[1]
       IN \/ ~Accepts(t) /\ UNCHANGED <<runners, signals>>
          \/ /\ Accepts(t) /\ UNCHANGED kind
             /\ instance' = [instance EXCEPT ![s] = t.key[1]]
             /\ \/ /\ kind[s] = "threshold"
                   /\ Threshold_Evaluate(s, t, IF same THEN signalled[s] ELSE {})
                   /\ UNCHANGED fired
                \/ /\ kind[s] = "reversion"
                   /\ Reversion_Evaluate(s, t, IF same THEN fired[s] ELSE 0)
                   /\ UNCHANGED signalled
    /\ UNCHANGED <<current, quotes, proposals, executions, checker, orders>>

-----------------------------------------------------------------------------
(* PortfolioService._process_signal: the outcome of the target is the one  *)
(* the probabilities favour; price and position are those of the outcome   *)
(* the signal names (both may differ).  A zero size or no quote: nothing.  *)
Size(s, k) ==
    LET mine == IF k \in PositionsOf(s) THEN position[k].size ELSE 0
    IN IF mine < Exposure THEN Exposure - mine ELSE 0

ProcessSignal ==
    /\ signals # <<>> /\ signals' = Tail(signals)
    /\ LET g == Head(signals)
           target == <<g.key[1], IF g.upwards THEN "UP" ELSE "DOWN">>
           n == Size(g.strategy, g.key)
       IN \/ (quotes[g.key] = 0 \/ n = 0) /\ UNCHANGED proposals
          \/ /\ quotes[g.key] > 0 /\ n > 0
             /\ proposals' = Append(proposals,
                   [side |-> "BUY", strategy |-> g.strategy, key |-> target,
                    size |-> n, target |-> quotes[g.key]])
    /\ UNCHANGED <<current, quotes, inbox, runners, executions, checker, orders>>

-----------------------------------------------------------------------------
(* RiskChecker._build_context and the policies.  Positions and tokens are  *)
(* counted from executed trades alone, one each; trades from executed and  *)
(* approved ones.                                                          *)
Owned(k)     == \E x \in executed : x[2] = k
Exposed(k)   == Cardinality({x \in executed : x[2] = k})

CheckTokenOwnership(p)  == p.side = "SELL" => Owned(p.key)
CheckMaxTrades_Executed(p) == p.side = "BUY" => <<p.strategy, p.key>> \notin executed
CheckMaxTrades(p)       == p.side = "BUY" => <<p.strategy, p.key>> \notin executed \cup approved
CheckPositionLimits(p)  ==
    p.side = "BUY" => /\ Exposed(p.key) + p.size <= MaxPosition
                      /\ Cardinality(executed) + p.size <= MaxGlobal
CheckRateLimits(p)      == count < RateLimit

(* Validity, freshness and price band look at the clock and the quote: any *)
(* proposal may fail them, and is denied; the oversized one must.          *)
Allows(p) ==
    /\ p.size <= MaxOrderSize
    /\ CheckTokenOwnership(p) /\ CheckMaxTrades(p)
    /\ CheckPositionLimits(p) /\ CheckRateLimits(p)

(* RiskChecker.check: an allowed BUY is remembered at once, before it is   *)
(* executed.                                                               *)
Approve(p) ==
    /\ orders' = Append(orders, [intent |-> p, state |-> "sent"])
    /\ count' = count + 1
    /\ IF p.side = "BUY"
         THEN /\ approved' = approved \cup {<<p.strategy, p.key>>}
              /\ matching' = matching \cup {Len(orders) + 1}
         ELSE UNCHANGED <<approved, matching>>
    /\ UNCHANGED executed

Check ==
    /\ proposals # <<>> /\ proposals' = Tail(proposals)
    /\ LET p == Head(proposals) IN
         \/ Allows(p) /\ Approve(p)
         \/ UNCHANGED <<orders, checker>>
    /\ UNCHANGED <<current, quotes, inbox, runners, signals, executions>>

(* track_orders: a reported BUY moves from approved to executed, for the   *)
(* strategy its correlation id gives, or for an unknown one.               *)
TrackOrder ==
    /\ executions # <<>> /\ executions' = Tail(executions)
    /\ LET i == Head(executions)
           p == orders[i].intent
           key == IF i \in matching THEN <<p.strategy, p.key>> ELSE <<"unknown", p.key>>
       IN \/ p.side = "SELL" /\ UNCHANGED checker
          \/ /\ p.side = "BUY"
             /\ executed' = executed \cup {key}
             /\ approved' = approved \ {key}
             /\ matching' = matching \ {i}
             /\ UNCHANGED count
    /\ UNCHANGED <<current, quotes, inbox, runners, signals, proposals, orders>>
=============================================================================
