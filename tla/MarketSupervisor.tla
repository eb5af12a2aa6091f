-------------------------- MODULE MarketSupervisor -------------------------
(***************************************************************************)
(* Following the market (supervisor/market.py): start finds a market, the  *)
(* monitor looks for another one for ever, and a transition replaces the   *)
(* observer (observer.py, adapters/polymarket.py) that publishes the       *)
(* market's data.  No strategy is attached: that is StrategyRunner's part. *)
(***************************************************************************)
EXTENDS MarketDiscovery

CONSTANTS
    MaxIlls   \* bound on factories that raise and observers that die

ASSUME MarketSupervisorAssumption == MaxIlls \in Nat

VARIABLES
    running,   \* _running
    phase,     \* of the task that runs start, then the monitor
    current,   \* current_market
    feeds,     \* markets an observer publishes data of
    announced, \* new_market of the last MarketChangeEvent
    misled,    \* did current's search err, or race with a listing?
    lame,      \* did current's factory raise, or its observer die?
    ills       \* factories that raised and observers that died so far

supervisor == <<running, phase, current, feeds, announced, misled, lame, ills>>
vars == <<discovery, supervisor>>

Init ==
    /\ DiscoveryInit
    /\ running = FALSE /\ phase = "off" /\ current = None /\ feeds = {}
    /\ announced = None /\ misled = FALSE
    /\ lame = FALSE /\ ills = 0

-----------------------------------------------------------------------------
Start ==
    /\ phase = "off" /\ ~running
    /\ running' = TRUE /\ phase' = "starting"
    /\ BeginSearch
    /\ UNCHANGED <<current, feeds, announced, misled, lame, ills>>

(* start without a market raises and leaves _running set.                  *)
StartFails ==
    /\ phase = "starting" /\ search.at = 0 /\ search.result = None
    /\ phase' = "raised"
    /\ search' = NoSearch
    /\ UNCHANGED <<now, market, cached, errors, running, current, feeds, announced, misled, lame, ills>>

(* The monitor: sleep, search, compare.                                    *)
Monitor ==
    /\ phase = "sleeping" /\ running
    /\ phase' = "searching"
    /\ BeginSearch
    /\ UNCHANGED <<running, current, feeds, announced, misled, lame, ills>>

MonitorEnds ==
    /\ phase = "sleeping" /\ ~running
    /\ phase' = "ended"
    /\ UNCHANGED <<discovery, running, current, feeds, announced, misled, lame, ills>>

(* Mutant: the monitor only ever moves on.                                 *)
IsNew_Later(w) == w > current

IsNew(w) == w # None /\ w # current

NothingNew ==
    /\ phase = "searching" /\ search.at = 0 /\ ~IsNew(search.result)
    /\ phase' = "sleeping"
    /\ search' = NoSearch
    /\ UNCHANGED <<now, market, cached, errors, running, current, feeds, announced, misled, lame, ills>>

(* What _stop_components leaves: the observer is stopped and its task      *)
(* cancelled and awaited.                                                  *)
StopComponents == {}

(* _transition_to_market: first the old components are stopped.            *)
Leave ==
    /\ phase \in {"starting", "searching"} /\ search.at = 0 /\ IsNew(search.result)
    /\ phase' = IF phase = "starting" THEN "first" ELSE "moving"
    /\ feeds' = StopComponents
    /\ UNCHANGED <<discovery, running, current, announced, misled, lame, ills>>

(* Then current_market is set, the adapter and the observer are made; a    *)
(* factory that raises leaves current_market as it is.                     *)
Enter(ok) ==
    /\ phase \in {"first", "moving"}
    /\ current' = search.result /\ misled' = (search.erred \/ LastListed > search.listed)
    /\ lame' = ~ok
    /\ IF ok THEN
            /\ feeds' = feeds \cup {search.result}
            /\ phase' = IF phase = "first" THEN "announcing first" ELSE "announcing"
            /\ UNCHANGED ills
       ELSE /\ ills < MaxIlls
            /\ ills' = ills + 1
            /\ phase' = IF phase = "first" THEN "raised" ELSE "sleeping"
            /\ UNCHANGED feeds
    /\ search' = NoSearch
    /\ UNCHANGED <<now, market, cached, errors, running, announced>>

Announced == current

(* The events of the components' starts are published before the change.  *)
Announce ==
    /\ phase \in {"announcing first", "announcing"}
    /\ announced' = Announced
    /\ phase' = "sleeping"
    /\ UNCHANGED <<discovery, running, current, feeds, misled, lame, ills>>

(* ticks raises, for want of the market's token ids; nobody restarts it.   *)
ObserverDies ==
    /\ feeds # {} /\ ills < MaxIlls
    /\ feeds' = {} /\ lame' = TRUE
    /\ ills' = ills + 1
    /\ UNCHANGED <<discovery, running, phase, current, announced, misled>>

Stop ==
    /\ running
    /\ running' = FALSE
    /\ UNCHANGED <<discovery, phase, current, feeds, announced, misled, lame, ills>>

(* The task of start and of the monitor.                                   *)
Task ==
    \/ StartFails \/ Monitor \/ MonitorEnds \/ NothingNew
    \/ Leave \/ Enter(TRUE) \/ Announce

LookupStep == Lookup /\ UNCHANGED supervisor

Venue == (World \/ \E fatal \in BOOLEAN : LookupFails(fatal)) /\ UNCHANGED supervisor

Expire == CacheExpires /\ UNCHANGED supervisor

Next == Start \/ Task \/ LookupStep \/ Venue \/ Expire \/ Enter(FALSE) \/ ObserverDies \/ Stop

Spec == Init /\ [][Next]_vars

(* The loops go on, each lookup returns, and cache entries grow old.       *)
FairSpec == Spec /\ WF_vars(Task) /\ WF_vars(LookupStep) /\ WF_vars(Expire)

-----------------------------------------------------------------------------
(* Properties *)

Markets == Windows \cup {None}

(* Every variable keeps its type; one observer at most publishes data.     *)
TypeOK ==
    /\ now \in 0..EndOf(Last) /\ errors \in 0..MaxErrors /\ ills \in 0..MaxIlls
    /\ market \in [Windows -> {"unlisted", "open", "halted", "closed"}]
    /\ {cached, current, search.result, search.started, search.soon, search.listed,
        announced} \subseteq Markets
    /\ search.at \in 0..5 + Ahead + Behind /\ {running, misled, lame, search.erred} \subseteq BOOLEAN
    /\ phase \in {"off", "starting", "raised", "sleeping", "searching", "ended", "first",
                  "moving", "announcing first", "announcing"}
    /\ feeds \subseteq Windows /\ Cardinality(feeds) <= 1

(* The order in which a search at window c prefers the markets.            *)
Rank(c, w) == IF w > c THEN 3 + w - c ELSE IF w = c THEN 1 ELSE IF w = c - 1 THEN 0 ELSE c - w

InReach(c) == {w \in Windows : w >= c - 3 /\ w <= c + Ahead}

(* A search without errors returns no market only if none was active all   *)
(* along, and none that is less preferred than one that was: above all, no *)
(* future market while the current one trades (get_current_market).        *)
NothingSkipped ==
    phase \in {"starting", "searching"} /\ search.at = 0 /\ ~search.erred =>
        LET c == CurrentAt(search.from) IN
        \A w \in {v \in Active \cap InReach(c) : v <= search.listed} :
            search.result # None /\ Rank(c, search.result) <= Rank(c, w)

(* The supervisor leaves a market that trades for an earlier one only if a *)
(* lookup failed, or a market was listed while the search that chose the   *)
(* former went on (get_current_market, _monitor_market).                   *)
BackOnlyIfMisled ==
    [][current' < current /\ current \in Active => misled \/ search.erred]_vars

(* A market whose data is published when a transition is over has been     *)
(* announced, failed transitions before it or not (_transition_to_market). *)
FeedIsAnnounced ==
    phase \in {"sleeping", "searching", "ended"} => feeds \subseteq {announced}

Best(w) ==
    /\ w \in Active \cap InReach(CurrentAt(now))
    /\ \A v \in Active \cap InReach(CurrentAt(now)) : Rank(CurrentAt(now), w) <= Rank(CurrentAt(now), v)

(* A supervisor that runs ends up on the preferred market if that stays    *)
(* the same, whatever failed before, and publishes its data, unless the    *)
(* factory raised for that very market, or its observer died               *)
(* (_monitor_market, _transition_to_market, _get_from_cache).              *)
FollowsTheMarket ==
    \A w \in Windows :
        <>[](running /\ phase \notin {"off", "raised"} /\ Best(w))
            => <>[](current = w /\ (lame \/ feeds = {w}))

(* What the monitor says: it goes on "despite errors" (market.py:581).  It *)
(* does, but never enters again a market whose factory raised.             *)
FeedsTheMarket ==
    \A w \in Windows :
        <>[](running /\ phase \notin {"off", "raised"} /\ Best(w)) => <>(feeds = {w})

(* What the registry says of release: it "stops and removes" the           *)
(* supervisor; its observer ends too (supervisor_registry.py release).     *)
StopEndsTheFeed == \A w \in Windows : (w \in feeds /\ ~running) ~> feeds = {}

(* What get_market_state says of the grace period: a market that accepts   *)
(* orders after its window is treated as active.                           *)
GraceHolds == \A w \in Windows : market[w] = "open" => StateOf(w) = "active"
=============================================================================
