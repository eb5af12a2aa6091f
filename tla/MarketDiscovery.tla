-------------------------- MODULE MarketDiscovery --------------------------
(***************************************************************************)
(* Finding the market to follow (market_discovery/service.py, patterns.py, *)
(* state.py): one market per time window, one lookup at a time, and time   *)
(* and the venue move on between two lookups.                              *)
(*                                                                         *)
(* A slug is the number of its window.  The venue lists the markets in the *)
(* order of their windows, each before its window opens; an open market    *)
(* may stop trading at any time and does not resume.                       *)
(***************************************************************************)
EXTENDS Integers, Sequences, FiniteSets

CONSTANTS
    Last,       \* the last window the model reaches
    Interval,   \* ticks of a window
    Ahead,      \* max_windows_ahead
    Behind,     \* max_windows_behind
    Priority,   \* windows ahead where a started market ends the search (10)
    Near,       \* ticks of two hours
    Dated,      \* do the venue's records carry startDate and endDate?
    MaxErrors   \* bound on lookups that fail

ASSUME DiscoveryAssumption ==
    /\ {Last, Interval} \subseteq Nat \ {0} /\ Dated \in BOOLEAN
    /\ {Ahead, Behind, Priority, Near, MaxErrors} \subseteq Nat

VARIABLES
    now,     \* the time
    market,  \* the venue's market of each window
    cached,  \* the one entry of _cache
    search,  \* the search under way
    errors   \* lookups that failed so far

discovery == <<now, market, cached, search, errors>>

Windows   == 0..Last
None      == -4 - Behind                  \* no market, nor ever looked up
CurrentAt(t) == t \div Interval
EndOf(w)  == (w + 1) * Interval

(* at is the lookup under way, 0 when there is none, from the time the     *)
(* search began.  For the properties, listed is the last window whose      *)
(* market was listed then, erred tells that a lookup failed.               *)
NoSearch == [at |-> 0, from |-> 0, started |-> None, soon |-> None,
             listed |-> None, erred |-> FALSE, result |-> None]

DiscoveryInit ==
    /\ now = 0 /\ errors = 0 /\ cached = None
    /\ \E n \in Windows :
          market = [w \in Windows |-> IF w <= n THEN "open" ELSE "unlisted"]
    /\ search = NoSearch

-----------------------------------------------------------------------------
(* The venue and the clock *)

Tick ==
    /\ now < EndOf(Last) - 1
    /\ market[CurrentAt(now + 1)] # "unlisted"
    /\ now' = now + 1
    /\ UNCHANGED <<market, cached, search, errors>>

LastListed == CHOOSE w \in Windows :
    market[w] # "unlisted" /\ (w + 1 \in Windows => market[w + 1] = "unlisted")

List(w) ==
    /\ market[w] = "unlisted" /\ market[w - 1] # "unlisted"
    /\ market' = [market EXCEPT ![w] = "open"]
    /\ UNCHANGED <<now, cached, search, errors>>

(* It stops accepting orders, and is closed if its window is over.         *)
StopTrading(w) ==
    /\ market[w] = "open"
    /\ market' = [market EXCEPT ![w] = IF now < EndOf(w) THEN "halted" ELSE "closed"]
    /\ UNCHANGED <<now, cached, search, errors>>

World == Tick \/ \E w \in Windows : List(w) \/ StopTrading(w)

-----------------------------------------------------------------------------
(* A lookup *)

(* is_expired believes endDate, even of a market that accepts orders.      *)
IsExpired(w) == Dated /\ now > EndOf(w)

(* Its window has begun and is not over; startDate is when it was listed.  *)
Opened(w) == (Dated \/ w * Interval <= now) /\ now < EndOf(w)

(* Whether an open market is also marked closed makes no difference.       *)
StateOf(w) ==
    IF w \notin Windows \/ market[w] = "unlisted" THEN "not_found"
    ELSE IF market[w] = "closed" THEN "resolved"
    ELSE IF IsExpired(w) \/ (market[w] = "halted" /\ ~Opened(w)) THEN "expired"
    ELSE IF market[w] = "halted" THEN "no_orderbook"
    ELSE "active"

Active == {w \in Windows : StateOf(w) = "active"}

(* The windows a search looks up, in order, for the time t it began.  The  *)
(* last group is indexed by end time but looked up by start time; those    *)
(* that are over at t are passed over, and they are its last ones.         *)
Previous(t) == <<CurrentAt(t) - 1>>
Recent(t)   == [i \in 1..3 |-> CurrentAt(t) - i]
Future(t)   == [i \in 1..Ahead |-> CurrentAt(t) + i]
Older(t)    == [i \in 1..Cardinality({j \in 1..Behind : EndOf(CurrentAt(t) + 1 - j) >= t})
                    |-> CurrentAt(t) + 1 - i]

(* Mutant: the search begins with the current window.                      *)
Plan_CurrentOnly(t) == <<CurrentAt(t)>> \o Recent(t + Interval) \o Future(t) \o Older(t)

Plan(t) == Previous(t) \o <<CurrentAt(t)>> \o Recent(t) \o Future(t) \o Older(t)

IsFuture(t, i) == i > 5 /\ i <= 5 + Ahead

(* With dates a market counts as started from its listing on, unless its   *)
(* window is far; without, never: its window was ahead when t was read.    *)
CountsAsStarted(t, w) == Dated /\ w * Interval - t <= Near

-----------------------------------------------------------------------------
(* get_current_market *)

Hit == cached \in {CurrentAt(now), CurrentAt(now) - 1}

BeginSearch ==
    /\ cached' = IF Hit THEN cached ELSE None
    /\ search' = IF Hit THEN [NoSearch EXCEPT !.from = now, !.result = cached]
                 ELSE [NoSearch EXCEPT !.from = now, !.at = 1, !.listed = LastListed]
    /\ UNCHANGED <<now, market, errors>>

(* The search ends with w, which is cached if it is a market.              *)
End(s, w) ==
    /\ cached' = IF w = None THEN cached ELSE w
    /\ search' = [s EXCEPT !.at = 0, !.result = w]

(* It goes on to the next lookup, having met what the new values record;   *)
(* what was remembered of the future windows is returned before the older. *)
GoOn(s) ==
    LET plan == Plan(s.from) IN
    IF s.at = 5 + Ahead /\ s.started # None THEN End(s, s.started)
    ELSE IF s.at = 5 + Ahead /\ s.soon # None THEN End(s, s.soon)
    ELSE IF s.at = Len(plan) THEN End(s, None)
    ELSE search' = [s EXCEPT !.at = @ + 1] /\ cached' = cached

(* Mutant: the last market that has not started wins.                      *)
Remember_LastWins(w) ==
    IF CountsAsStarted(search.from, w) THEN
         IF search.at - 5 <= Priority THEN End(search, w)
         ELSE GoOn([search EXCEPT !.started = IF @ = None THEN w ELSE @])
    ELSE GoOn([search EXCEPT !.soon = w])

(* An active market of a future window.                                    *)
Remember(w) ==
    IF CountsAsStarted(search.from, w) THEN
         IF search.at - 5 <= Priority THEN End(search, w)
         ELSE GoOn([search EXCEPT !.started = IF @ = None THEN w ELSE @])
    ELSE GoOn([search EXCEPT !.soon = IF @ = None THEN w ELSE @])

Found(w) == StateOf(w) = "active"

Lookup ==
    /\ search.at > 0
    /\ LET w == Plan(search.from)[search.at] IN
       IF ~Found(w) THEN GoOn(search)
       ELSE IF IsFuture(search.from, search.at) THEN Remember(w)
       ELSE End(search, w)
    /\ UNCHANGED <<now, market, errors>>

(* An error is passed over, but for a fatal one of the current window.     *)
LookupFails(fatal) ==
    /\ search.at > 0 /\ errors < MaxErrors
    /\ errors' = errors + 1
    /\ LET s == [search EXCEPT !.erred = TRUE] IN
       IF fatal /\ s.at = 2 THEN
            End(s, None)
       ELSE GoOn(s)
    /\ UNCHANGED <<now, market>>

(* The entry is older than _cache_ttl.                                     *)
CacheExpires ==
    /\ cached # None /\ cached' = None
    /\ UNCHANGED <<now, market, search, errors>>
=============================================================================
