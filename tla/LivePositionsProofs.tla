------------------------ MODULE LivePositionsProofs -------------------------
(***************************************************************************)
(* What TLAPS proves of LivePositions, for all keys, orders, prices, ticks *)
(* and errors, with the periodic sync and without it.                      *)
(***************************************************************************)
EXTENDS LivePositions, SequenceTheorems, TLAPS

(***************************************************************************)
(* The inductive invariant                                                 *)
(***************************************************************************)

Order == [key : Keys, side : {"BUY", "SELL"}, ours : BOOLEAN,
          status : {"OPEN", "FILLED", "CANCELLED"}]

Of(topic) == {i \in Item : i.topic = topic}

(* Types: a queue, and what was got from it, have items of its topic. *)
Types ==
    /\ TypeOK
    /\ venue \in Seq(Order) /\ Len(venue) <= MaxOrders
    /\ DOMAIN sync = Syncers
    /\ \A t \in Topics : queue[t] \in Seq(Of(t)) /\ got[t] \in Seq(Of(t)) /\ Len(got[t]) <= 1

(* Where the loop is and what it holds: while a round is handled, no order *)
(* has been taken from the queue that the round does not handle, for its   *)
(* get() is pending only if the round is about a tick, and that never      *)
(* suspends.                                                               *)
LoopOK ==
    /\ \A t \in pending : got[t] = <<>>
    /\ phase # "running" => pending = {} /\ \A t \in Topics : got[t] = <<>>
    /\ step = "wait" => hand = <<>>
    /\ step # "wait" => phase = "running" /\ got["ORDERS"] = <<>>
    /\ step = "lookup" => /\ hand # <<>> /\ Head(hand).topic = "ORDERS"
                          /\ Head(hand).id \in handled
    /\ (\E n \in 1..Len(hand) : hand[n].topic = "ORDERS") => "ORDERS" \notin pending
    /\ sync["run"] # <<>> => phase = "syncing"

IInv == Types /\ LoopOK /\ NoOrderIsLost

-----------------------------------------------------------------------------
(* Sequences *)

LEMMA HeadAndTail ==
    ASSUME NEW S, NEW q \in Seq(S), q # <<>>
    PROVE  /\ Len(q) \in Nat \ {0} /\ Head(q) = q[1] /\ q[1] \in S
           /\ Tail(q) \in Seq(S) /\ Len(Tail(q)) = Len(q) - 1
           /\ \A n \in 1..Len(Tail(q)) : n + 1 \in 1..Len(q) /\ Tail(q)[n] = q[n + 1]
  OBVIOUS

LEMMA Appended ==
    ASSUME NEW S, NEW q \in Seq(S), NEW x \in S
    PROVE  /\ Append(q, x) \in Seq(S) /\ Len(Append(q, x)) = Len(q) + 1
           /\ \A n \in 1..Len(q) : Append(q, x)[n] = q[n]
           /\ Append(q, x)[Len(q) + 1] = x
  OBVIOUS

(* What a round may wake up with. *)
LEMMA WokenLemma ==
    ASSUME Types, NEW h \in Woken
    PROVE  /\ h \in Seq(Item) /\ Len(h) <= 2 /\ h # <<>>
           /\ got["ORDERS"] # <<>> => \E n \in 1..Len(h) : h[n] = got["ORDERS"][1]
           /\ (\E n \in 1..Len(h) : h[n].topic = "ORDERS") => got["ORDERS"] # <<>>
           /\ got["ORDERS"] # <<>> => got["ORDERS"][1].topic = "ORDERS"
<1> DEFINE a == got["ORDERS"]
           b == got["MARKET_DATA"]
<1>1. /\ a \in Seq(Of("ORDERS")) /\ b \in Seq(Of("MARKET_DATA")) /\ Len(a) <= 1 /\ Len(b) <= 1
      /\ a \in Seq(Item) /\ b \in Seq(Item)
  BY DEF Types, TypeOK, Topics
<1>2. /\ \A n \in 1..Len(a) : a[n].topic = "ORDERS"
      /\ \A n \in 1..Len(b) : b[n].topic = "MARKET_DATA"
  BY <1>1 DEF Of
<1>3. h \in {a \o b, b \o a} /\ h # <<>>
  BY DEF Woken
<1> HIDE DEF a, b
<1>4. /\ h \in Seq(Item) /\ Len(h) <= 2
      /\ \A n \in 1..Len(h) : \/ \E m \in 1..Len(a) : h[n] = a[m]
                              \/ \E m \in 1..Len(b) : h[n] = b[m]
      /\ a # <<>> => \E n \in 1..Len(h) : h[n] = a[1]
  <2>1. CASE h = a \o b
    <3>1. a \o b \in Seq(Item) /\ Len(a \o b) = Len(a) + Len(b)
      BY <1>1
    <3>2. \A n \in 1..Len(a \o b) : (a \o b)[n] = IF n <= Len(a) THEN a[n] ELSE b[n - Len(a)]
      BY <1>1
    <3> QED
      BY <1>1, <2>1, <3>1, <3>2
  <2>2. CASE h = b \o a
    <3>1. b \o a \in Seq(Item) /\ Len(b \o a) = Len(b) + Len(a)
      BY <1>1
    <3>2. \A n \in 1..Len(b \o a) : (b \o a)[n] = IF n <= Len(b) THEN b[n] ELSE a[n - Len(b)]
      BY <1>1
    <3> QED
      BY <1>1, <2>2, <3>1, <3>2
  <2> QED
    BY <1>3, <2>1, <2>2
<1>5. (\E n \in 1..Len(h) : h[n].topic = "ORDERS") => a # <<>>
  BY <1>1, <1>2, <1>4
<1>6. a # <<>> => a[1].topic = "ORDERS"
  BY <1>1, <1>2
<1> QED
  BY <1>3, <1>4, <1>5, <1>6 DEF a

-----------------------------------------------------------------------------
(* Types *)

LEMMA EmitTypes ==
    ASSUME Types, NEW t \in Topics, NEW item \in Of(t), Emit(t, item)
    PROVE  /\ queue' \in [Topics -> Seq(Item)]
           /\ \A x \in Topics : queue'[x] \in Seq(Of(x))
<1>1. queue \in [Topics -> Seq(Item)] /\ \A x \in Topics : queue[x] \in Seq(Of(x))
  BY DEF Types, TypeOK
<1>2. item \in Item
  BY DEF Of
<1>3. CASE phase = "new"
  BY <1>1, <1>3 DEF Emit
<1>4. CASE queue' = [queue EXCEPT ![t] = Append(@, item)]
  <2>1. Append(queue[t], item) \in Seq(Of(t)) /\ Append(queue[t], item) \in Seq(Item)
    BY <1>1, <1>2
  <2> QED
    BY <1>1, <1>4, <2>1
<1> QED
  BY <1>3, <1>4 DEF Emit

LEMMA SyncedTypes ==
    ASSUME Types, NEW s \in Syncers, Synced(s)
    PROVE  /\ DOMAIN sync' = Syncers
           /\ \A x \in Syncers : Len(sync'[x]) <= 1 /\ sync'[x] \in Seq([Keys -> Verdicts])
           /\ phase' \in {"new", "syncing", "running", "stopped"} /\ pending' \subseteq Topics
<1>1. /\ \A x \in Syncers : Len(sync[x]) <= 1 /\ sync[x] \in Seq([Keys -> Verdicts])
      /\ phase \in {"new", "syncing", "running", "stopped"} /\ pending \subseteq Topics
  BY DEF Types, TypeOK
<1>2. Len(<< >>) = 0 /\ << >> \in Seq([Keys -> Verdicts])
  OBVIOUS
<1> QED
  BY <1>1, <1>2 DEF Synced

LEMMA TypesInit == Init => Types
<1> SUFFICES ASSUME Init PROVE Types
  OBVIOUS
<1>1. Len(<< >>) = 0 /\ << >> \in Seq(Item) /\ << >> \in Seq(Order) /\ << >> \in Seq([Keys -> Verdicts])
  OBVIOUS
<1>2. DOMAIN positions = {}
  BY DEF Init
<1>3. /\ queue \in [Topics -> Seq(Item)] /\ got \in [Topics -> Seq(Item)] /\ hand \in Seq(Item)
      /\ Len(hand) <= 2
  BY <1>1 DEF Init
<1>4. \A t \in Topics : queue[t] \in Seq(Of(t)) /\ got[t] \in Seq(Of(t)) /\ Len(got[t]) <= 1
  <2> SUFFICES ASSUME NEW t \in Topics
               PROVE  queue[t] \in Seq(Of(t)) /\ got[t] \in Seq(Of(t)) /\ Len(got[t]) <= 1
    OBVIOUS
  <2>1. << >> \in Seq(Of(t))
    OBVIOUS
  <2> QED
    BY <1>1, <2>1 DEF Init
<1>5. /\ DOMAIN sync = Syncers
      /\ \A s \in Syncers : Len(sync[s]) <= 1 /\ sync[s] \in Seq([Keys -> Verdicts])
  BY <1>1 DEF Init
<1>6. venue \in Seq(Order) /\ Len(venue) <= MaxOrders
  BY <1>1, LiveAssumption DEF Init
<1> QED
  BY <1>2, <1>3, <1>4, <1>5, <1>6 DEF Init, Types, TypeOK

LEMMA TypesStep ==
    ASSUME Types, LoopOK, [Next]_vars
    PROVE  Types'
<1>0. MaxOrders \in Nat /\ HalfPrice \in Prices
  BY LiveAssumption
<1>1. ASSUME NEW k \in Keys, NEW side \in {"BUY", "SELL"}, NEW ours \in BOOLEAN, Place(k, side, ours)
      PROVE  Types'
  <2> DEFINE o == [key |-> k, side |-> side, ours |-> ours, status |-> "OPEN"]
  <2>1. o \in Order
    BY DEF Order
  <2>2. venue' = Append(venue, o) /\ Len(venue) < MaxOrders
    BY <1>1 DEF Place
  <2> HIDE DEF o
  <2>3. venue' \in Seq(Order) /\ Len(venue') <= MaxOrders
    BY <1>0, <2>1, <2>2 DEF Types
  <2> QED
    BY <1>1, <2>3 DEF Place, loopVars, bookVars, Types, TypeOK
<1>2. ASSUME NEW o \in DOMAIN venue, NEW price \in Prices, Execute(o, price)
      PROVE  Types'
  <2>1. venue \in Seq(Order) /\ venue[o] \in Order /\ o \in OrderIds
    BY <1>0 DEF Types, OrderIds
  <2>2. [venue[o] EXCEPT !.status = "FILLED"] \in Order
    BY <2>1 DEF Order
  <2>3. venue' \in Seq(Order) /\ Len(venue') <= MaxOrders
    BY <1>2, <2>1, <2>2 DEF Execute, Types
  <2> DEFINE item == [topic |-> "ORDERS", id |-> o, key |-> venue[o].key,
                      side |-> venue[o].side, price |-> price]
  <2>4. item \in Of("ORDERS") /\ "ORDERS" \in Topics
    BY <2>1 DEF Of, Item, Order, Topics
  <2>5. queue' \in [Topics -> Seq(Item)] /\ \A x \in Topics : queue'[x] \in Seq(Of(x))
    <3>1. CASE venue[o].ours
      <4>1. Emit("ORDERS", item)
        BY <1>2, <3>1 DEF Execute
      <4> HIDE DEF item
      <4> QED
        BY <2>4, <4>1, EmitTypes
    <3>2. CASE ~venue[o].ours
      BY <1>2, <3>2 DEF Execute, Types, TypeOK
    <3> QED
      BY <3>1, <3>2
  <2>6. missed' \subseteq OrderIds
    BY <1>2, <2>1 DEF Execute, Types, TypeOK
  <2> QED
    BY <1>2, <2>3, <2>5, <2>6 DEF Execute, bookVars, Types, TypeOK
<1>3. ASSUME NEW o \in DOMAIN venue, Cancel(o)
      PROVE  Types'
  <2>0. venue \in Seq(Order) /\ venue[o] \in Order
    BY DEF Types
  <2>1. [venue[o] EXCEPT !.status = "CANCELLED"] \in Order
    BY <2>0 DEF Order
  <2>2. venue' \in Seq(Order) /\ Len(venue') <= MaxOrders
    BY <1>3, <2>1 DEF Cancel, Types
  <2> QED
    BY <1>3, <2>2 DEF Cancel, loopVars, bookVars, Types, TypeOK
<1>4. ASSUME NEW k \in Keys, NEW price \in Prices, Tick(k, price)
      PROVE  Types'
  <2> DEFINE item == [topic |-> "MARKET_DATA", key |-> k, price |-> price]
  <2>1. item \in Of("MARKET_DATA") /\ "MARKET_DATA" \in Topics
    BY DEF Of, Item, Topics
  <2>2. Emit("MARKET_DATA", item)
    BY <1>4 DEF Tick
  <2> HIDE DEF item
  <2>3. queue' \in [Topics -> Seq(Item)] /\ \A x \in Topics : queue'[x] \in Seq(Of(x))
    BY <2>1, <2>2, EmitTypes
  <2> QED
    BY <1>4, <2>3 DEF Tick, bookVars, Types, TypeOK
<1>5. CASE Run \/ Stop
  BY <1>5 DEF Run, Stop, bookVars, worldVars, Types, TypeOK
<1>6. ASSUME NEW t \in Topics, Get(t)
      PROVE  Types'
  <2>1. queue[t] \in Seq(Of(t)) /\ queue[t] \in Seq(Item) /\ queue[t] # <<>>
    BY <1>6 DEF Get, Types, TypeOK
  <2>2. Head(queue[t]) \in Of(t) /\ Head(queue[t]) \in Item
        /\ Tail(queue[t]) \in Seq(Of(t)) /\ Tail(queue[t]) \in Seq(Item)
    BY <2>1, HeadAndTail
  <2> DEFINE one == <<Head(queue[t])>>
  <2>3. one \in Seq(Of(t)) /\ one \in Seq(Item) /\ Len(one) <= 1
    BY <2>2
  <2>4. got' = [got EXCEPT ![t] = one] /\ queue' = [queue EXCEPT ![t] = Tail(@)]
    BY <1>6 DEF Get
  <2> HIDE DEF one
  <2>5. /\ queue' \in [Topics -> Seq(Item)] /\ got' \in [Topics -> Seq(Item)]
        /\ \A x \in Topics : queue'[x] \in Seq(Of(x)) /\ got'[x] \in Seq(Of(x)) /\ Len(got'[x]) <= 1
    BY <2>2, <2>3, <2>4 DEF Types, TypeOK
  <2> QED
    BY <1>6, <2>5 DEF Get, bookVars, worldVars, Types, TypeOK
<1>7. ASSUME Wake \/ EndRound
      PROVE  Types'
  <2>1. got' = [t \in Topics |-> <<>>] /\ queue' = queue
    BY <1>7 DEF Wake, EndRound
  <2>2. /\ got' \in [Topics -> Seq(Item)]
        /\ \A x \in Topics : got'[x] \in Seq(Of(x)) /\ Len(got'[x]) <= 1
    BY <2>1
  <2>3. hand' \in Seq(Item) /\ Len(hand') <= 2 /\ step' \in {"wait", "ready", "lookup"}
    BY <1>7, WokenLemma DEF Wake, EndRound, Types, TypeOK
  <2>4. /\ phase' \in {"new", "syncing", "running", "stopped"} /\ pending' \subseteq Topics
        /\ DOMAIN sync' = Syncers
        /\ \A s \in Syncers : Len(sync'[s]) <= 1 /\ sync'[s] \in Seq([Keys -> Verdicts])
    <3>1. Len(<< >>) = 0 /\ << >> \in Seq([Keys -> Verdicts])
      OBVIOUS
    <3>2. CASE sync' = sync
      BY <1>7, <3>2 DEF Wake, EndRound, Getters, Types, TypeOK
    <3>3. CASE sync' = [sync EXCEPT !["periodic"] = <<>>]
      BY <1>7, <3>1, <3>3 DEF Wake, EndRound, Getters, Types, TypeOK
    <3> QED
      BY <1>7, <3>2, <3>3 DEF Wake, EndRound
  <2> QED
    BY <1>7, <2>1, <2>2, <2>3, <2>4 DEF Wake, EndRound, bookVars, worldVars, Types, TypeOK
<1>8. ASSUME HandleOrder \/ CacheToken \/ CheckTargetPrices
      PROVE  Types'
  <2>1. hand \in Seq(Item) /\ hand # <<>> /\ Len(hand) <= 2
    BY <1>8 DEF HandleOrder, CacheToken, CheckTargetPrices, LoopOK, Types, TypeOK
  <2>2. Head(hand) \in Item /\ Tail(hand) \in Seq(Item) /\ Len(Tail(hand)) <= 2
    BY <2>1, HeadAndTail
  <2>3. Head(hand).key \in Keys /\ Head(hand).price \in Prices
        /\ (Head(hand).topic = "ORDERS" => Head(hand).id \in OrderIds)
    BY <2>2 DEF Item
  <2>4. hand' \in Seq(Item) /\ Len(hand') <= 2 /\ step' \in {"wait", "ready", "lookup"}
    BY <1>8, <2>1, <2>2 DEF HandleOrder, CacheToken, CheckTargetPrices, Types, TypeOK
  <2>5. /\ DOMAIN positions' \subseteq Keys /\ \A k \in DOMAIN positions' : positions'[k] \in Prices
        /\ handled' \subseteq OrderIds /\ tokens' \subseteq Keys /\ proposed' \in [Keys -> SUBSET Prices]
    <3>1. CASE HandleOrder
      BY <2>3, <3>1 DEF HandleOrder, With, Except, Types, TypeOK
    <3>2. CASE CacheToken
      BY <2>3, <3>2 DEF CacheToken, Types, TypeOK
    <3>3. CASE CheckTargetPrices
      BY <2>3, <3>3 DEF CheckTargetPrices, Types, TypeOK
    <3> QED
      BY <1>8, <3>1, <3>2, <3>3
  <2> QED
    BY <1>8, <2>4, <2>5 DEF HandleOrder, CacheToken, CheckTargetPrices, worldVars, Types, TypeOK
<1>9. ASSUME NEW s \in Syncers, Fetch(s)
      PROVE  Types'
  <2> DEFINE answer == [k \in Keys |-> Verdict(k)]
  <2>1. answer \in [Keys -> Verdicts]
    BY DEF Verdict, Verdicts
  <2> HIDE DEF answer
  <2> DEFINE one == <<answer>>
  <2>2. sync' = [sync EXCEPT ![s] = one]
    BY <1>9 DEF Fetch, answer
  <2>3. one \in Seq([Keys -> Verdicts]) /\ Len(one) <= 1
    BY <2>1
  <2> HIDE DEF one
  <2>4. /\ DOMAIN sync' = Syncers
        /\ \A x \in Syncers : Len(sync'[x]) <= 1 /\ sync'[x] \in Seq([Keys -> Verdicts])
    <3>1. DOMAIN sync = Syncers /\ \A x \in Syncers : Len(sync[x]) <= 1 /\ sync[x] \in Seq([Keys -> Verdicts])
      BY DEF Types, TypeOK
    <3>2. DOMAIN sync' = Syncers /\ sync'[s] = one /\ \A x \in Syncers : x # s => sync'[x] = sync[x]
      BY <2>2, <3>1
    <3> QED
      BY <2>3, <3>1, <3>2
  <2> QED
    BY <1>9, <2>4 DEF Fetch, loopVars, bookVars, worldVars, Types, TypeOK
<1>10. ASSUME NEW s \in Syncers, Reconcile(s) \/ SyncFails(s)
       PROVE  Types'
  <2>1. Synced(s)
    BY <1>10 DEF Reconcile, SyncFails
  <2>2. DOMAIN positions' \subseteq Keys /\ \A k \in DOMAIN positions' : positions'[k] \in Prices
    <3>1. CASE Reconcile(s)
      BY <1>0, <3>1 DEF Reconcile, Except, DiscoveredTarget, Types, TypeOK
    <3>2. CASE SyncFails(s)
      BY <3>2 DEF SyncFails, bookVars, Types, TypeOK
    <3> QED
      BY <1>10, <3>1, <3>2
  <2> QED
    BY <1>10, <2>1, <2>2, SyncedTypes DEF Reconcile, SyncFails, bookVars, worldVars, Types, TypeOK
<1>11. CASE UNCHANGED vars
  BY <1>11 DEF vars, Types, TypeOK
<1> QED
  BY <1>1, <1>2, <1>3, <1>4, <1>5, <1>6, <1>7, <1>8, <1>9, <1>10, <1>11 DEF Next, World, Loop

-----------------------------------------------------------------------------
(* The loop *)

LEMMA LoopStep ==
    ASSUME Types, LoopOK, [Next]_vars
    PROVE  LoopOK'
<1>1. CASE World \/ Stop \/ UNCHANGED vars
  BY <1>1 DEF World, Place, Execute, Cancel, Tick, Stop, bookVars, loopVars, worldVars, vars, LoopOK
<1>2. CASE Run
  <2>1. pending = {} /\ step = "wait" /\ hand = <<>> /\ (\A t \in Topics : got[t] = <<>>)
        /\ sync["run"] = <<>>
    BY <1>2 DEF Run, LoopOK, Types, TypeOK
  <2>2. Len(hand) = 0
    BY <2>1
  <2>3. pending' \subseteq Topics /\ UNCHANGED <<got, hand, step, sync>>
        /\ (phase' # "running" => pending' = {})
    BY <1>2 DEF Run
  <2> QED
    BY <2>1, <2>2, <2>3 DEF LoopOK
<1>3. ASSUME NEW t \in Topics, Get(t)
      PROVE  LoopOK'
  <2>1. /\ t \in pending /\ pending' = pending \ {t} /\ UNCHANGED <<phase, hand, step, sync, handled>>
        /\ \A x \in Topics : x # t => got'[x] = got[x]
        /\ step \in {"wait", "lookup"}
    BY <1>3 DEF Get, bookVars, Types, TypeOK
  <2>2. phase = "running"
    BY <2>1 DEF LoopOK
  <2>3. step = "lookup" => t # "ORDERS"
    <3>1. step = "lookup" => 1 \in 1..Len(hand) /\ hand[1].topic = "ORDERS"
      BY HeadAndTail DEF LoopOK, Types, TypeOK
    <3> QED
      BY <2>1, <3>1 DEF LoopOK
  <2>4. pending \subseteq Topics /\ "ORDERS" \in Topics
    BY DEF Types, TypeOK, Topics
  <2> QED
    BY <2>1, <2>2, <2>3, <2>4 DEF LoopOK
<1>4. CASE Wake
  <2>1. /\ (\A t \in Topics : got'[t] = <<>>) /\ step' = "ready" /\ phase = "running"
        /\ UNCHANGED <<phase, pending, sync, handled>>
    BY <1>4 DEF Wake, bookVars
  <2>2. (\E n \in 1..Len(hand') : hand'[n].topic = "ORDERS") => got["ORDERS"] # <<>>
    BY <1>4, WokenLemma DEF Wake
  <2>3. pending \subseteq Topics /\ "ORDERS" \in Topics
    BY DEF Types, TypeOK, Topics
  <2> QED
    BY <2>1, <2>2, <2>3 DEF LoopOK
<1>5. CASE EndRound
  <2>1. /\ (\A t \in Topics : got'[t] = <<>>) /\ step' = "wait" /\ hand' = <<>> /\ phase = "running"
        /\ pending' \subseteq Topics /\ (phase' # "running" => pending' = {})
    BY <1>5 DEF EndRound, Getters, LoopOK
  <2>2. sync'["run"] = sync["run"]
    BY <1>5 DEF EndRound, Types, Syncers
  <2>3. sync["run"] = <<>>
    BY <2>1 DEF LoopOK
  <2>4. Len(hand') = 0
    BY <2>1
  <2> QED
    BY <2>1, <2>2, <2>3, <2>4 DEF LoopOK
<1>6. ASSUME HandleOrder \/ CacheToken \/ CheckTargetPrices
      PROVE  LoopOK'
  <2>1. /\ step \in {"ready", "lookup"} /\ step' \in {"ready", "lookup"}
        /\ UNCHANGED <<phase, pending, got, sync>> /\ handled \subseteq handled'
    BY <1>6 DEF HandleOrder, CacheToken, CheckTargetPrices
  <2>2. hand \in Seq(Item) /\ hand # <<>>
    BY <1>6 DEF HandleOrder, CacheToken, CheckTargetPrices, LoopOK, Types, TypeOK
  <2>3. step' = "lookup" => hand' = hand /\ Head(hand).topic = "ORDERS" /\ Head(hand).id \in handled'
    BY <1>6 DEF HandleOrder, CacheToken, CheckTargetPrices
  <2>4. (\E n \in 1..Len(hand') : hand'[n].topic = "ORDERS")
           => \E n \in 1..Len(hand) : hand[n].topic = "ORDERS"
    <3>1. hand' \in {hand, Tail(hand)}
      BY <1>6 DEF HandleOrder, CacheToken, CheckTargetPrices
    <3> QED
      BY <2>2, <3>1, HeadAndTail
  <2>5. phase = "running" /\ got["ORDERS"] = <<>>
    BY <2>1 DEF LoopOK
  <2> QED
    BY <2>1, <2>2, <2>3, <2>4, <2>5 DEF LoopOK
<1>7. ASSUME NEW s \in Syncers, Fetch(s)
      PROVE  LoopOK'
  <2>1. UNCHANGED <<phase, pending, got, hand, step, handled>> /\ (s # "run" => sync'["run"] = sync["run"])
    BY <1>7 DEF Fetch, loopVars, bookVars, Types, Syncers
  <2>2. s = "run" => phase = "syncing"
    BY <1>7 DEF Fetch, MaySync
  <2> QED
    BY <2>1, <2>2 DEF LoopOK
<1>8. ASSUME NEW s \in Syncers, Reconcile(s) \/ SyncFails(s)
      PROVE  LoopOK'
  <2>1. Synced(s) /\ UNCHANGED <<got, hand, step, handled>> /\ step # "ready"
    BY <1>8 DEF Reconcile, SyncFails, bookVars
  <2>2. CASE s = "run"
    <3>1. phase = "syncing"
      BY <1>8, <2>2 DEF Reconcile, SyncFails, MaySync, LoopOK
    <3>2. /\ phase' \in {"running", "stopped"} /\ pending' \subseteq Topics
          /\ (phase' # "running" => pending' = {}) /\ sync'["run"] = <<>>
      BY <2>1, <2>2 DEF Synced, Syncers
    <3>3. step = "wait" /\ hand = <<>> /\ (\A t \in Topics : got[t] = <<>>)
      BY <3>1 DEF LoopOK, Types, TypeOK
    <3>4. Len(hand') = 0 /\ hand' = <<>>
      BY <2>1, <3>3
    <3> QED
      BY <2>1, <3>2, <3>3, <3>4 DEF LoopOK
  <2>3. CASE s # "run"
    <3>1. UNCHANGED <<phase, pending>> /\ sync'["run"] = sync["run"]
      BY <2>1, <2>3 DEF Synced, Syncers
    <3> QED
      BY <2>1, <3>1 DEF LoopOK
  <2> QED
    BY <2>2, <2>3
<1> QED
  BY <1>1, <1>2, <1>3, <1>4, <1>5, <1>6, <1>7, <1>8 DEF Next, Loop

-----------------------------------------------------------------------------
(* No executed order is lost *)

(* What is in transit stays there, or is handled. *)
LEMMA TransitLemma ==
    ASSUME Types, LoopOK, [Next]_vars
    PROVE  /\ InTransit \cup handled \cup missed \subseteq InTransit' \cup handled' \cup missed'
<1> DEFINE Q(i) == \E n \in 1..Len(queue["ORDERS"]) : queue["ORDERS"][n].id = i
           G(i) == got["ORDERS"] # <<>> /\ got["ORDERS"][1].id = i
           H(i) == \E n \in 1..Len(hand) : hand[n].topic = "ORDERS" /\ hand[n].id = i
<1>0. /\ "ORDERS" \in Topics /\ DOMAIN queue = Topics /\ DOMAIN got = Topics
      /\ queue["ORDERS"] \in Seq(Item) /\ got["ORDERS"] \in Seq(Item) /\ hand \in Seq(Item)
  BY DEF Types, TypeOK, Topics
<1>1. handled \subseteq handled' /\ missed \subseteq missed'
  BY DEF Next, World, Loop, Place, Execute, Cancel, Tick, Run, Stop, Get, Wake, EndRound, HandleOrder,
         CacheToken, CheckTargetPrices, Fetch, Reconcile, SyncFails, vars, bookVars, worldVars
<1> SUFFICES ASSUME NEW i \in OrderIds, i \in InTransit
             PROVE  Q(i)' \/ G(i)' \/ H(i)' \/ i \in handled'
  BY <1>1 DEF InTransit
<1>2. Q(i) \/ G(i) \/ H(i)
  BY DEF InTransit
<1>3. CASE UNCHANGED <<queue, got, hand>>
  BY <1>2, <1>3
<1>4. ASSUME NEW t \in Topics, NEW item \in Of(t), Emit(t, item), UNCHANGED <<got, hand>>
      PROVE  Q(i)' \/ G(i)' \/ H(i)'
  <2>1. ASSUME Q(i) PROVE Q(i)'
    <3>1. CASE queue'["ORDERS"] = queue["ORDERS"]
      BY <2>1, <3>1
    <3>2. CASE queue'["ORDERS"] = Append(queue["ORDERS"], item) /\ t = "ORDERS"
      <4>1. item \in Item
        BY DEF Of
      <4> QED
        BY <1>0, <2>1, <3>2, <4>1, Appended
    <3> QED
      BY <1>0, <1>4, <3>1, <3>2 DEF Emit
  <2> QED
    BY <1>2, <1>4, <2>1
<1>5. ASSUME NEW t \in Topics, Get(t)
      PROVE  Q(i)' \/ G(i)' \/ H(i)'
  <2>1. CASE t # "ORDERS"
    BY <1>0, <1>2, <1>5, <2>1 DEF Get
  <2>2. CASE t = "ORDERS"
    <3>1. /\ queue["ORDERS"] # <<>> /\ queue'["ORDERS"] = Tail(queue["ORDERS"])
          /\ got'["ORDERS"] = <<Head(queue["ORDERS"])>> /\ hand' = hand /\ got["ORDERS"] = <<>>
      BY <1>0, <1>5, <2>2 DEF Get, LoopOK
    <3>2. ASSUME Q(i) PROVE Q(i)' \/ G(i)'
      <4>1. PICK n \in 1..Len(queue["ORDERS"]) : queue["ORDERS"][n].id = i
        BY <3>2
      <4>2. CASE n = 1
        BY <1>0, <3>1, <4>1, <4>2, HeadAndTail
      <4>3. CASE n # 1
        <5>1. n - 1 \in 1..Len(Tail(queue["ORDERS"])) /\ Tail(queue["ORDERS"])[n - 1] = queue["ORDERS"][n]
          BY <1>0, <3>1, <4>3, HeadAndTail
        <5> QED
          BY <3>1, <4>1, <5>1
      <4> QED
        BY <4>2, <4>3
    <3> QED
      BY <1>2, <3>1, <3>2
  <2> QED
    BY <2>1, <2>2
<1>6. CASE Wake
  <2>1. hand' \in Woken /\ queue' = queue /\ hand = <<>>
    BY <1>6 DEF Wake, LoopOK
  <2>2. Len(hand) = 0
    BY <2>1
  <2>3. ASSUME G(i) PROVE H(i)'
    BY <2>1, <2>3, WokenLemma
  <2> QED
    BY <1>2, <2>1, <2>2, <2>3
<1>7. CASE EndRound
  <2>1. queue' = queue /\ hand' = hand /\ got["ORDERS"] = <<>>
    BY <1>7 DEF EndRound, LoopOK
  <2> QED
    BY <1>2, <2>1
<1>8. ASSUME HandleOrder \/ CacheToken \/ CheckTargetPrices
      PROVE  Q(i)' \/ G(i)' \/ H(i)' \/ i \in handled'
  <2>1. queue' = queue /\ got' = got /\ hand # <<>>
    BY <1>8 DEF HandleOrder, CacheToken, CheckTargetPrices, LoopOK
  <2>2. hand' = hand \/ (hand' = Tail(hand) /\ (Head(hand).topic = "ORDERS" => Head(hand).id \in handled'))
    BY <1>8 DEF HandleOrder, CacheToken, CheckTargetPrices, LoopOK
  <2>3. ASSUME H(i), hand' = Tail(hand), Head(hand).topic = "ORDERS" => Head(hand).id \in handled'
        PROVE  H(i)' \/ i \in handled'
    <3>1. PICK n \in 1..Len(hand) : hand[n].topic = "ORDERS" /\ hand[n].id = i
      BY <2>3
    <3>2. CASE n = 1
      BY <1>0, <2>1, <2>3, <3>1, <3>2, HeadAndTail
    <3>3. CASE n # 1
      <4>1. n - 1 \in 1..Len(Tail(hand)) /\ Tail(hand)[n - 1] = hand[n]
        BY <1>0, <2>1, <3>3, HeadAndTail
      <4> QED
        BY <2>3, <3>1, <4>1
    <3> QED
      BY <3>2, <3>3
  <2> QED
    BY <1>2, <2>1, <2>2, <2>3
<1>9. CASE \E o \in DOMAIN venue, price \in Prices : Execute(o, price)
  <2>1. PICK o \in DOMAIN venue, price \in Prices : Execute(o, price)
    BY <1>9
  <2> DEFINE item == [topic |-> "ORDERS", id |-> o, key |-> venue[o].key,
                      side |-> venue[o].side, price |-> price]
  <2>2. venue[o] \in Order /\ o \in OrderIds
    BY LiveAssumption DEF Types, OrderIds
  <2>3. item \in Of("ORDERS")
    BY <2>2 DEF Of, Item, Order
  <2>4. UNCHANGED queue \/ Emit("ORDERS", item)
    BY <2>1 DEF Execute
  <2>5. UNCHANGED <<got, hand>>
    BY <2>1 DEF Execute
  <2> HIDE DEF item
  <2> QED
    BY <1>0, <1>3, <1>4, <2>3, <2>4, <2>5
<1>10. CASE \E k \in Keys, price \in Prices : Tick(k, price)
  <2>1. PICK k \in Keys, price \in Prices : Tick(k, price)
    BY <1>10
  <2> DEFINE item == [topic |-> "MARKET_DATA", key |-> k, price |-> price]
  <2>2. item \in Of("MARKET_DATA") /\ "MARKET_DATA" \in Topics
    BY DEF Of, Item, Topics
  <2>3. Emit("MARKET_DATA", item) /\ UNCHANGED <<got, hand>>
    BY <2>1 DEF Tick
  <2> HIDE DEF item
  <2> QED
    BY <1>4, <2>2, <2>3
<1> QED
  BY <1>3, <1>5, <1>6, <1>7, <1>8, <1>9, <1>10
     DEF Next, World, Loop, Place, Cancel, Run, Stop, Fetch, Reconcile, SyncFails, loopVars, vars

(* Which orders of the platform are executed changes only when one is, and *)
(* then it is on its way or missed.                                        *)
LEMMA ExecutedLemma ==
    ASSUME Types, [Next]_vars, NEW o \in DOMAIN venue', venue'[o].ours, venue'[o].status = "FILLED"
    PROVE  \/ o \in DOMAIN venue /\ venue[o].ours /\ venue[o].status = "FILLED"
           \/ o \in missed' \cup InTransit'
<1>0. venue \in Seq(Order) /\ Len(venue) <= MaxOrders
  BY DEF Types
<1>1. CASE venue' = venue
  BY <1>1
<1>2. ASSUME NEW k \in Keys, NEW side \in {"BUY", "SELL"}, NEW ours \in BOOLEAN, Place(k, side, ours)
      PROVE  o \in DOMAIN venue /\ venue[o].ours /\ venue[o].status = "FILLED"
  <2> DEFINE new == [key |-> k, side |-> side, ours |-> ours, status |-> "OPEN"]
  <2>1. new \in Order /\ new.status = "OPEN" /\ venue' = Append(venue, new)
    BY <1>2 DEF Order, Place
  <2> HIDE DEF new
  <2>2. o \in 1..Len(venue) \/ venue'[o] = new
    BY <1>0, <2>1
  <2>3. o \in 1..Len(venue) => venue'[o] = venue[o] /\ o \in DOMAIN venue
    BY <1>0, <2>1
  <2> QED
    BY <2>1, <2>2, <2>3
<1>3. ASSUME NEW c \in DOMAIN venue, Cancel(c)
      PROVE  o \in DOMAIN venue /\ venue[o].ours /\ venue[o].status = "FILLED"
  <2>1. venue[c] \in Order /\ c \in DOMAIN venue
    BY <1>0
  <2>2. venue'[c].status = "CANCELLED" /\ DOMAIN venue' = DOMAIN venue
        /\ \A x \in DOMAIN venue : x # c => venue'[x] = venue[x]
    BY <1>3, <2>1 DEF Cancel, Order
  <2> QED
    BY <2>2
<1>4. ASSUME NEW e \in DOMAIN venue, NEW price \in Prices, Execute(e, price)
      PROVE  \/ o \in DOMAIN venue /\ venue[o].ours /\ venue[o].status = "FILLED"
             \/ o \in missed' \cup InTransit'
  <2>1. venue[e] \in Order /\ e \in OrderIds
    BY <1>0, LiveAssumption DEF OrderIds
  <2>2. DOMAIN venue' = DOMAIN venue /\ (\A x \in DOMAIN venue : x # e => venue'[x] = venue[x])
        /\ venue'[e].ours = venue[e].ours
    BY <1>4, <2>1 DEF Execute, Order
  <2>3. ASSUME o = e PROVE o \in missed' \cup InTransit'
    <3> DEFINE item == [topic |-> "ORDERS", id |-> e, key |-> venue[e].key,
                        side |-> venue[e].side, price |-> price]
    <3>1. venue[e].ours
      BY <2>2, <2>3
    <3>2. Emit("ORDERS", item) /\ missed' = IF phase = "new" THEN missed \cup {e} ELSE missed
      BY <1>4, <3>1 DEF Execute
    <3>3. item \in Item /\ item.id = e
      BY <2>1 DEF Item, Order
    <3> HIDE DEF item
    <3>4. CASE phase # "new"
      <4>1. /\ "ORDERS" \in DOMAIN queue /\ queue["ORDERS"] \in Seq(Item)
        BY DEF Types, TypeOK, Topics
      <4>2. queue'["ORDERS"] = Append(queue["ORDERS"], item)
        BY <3>2, <3>4, <4>1 DEF Emit
      <4>3. Len(queue["ORDERS"]) + 1 \in 1..Len(queue'["ORDERS"])
            /\ queue'["ORDERS"][Len(queue["ORDERS"]) + 1] = item
        BY <3>3, <4>1, <4>2, Appended
      <4> QED
        BY <2>1, <2>3, <3>3, <4>3 DEF InTransit
    <3> QED
      BY <2>3, <3>2, <3>4
  <2> QED
    BY <2>2, <2>3
<1> QED
  BY <1>1, <1>2, <1>3, <1>4
     DEF Next, World, Loop, Tick, Run, Stop, Get, Wake, EndRound, HandleOrder, CacheToken,
         CheckTargetPrices, Fetch, Reconcile, SyncFails, worldVars, vars

-----------------------------------------------------------------------------
(* The inductive invariant. *)
THEOREM LivePositionsInvariant == Spec => []IInv
<1>1. Init => IInv
  <2> SUFFICES ASSUME Init PROVE IInv
    OBVIOUS
  <2>1. Len(hand) = 0 /\ DOMAIN venue = {}
    BY DEF Init
  <2>2. LoopOK
    BY <2>1 DEF Init, LoopOK, Topics, Syncers
  <2>3. NoOrderIsLost
    BY <2>1 DEF NoOrderIsLost
  <2> QED
    BY <2>2, <2>3, TypesInit DEF IInv
<1>2. IInv /\ [Next]_vars => IInv'
  <2> SUFFICES ASSUME IInv, [Next]_vars PROVE IInv'
    OBVIOUS
  <2>1. Types' /\ LoopOK'
    BY TypesStep, LoopStep DEF IInv
  <2>2. NoOrderIsLost'
    BY TransitLemma, ExecutedLemma DEF IInv, NoOrderIsLost
  <2> QED
    BY <2>1, <2>2 DEF IInv
<1> QED
  BY <1>1, <1>2, PTL DEF Spec

(* Types: a round handles at most one order and one tick, positions have   *)
(* targets, and a sync has one answer at a time.                           *)
THEOREM LivePositionsTypes == Spec => []TypeOK
<1>1. IInv => TypeOK
  BY DEF IInv, Types
<1> QED
  BY <1>1, LivePositionsInvariant, PTL

(* Whatever a round forgets when it ends: every order of the platform that *)
(* is executed after run() has subscribed is on its way to the handler, or *)
(* was handled, however ticks, syncs, failed calls and stop() interleave.  *)
THEOREM NoExecutedOrderIsLost == Spec => []NoOrderIsLost
<1>1. IInv => NoOrderIsLost
  BY DEF IInv
<1> QED
  BY <1>1, LivePositionsInvariant, PTL
=============================================================================
