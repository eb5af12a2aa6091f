------------------------- MODULE TradingLoopProofs --------------------------
(***************************************************************************)
(* What TLAPS proves of TradingLoop.                                       *)
(***************************************************************************)
EXTENDS TradingLoop, SequenceTheorems, FiniteSetTheorems, WellFoundedInduction, TLAPS

(***************************************************************************)
(* The inductive invariant                                                 *)
(***************************************************************************)

Buy  == [side : {"BUY"}, strategy : Strategies, key : Keys, size : {1}, target : Nat]
Sell == [side : {"SELL"}, strategy : {"position_manager"}, key : Keys, size : Nat \ {0}, target : Nat]

Tag   == [key : Keys, mid : 1..Full]
Order == [intent : Buy \cup Sell, state : {"sent", "filled"}]
Close == [strategy : Strategies \cup {"none"}, key : Keys, size : Nat,
          exit : {"sold", "won", "lost", "even", "entry"}]

QueueTypes ==
    /\ fills \in Seq(Buy \cup Sell) /\ proposals \in Seq(Buy \cup Sell)
    /\ ticks \in Seq(Tag) /\ inbox \in [Strategies -> Seq(Tag)]
    /\ changes \in Seq(ToSet(Markets)) /\ current \in DOMAIN Markets
    /\ signals \in Seq([strategy : Strategies, key : Keys, upwards : BOOLEAN])
    /\ quotes \in [Keys -> 0..Full]
    /\ orders \in Seq(Order) /\ executions \in Seq(Nat)
    /\ \A n \in DOMAIN executions : executions[n] \in DOMAIN orders
    /\ approved \subseteq Strategies \X Keys
    /\ executed \subseteq (Strategies \cup {"unknown"}) \X Keys

PositionTypes ==
    /\ held \in Seq(Keys) /\ IsInjective(held) /\ selling \subseteq Keys
    /\ position \in [Keys -> [size : Nat, target : Nat]]
    /\ \A k \in Keys : IsHeld(k) <=> position[k].size > 0
    /\ bought \in [Keys -> Nat] /\ last \in [Keys -> 0..Full]
    /\ owner \in [Keys -> Strategies \cup {"none"}]
    /\ tracked \in [Strategies -> [Keys -> Nat]]
    /\ closed \in Seq(Close) /\ attributed \in Seq(Close)

(* What the checker has approved it remembers. *)
Remembered ==
    \A i \in DOMAIN orders :
        LET p == orders[i].intent
        IN p.side = "BUY" => <<p.strategy, p.key>> \in approved \cup executed

(* Fills of BUYs of a key, and sales of it, that are under way.            *)
At(q, side, k) == {n \in DOMAIN q : q[n].side = side /\ q[n].key = k}
Coming(k)      == At(fills, "BUY", k)
Offers(k)      == At(proposals, "SELL", k)

NoSale(k)      == Offers(k) = {} /\ Sales(k) = {}

(* A key nobody has a position in or had one.                              *)
Untouched(k) ==
    /\ ~IsHeld(k) /\ owner[k] = "none" /\ bought[k] = 0
    /\ \A s \in Strategies : tracked[s][k] = 0
    /\ OfKey(closed, k) = <<>> /\ OfKey(attributed, k) = <<>>
    /\ NoSale(k)

(* The life of a key that has at most one buyer.                           *)
NotBought(k) == Buyers(k) = {} /\ Coming(k) = {} /\ Untouched(k)
ToBeBooked(k) ==
    /\ Untouched(k)
    /\ \E n \in DOMAIN fills : Coming(k) = {n} /\ Buyers(k) = {fills[n].strategy}
Booked(k) ==
    /\ Coming(k) = {} /\ owner[k] # "none" /\ Buyers(k) = {owner[k]}
    /\ position[k].size = 1
    /\ \A s \in Strategies : tracked[s][k] = IF s = owner[k] THEN 1 ELSE 0
    /\ OfKey(closed, k) = <<>> /\ OfKey(attributed, k) = <<>>
    /\ k \notin selling => NoSale(k)
IsClosed(k) ==
    /\ Coming(k) = {} /\ Buyers(k) # {} /\ ~IsHeld(k) /\ owner[k] = "none"
    /\ \A s \in Strategies : tracked[s][k] = 0
    /\ OfKey(attributed, k) = OfKey(closed, k)
    /\ Len(OfKey(closed, k)) = 1 /\ OfKey(closed, k)[1].size = 1
Life(k) == NotBought(k) \/ ToBeBooked(k) \/ Booked(k) \/ IsClosed(k)

(* It is offered for sale, or sold, once.                                  *)
OneSale(k) ==
    /\ \A m, n \in Offers(k) : m = n
    /\ \A i, j \in Sales(k) : i = j
    /\ Offers(k) = {} \/ Sales(k) = {}

OneBuyer(k) == \A s, t \in Buyers(k) : s = t
KeyOK(k)    == Life(k) /\ OneSale(k)
KeysOK == \A k \in Keys : OneBuyer(k) => KeyOK(k)

Types == QueueTypes /\ PositionTypes

IInv == Types /\ Remembered /\ OneBuyEach /\ KeysOK

-----------------------------------------------------------------------------
(* Induction, with sets in the place of predicates *)

LEMMA InductionOnNat ==
    ASSUME NEW T \in SUBSET Nat, 0 \in T, \A n \in T : n + 1 \in T
    PROVE  T = Nat
<1> SUFFICES ASSUME Nat \ T # {} PROVE FALSE
  OBVIOUS
<1> DEFINE R == OpToRel(<, Nat)
<1>1. IsWellFoundedOn(R, Nat)
  BY NatLessThanWellFounded, Zenon
<1>2. \A x, y \in Nat : y < x => <<y, x>> \in R
  BY DEF OpToRel
<1> HIDE DEF R
<1>3. PICK x \in Nat \ T : \A y \in Nat \ T : ~(<<y, x>> \in R)
  BY <1>1, WFMin
<1>4. x # 0 /\ x - 1 \in Nat /\ x - 1 < x /\ x = (x - 1) + 1
  OBVIOUS
<1> QED
  BY <1>2, <1>3, <1>4

LEMMA Appended ==
    ASSUME NEW X, NEW s \in Seq(X), NEW x \in X
    PROVE  /\ Append(s, x) \in Seq(X) /\ Len(Append(s, x)) = Len(s) + 1 /\ Len(s) \in Nat
           /\ DOMAIN Append(s, x) = 1..(Len(s) + 1) /\ DOMAIN s = 1..Len(s)
           /\ \A n \in 1..Len(s) : Append(s, x)[n] = s[n]
           /\ Append(s, x)[Len(s) + 1] = x
  OBVIOUS

LEMMA InductionOnSeq ==
    ASSUME NEW X, NEW T \in SUBSET Seq(X), <<>> \in T, \A s \in T, x \in X : Append(s, x) \in T
    PROVE  T = Seq(X)
<1> DEFINE L == {n \in Nat : \A s \in Seq(X) : Len(s) = n => s \in T}
<1>1. 0 \in L
  <2>1. \A s \in Seq(X) : Len(s) = 0 => s = <<>>
    BY EmptySeq
  <2> QED
    BY <2>1
<1>2. ASSUME NEW n \in L PROVE n + 1 \in L
  <2> SUFFICES ASSUME NEW s \in Seq(X), Len(s) = n + 1 PROVE s \in T
    BY <1>2
  <2>1. s # <<>>
    BY <1>2
  <2>2. PICK f \in Seq(X), x \in X : s = Append(f, x)
    BY <2>1, SequenceEmptyOrAppend
  <2>3. Len(f) = n
    BY <1>2, <2>2
  <2> QED
    BY <1>2, <2>2, <2>3
<1>3. L = Nat
  <2> HIDE DEF L
  <2>1. L \in SUBSET Nat
    BY DEF L
  <2> QED
    BY <1>1, <1>2, <2>1, InductionOnNat
<1>4. ASSUME NEW s \in Seq(X) PROVE s \in T
  <2>1. Len(s) \in L
    BY <1>3
  <2> QED
    BY <2>1
<1> QED
  BY <1>4

-----------------------------------------------------------------------------
(* Select *)

Keeps(g, s, S, m) ==
    g = [n \in 0..m |-> IF n = 0 THEN <<>>
                        ELSE IF s[n] \in S THEN Append(g[n - 1], s[n]) ELSE g[n - 1]]

LEMMA KeepsAt ==
    ASSUME NEW g, NEW s, NEW S, NEW m, Keeps(g, s, S, m), NEW n \in 0..m
    PROVE  g[n] = IF n = 0 THEN <<>>
                  ELSE IF s[n] \in S THEN Append(g[n - 1], s[n]) ELSE g[n - 1]
<1> DEFINE F(i) == IF i = 0 THEN <<>> ELSE IF s[i] \in S THEN Append(g[i - 1], s[i]) ELSE g[i - 1]
<1>1. g = [i \in 0..m |-> F(i)]
  BY DEF Keeps
<1> HIDE DEF F
<1>2. g[n] = F(n)
  BY <1>1
<1> QED
  BY <1>2 DEF F

(* The recursive function exists, and it is the same for the same prefix.  *)
LEMMA KeepsExists ==
    ASSUME NEW X, NEW s \in Seq(X), NEW S
    PROVE  \E g : Keeps(g, s, S, Len(s))
<1> DEFINE T == {m \in Nat : m <= Len(s) => \E g : Keeps(g, s, S, m)}
<1>1. 0 \in T
  <2> DEFINE g == [n \in 0..0 |-> <<>>]
  <2>1. Keeps(g, s, S, 0)
    BY DEF Keeps
  <2> QED
    BY <2>1
<1>2. ASSUME NEW m \in T PROVE m + 1 \in T
  <2> SUFFICES ASSUME m + 1 <= Len(s) PROVE \E g : Keeps(g, s, S, m + 1)
    BY <1>2
  <2>1. PICK g : Keeps(g, s, S, m)
    BY <1>2
  <2> DEFINE final == IF s[m + 1] \in S THEN Append(g[m], s[m + 1]) ELSE g[m]
             h == [n \in 0..(m + 1) |-> IF n = m + 1 THEN final ELSE g[n]]
  <2>2. \A n \in 0..m : g[n] = IF n = 0 THEN <<>>
                               ELSE IF s[n] \in S THEN Append(g[n - 1], s[n]) ELSE g[n - 1]
    BY <2>1 DEF Keeps
  <2>3. \A n \in 0..(m + 1) : h[n] = IF n = m + 1 THEN final ELSE g[n]
    OBVIOUS
  <2>4. h = [n \in 0..(m + 1) |-> h[n]]
    OBVIOUS
  <2> HIDE DEF h
  <2>5. \A n \in 0..(m + 1) : h[n] = IF n = 0 THEN <<>>
                                     ELSE IF s[n] \in S THEN Append(h[n - 1], s[n]) ELSE h[n - 1]
    <3> SUFFICES ASSUME NEW n \in 0..(m + 1)
                 PROVE  h[n] = IF n = 0 THEN <<>>
                               ELSE IF s[n] \in S THEN Append(h[n - 1], s[n]) ELSE h[n - 1]
      OBVIOUS
    <3>1. CASE n = m + 1
      <4>1. n # 0 /\ n - 1 = m /\ m \in 0..(m + 1) /\ m # m + 1
        BY <1>2, <3>1
      <4>2. h[n - 1] = g[m]
        BY <2>3, <4>1
      <4> QED
        BY <2>3, <3>1, <4>1, <4>2
    <3>2. CASE n # m + 1
      <4>1. n \in 0..m /\ (n # 0 => n - 1 \in 0..(m + 1) /\ n - 1 # m + 1)
        BY <1>2, <3>2
      <4> HIDE DEF final
      <4>2. h[n] = g[n] /\ (n # 0 => h[n - 1] = g[n - 1])
        BY <2>3, <3>2, <4>1
      <4> QED
        BY <2>2, <4>1, <4>2
    <3> QED
      BY <3>1, <3>2
  <2>6. Keeps(h, s, S, m + 1)
    BY <2>4, <2>5 DEF Keeps
  <2> QED
    BY <2>6
<1>3. T = Nat
  <2> HIDE DEF T
  <2>1. T \in SUBSET Nat
    BY DEF T
  <2> QED
    BY <1>1, <1>2, <2>1, InductionOnNat
<1>4. Len(s) \in Nat /\ Len(s) <= Len(s)
  OBVIOUS
<1> HIDE DEF T
<1>5. Len(s) \in T
  BY <1>3, <1>4
<1> QED
  BY <1>4, <1>5 DEF T

LEMMA KeepsSame ==
    ASSUME NEW s, NEW t, NEW S, NEW a \in Nat, NEW b \in Nat, NEW m \in Nat, m <= a, m <= b,
           \A n \in 1..m : s[n] = t[n],
           NEW g, Keeps(g, s, S, a), NEW h, Keeps(h, t, S, b)
    PROVE  g[m] = h[m]
<1> DEFINE T == {n \in Nat : n <= m => g[n] = h[n]}
<1>9. 0..m \subseteq 0..a /\ 0..m \subseteq 0..b
  OBVIOUS
<1>0. \A n \in 0..m : /\ g[n] = IF n = 0 THEN <<>>
                               ELSE IF s[n] \in S THEN Append(g[n - 1], s[n]) ELSE g[n - 1]
                      /\ h[n] = IF n = 0 THEN <<>>
                               ELSE IF t[n] \in S THEN Append(h[n - 1], t[n]) ELSE h[n - 1]
  BY <1>9, KeepsAt
<1>1. 0 \in T
  BY <1>0
<1>2. ASSUME NEW n \in T PROVE n + 1 \in T
  <2> SUFFICES ASSUME n + 1 <= m PROVE g[n + 1] = h[n + 1]
    BY <1>2
  <2>1. g[n] = h[n] /\ n + 1 \in 0..m /\ n + 1 # 0 /\ (n + 1) - 1 = n /\ s[n + 1] = t[n + 1]
    BY <1>2
  <2> QED
    BY <1>0, <2>1
<1>3. T = Nat
  <2> HIDE DEF T
  <2>1. T \in SUBSET Nat
    BY DEF T
  <2> QED
    BY <1>1, <1>2, <2>1, InductionOnNat
<1> QED
  BY <1>3

LEMMA SelectDef ==
    ASSUME NEW X, NEW s \in Seq(X), NEW S
    PROVE  \E g : Keeps(g, s, S, Len(s)) /\ Select(s, S) = g[Len(s)]
<1>1. PICK g : Keeps(g, s, S, Len(s))
  BY KeepsExists
<1> DEFINE k == CHOOSE f : Keeps(f, s, S, Len(s))
<1>2. Keeps(k, s, S, Len(s))
  BY <1>1, Zenon
<1>3. Select(s, S) = k[Len(s)]
  BY Zenon DEF Select, Keeps
<1> QED
  BY <1>2, <1>3

LEMMA SelectEmpty ==
    ASSUME NEW S
    PROVE  Select(<<>>, S) = <<>>
<1>1. << >> \in Seq({}) /\ Len(<< >>) = 0
  OBVIOUS
<1>2. PICK g : Keeps(g, << >>, S, 0) /\ Select(<< >>, S) = g[0]
  BY <1>1, SelectDef
<1> QED
  BY <1>2 DEF Keeps

LEMMA SelectAppend ==
    ASSUME NEW X, NEW s \in Seq(X), NEW x \in X, NEW S
    PROVE  Select(Append(s, x), S) = IF x \in S THEN Append(Select(s, S), x) ELSE Select(s, S)
<1> DEFINE t == Append(s, x)
           m == Len(s)
<1>1. t \in Seq(X) /\ Len(t) = m + 1 /\ m \in Nat /\ t[m + 1] = x /\ \A n \in 1..m : t[n] = s[n]
  BY Appended
<1> HIDE DEF t
<1>2. PICK h : Keeps(h, t, S, Len(t)) /\ Select(t, S) = h[Len(t)]
  BY <1>1, SelectDef
<1>3. PICK g : Keeps(g, s, S, m) /\ Select(s, S) = g[m]
  BY SelectDef
<1> HIDE DEF m
<1>4. h[m] = g[m]
  BY <1>1, <1>2, <1>3, KeepsSame
<1>5. h[m + 1] = IF t[m + 1] \in S THEN Append(h[m], t[m + 1]) ELSE h[m]
  <2>1. m + 1 \in 0..(m + 1) /\ m + 1 # 0 /\ (m + 1) - 1 = m
    BY <1>1
  <2> QED
    BY <1>1, <1>2, <2>1 DEF Keeps
<1> QED
  BY <1>1, <1>2, <1>3, <1>4, <1>5 DEF t

LEMMA SelectType ==
    ASSUME NEW X, NEW s \in Seq(X), NEW S
    PROVE  Select(s, S) \in Seq(X)
<1> DEFINE T == {q \in Seq(X) : Select(q, S) \in Seq(X)}
<1>1. <<>> \in T
  <2>1. Select(<<>>, S) = <<>> /\ <<>> \in Seq(X)
    BY SelectEmpty
  <2> QED
    BY <2>1
<1>2. ASSUME NEW q \in T, NEW x \in X PROVE Append(q, x) \in T
  <2>1. Select(Append(q, x), S) = Append(Select(q, S), x) \/ Select(Append(q, x), S) = Select(q, S)
    BY SelectAppend
  <2>2. Append(q, x) \in Seq(X) /\ Append(Select(q, S), x) \in Seq(X)
    BY Appended
  <2> QED
    BY <2>1, <2>2
<1>3. T = Seq(X)
  <2> HIDE DEF T
  <2>1. T \in SUBSET Seq(X)
    BY DEF T
  <2> QED
    BY <1>1, <1>2, <2>1, InductionOnSeq
<1> QED
  BY <1>3

LEMMA ToSetAppend ==
    ASSUME NEW X, NEW s \in Seq(X), NEW x \in X
    PROVE  ToSet(Append(s, x)) = ToSet(s) \cup {x}
<1> DEFINE t == Append(s, x)
<1>1. /\ DOMAIN t = 1..(Len(s) + 1) /\ DOMAIN s = 1..Len(s) /\ Len(s) \in Nat
      /\ t[Len(s) + 1] = x /\ \A n \in 1..Len(s) : t[n] = s[n]
  BY Appended
<1> HIDE DEF t
<1>2. ASSUME NEW n \in DOMAIN t PROVE t[n] \in ToSet(s) \cup {x}
  <2>1. n \in 1..Len(s) \/ n = Len(s) + 1
    BY <1>1
  <2> QED
    BY <1>1, <2>1 DEF ToSet
<1>3. ASSUME NEW n \in DOMAIN s PROVE s[n] \in ToSet(t)
  BY <1>1 DEF ToSet
<1>4. x \in ToSet(t)
  <2>1. Len(s) + 1 \in DOMAIN t
    BY <1>1
  <2> QED
    BY <1>1, <2>1 DEF ToSet
<1> QED
  BY <1>2, <1>3, <1>4 DEF ToSet, t

LEMMA ToSetEmpty == ToSet(<<>>) = {}
  BY DEF ToSet

(* Its elements are those in S. *)
LEMMA SelectElements ==
    ASSUME NEW X, NEW s \in Seq(X), NEW S
    PROVE  ToSet(Select(s, S)) = ToSet(s) \cap S
<1> DEFINE T == {q \in Seq(X) : ToSet(Select(q, S)) = ToSet(q) \cap S}
<1>1. <<>> \in T
  BY SelectEmpty, ToSetEmpty
<1>2. ASSUME NEW q \in T, NEW x \in X PROVE Append(q, x) \in T
  <2>1. Append(q, x) \in Seq(X) /\ ToSet(Append(q, x)) = ToSet(q) \cup {x}
    BY Appended, ToSetAppend
  <2>2. ToSet(Select(q, S)) = ToSet(q) \cap S /\ Select(q, S) \in Seq(X)
    BY SelectType
  <2>3. Select(Append(q, x), S) = IF x \in S THEN Append(Select(q, S), x) ELSE Select(q, S)
    BY SelectAppend
  <2>4. ToSet(Append(Select(q, S), x)) = ToSet(Select(q, S)) \cup {x}
    BY <2>2, ToSetAppend
  <2>5. ToSet(Select(Append(q, x), S)) = ToSet(Append(q, x)) \cap S
    <3>1. CASE x \in S
      BY <2>1, <2>2, <2>3, <2>4, <3>1
    <3>2. CASE x \notin S
      BY <2>1, <2>2, <2>3, <3>2
    <3> QED
      BY <3>1, <3>2
  <2> QED
    BY <2>1, <2>5
<1>3. T = Seq(X)
  <2> HIDE DEF T
  <2>1. T \in SUBSET Seq(X)
    BY DEF T
  <2> QED
    BY <1>1, <1>2, <2>1, InductionOnSeq
<1> QED
  BY <1>3

LEMMA SelectNothing ==
    ASSUME NEW X, NEW s \in Seq(X), NEW S, ToSet(s) \cap S = {}
    PROVE  Select(s, S) = <<>>
<1> DEFINE q == Select(s, S)
<1>1. q \in Seq(X) /\ ToSet(q) = {}
  BY SelectType, SelectElements
<1> HIDE DEF q
<1>2. q # <<>> => q[1] \in ToSet(q)
  BY <1>1 DEF ToSet
<1> QED
  BY <1>1, <1>2 DEF q

(* If only one item is in S, it is what remains. *)
LEMMA SelectOne ==
    ASSUME NEW X, NEW s \in Seq(X), NEW S, NEW j \in DOMAIN s, \A i \in DOMAIN s : s[i] \in S <=> i = j
    PROVE  Select(s, S) = <<s[j]>>
<1> DEFINE One(q) == \A n \in DOMAIN q : (\A i \in DOMAIN q : q[i] \in S <=> i = n) => Select(q, S) = <<q[n]>>
           T == {q \in Seq(X) : One(q)}
<1>1. <<>> \in T
  OBVIOUS
<1>2. ASSUME NEW q \in T, NEW x \in X PROVE Append(q, x) \in T
  <2> DEFINE t == Append(q, x)
             m == Len(q)
  <2>1. /\ t \in Seq(X) /\ m \in Nat /\ DOMAIN t = 1..(m + 1) /\ DOMAIN q = 1..m
        /\ t[m + 1] = x /\ \A n \in 1..m : t[n] = q[n]
    BY Appended
  <2>2. Select(t, S) = IF x \in S THEN Append(Select(q, S), x) ELSE Select(q, S)
    BY SelectAppend
  <2>3. q \in Seq(X) /\ One(q)
    OBVIOUS
  <2> HIDE DEF t, m, T
  <2>4. SUFFICES ASSUME NEW n \in DOMAIN t, \A i \in DOMAIN t : t[i] \in S <=> i = n
                 PROVE  Select(t, S) = <<t[n]>>
    BY <2>1 DEF t, T
  <2>5. CASE n = m + 1
    <3>1. x \in S /\ \A i \in DOMAIN q : q[i] \notin S
      BY <2>1, <2>4, <2>5
    <3>2. Select(q, S) = <<>>
      <4>1. ToSet(q) \cap S = {}
        BY <3>1 DEF ToSet
      <4> QED
        BY <2>3, <4>1, SelectNothing
    <3> QED
      BY <2>1, <2>2, <2>5, <3>1, <3>2
  <2>6. CASE n # m + 1
    <3>1. n \in DOMAIN q /\ x \notin S /\ t[n] = q[n] /\ \A i \in DOMAIN q : q[i] \in S <=> i = n
      BY <2>1, <2>4, <2>6
    <3> QED
      BY <2>2, <2>3, <3>1
  <2> QED
    BY <2>5, <2>6
<1>3. T = Seq(X)
  <2> HIDE DEF T
  <2>1. T \in SUBSET Seq(X)
    BY DEF T
  <2> QED
    BY <1>1, <1>2, <2>1, InductionOnSeq
<1> QED
  BY <1>3

Joined(s, t) == s \o t

LEMMA JoinedLemma ==
    ASSUME NEW X, NEW s \in Seq(X), NEW t \in Seq(X), NEW x \in X
    PROVE  /\ Joined(s, t) \in Seq(X) /\ Joined(s, <<>>) = s
           /\ Append(Joined(s, t), x) = Joined(s, Append(t, x))
<1>1. s \o t \in Seq(X) /\ s \o <<>> = s
  OBVIOUS
<1>2. Append(s \o t, x) = s \o Append(t, x)
  OBVIOUS
<1> QED
  BY <1>1, <1>2, Zenon DEF Joined

LEMMA JoinedType ==
    ASSUME NEW X, NEW s \in Seq(X), NEW t \in Seq(X)
    PROVE  Joined(s, t) \in Seq(X)
<1>1. s \o t \in Seq(X)
  OBVIOUS
<1> QED
  BY <1>1 DEF Joined

LEMMA JoinedEmpty ==
    ASSUME NEW X, NEW s \in Seq(X)
    PROVE  Joined(s, <<>>) = s
<1>1. s \o <<>> = s
  OBVIOUS
<1> QED
  BY <1>1 DEF Joined

LEMMA SelectJoined ==
    ASSUME NEW X, NEW s \in Seq(X), NEW t \in Seq(X), NEW S
    PROVE  Select(Joined(s, t), S) = Joined(Select(s, S), Select(t, S))
<1> DEFINE a == Select(s, S)
           T == {q \in Seq(X) : Select(Joined(s, q), S) = Joined(a, Select(q, S))}
<1>0. a \in Seq(X)
  BY SelectType
<1>00. Joined(s, <<>>) = s /\ Joined(a, <<>>) = a
  BY <1>0 DEF Joined
<1>1. <<>> \in T
  <2>1. Select(<<>>, S) = <<>> /\ <<>> \in Seq(X)
    BY SelectEmpty
  <2> QED
    BY <1>00, <2>1
<1> HIDE DEF a
<1>2. ASSUME NEW q \in T, NEW x \in X PROVE Append(q, x) \in T
  <2>1. /\ q \in Seq(X) /\ Append(q, x) \in Seq(X) /\ Select(q, S) \in Seq(X)
        /\ Select(Joined(s, q), S) = Joined(a, Select(q, S))
    BY SelectType
  <2>2. /\ Joined(s, q) \in Seq(X) /\ Append(Joined(s, q), x) = Joined(s, Append(q, x))
        /\ Append(Joined(a, Select(q, S)), x) = Joined(a, Append(Select(q, S), x))
    BY <1>0, <2>1, JoinedLemma
  <2>3. Select(Append(Joined(s, q), x), S)
          = IF x \in S THEN Append(Select(Joined(s, q), S), x) ELSE Select(Joined(s, q), S)
    <3>1. Joined(s, q) \in Seq(X)
      BY <2>2
    <3> QED
      BY <3>1, SelectAppend
  <2>4. Select(Append(q, x), S) = IF x \in S THEN Append(Select(q, S), x) ELSE Select(q, S)
    BY <2>1, SelectAppend
  <2>5. Select(Joined(s, Append(q, x)), S) = Joined(a, Select(Append(q, x), S))
    BY <2>1, <2>2, <2>3, <2>4
  <2> QED
    BY <2>1, <2>5
<1>3. T = Seq(X)
  <2> HIDE DEF T
  <2>1. T \in SUBSET Seq(X)
    BY DEF T
  <2> QED
    BY <1>1, <1>2, <2>1, InductionOnSeq
<1> QED
  BY <1>3 DEF a

(* Keeping some of what is kept. *)
LEMMA SelectTwice ==
    ASSUME NEW X, NEW s \in Seq(X), NEW S, NEW R
    PROVE  Select(Select(s, S), R) = Select(s, S \cap R)
<1> DEFINE T == {q \in Seq(X) : Select(Select(q, S), R) = Select(q, S \cap R)}
<1>1. <<>> \in T
  BY SelectEmpty
<1>2. ASSUME NEW q \in T, NEW x \in X PROVE Append(q, x) \in T
  <2>1. Append(q, x) \in Seq(X) /\ Select(q, S) \in Seq(X)
    BY SelectType
  <2>2. Select(Select(q, S), R) = Select(q, S \cap R)
    OBVIOUS
  <2>3. Select(Append(q, x), S) = IF x \in S THEN Append(Select(q, S), x) ELSE Select(q, S)
    BY SelectAppend
  <2>4. Select(Append(q, x), S \cap R) = IF x \in S \cap R THEN Append(Select(q, S \cap R), x)
                                         ELSE Select(q, S \cap R)
    BY SelectAppend
  <2>5. Select(Append(Select(q, S), x), R) = IF x \in R THEN Append(Select(Select(q, S), R), x)
                                             ELSE Select(Select(q, S), R)
    BY <2>1, SelectAppend
  <2>6. Select(Select(Append(q, x), S), R) = Select(Append(q, x), S \cap R)
    <3>1. CASE x \in S /\ x \in R
      BY <2>2, <2>3, <2>4, <2>5, <3>1
    <3>2. CASE x \in S /\ x \notin R
      BY <2>2, <2>3, <2>4, <2>5, <3>2
    <3>3. CASE x \notin S
      BY <2>2, <2>3, <2>4, <3>3
    <3> QED
      BY <3>1, <3>2, <3>3
  <2> QED
    BY <2>1, <2>6
<1>3. T = Seq(X)
  <2> HIDE DEF T
  <2>1. T \in SUBSET Seq(X)
    BY DEF T
  <2> QED
    BY <1>1, <1>2, <2>1, InductionOnSeq
<1> QED
  BY <1>3

(* Only the items matter that there are. *)
LEMMA SelectSame ==
    ASSUME NEW X, NEW s \in Seq(X), NEW S, NEW R, ToSet(s) \cap S = ToSet(s) \cap R
    PROVE  Select(s, S) = Select(s, R)
<1> DEFINE Same(q) == ToSet(q) \cap S = ToSet(q) \cap R => Select(q, S) = Select(q, R)
           T == {q \in Seq(X) : Same(q)}
<1>1. <<>> \in T
  BY SelectEmpty
<1>2. ASSUME NEW q \in T, NEW x \in X PROVE Append(q, x) \in T
  <2>1. Append(q, x) \in Seq(X) /\ ToSet(Append(q, x)) = ToSet(q) \cup {x}
    BY Appended, ToSetAppend
  <2>2. Select(Append(q, x), S) = IF x \in S THEN Append(Select(q, S), x) ELSE Select(q, S)
    BY SelectAppend
  <2>3. Select(Append(q, x), R) = IF x \in R THEN Append(Select(q, R), x) ELSE Select(q, R)
    BY SelectAppend
  <2>4. Same(q)
    OBVIOUS
  <2> DEFINE t == Append(q, x)
  <2> HIDE DEF t
  <2>5. Same(t)
    <3> SUFFICES ASSUME ToSet(t) \cap S = ToSet(t) \cap R PROVE Select(t, S) = Select(t, R)
      OBVIOUS
    <3>1. ToSet(q) \cap S = ToSet(q) \cap R /\ (x \in S <=> x \in R)
      BY <2>1 DEF t
    <3> QED
      BY <2>2, <2>3, <2>4, <3>1 DEF t
  <2> QED
    BY <2>1, <2>5 DEF t
<1>3. T = Seq(X)
  <2> HIDE DEF T
  <2>1. T \in SUBSET Seq(X)
    BY DEF T
  <2> QED
    BY <1>1, <1>2, <2>1, InductionOnSeq
<1> QED
  BY <1>3

(* No item twice, if there was none. *)
LEMMA InjectiveAppend ==
    ASSUME NEW X, NEW s \in Seq(X), NEW x \in X
    PROVE  IsInjective(Append(s, x)) <=> IsInjective(s) /\ x \notin ToSet(s)
<1> DEFINE t == Append(s, x)
           m == Len(s)
<1>1. /\ DOMAIN t = 1..(m + 1) /\ DOMAIN s = 1..m /\ m \in Nat
      /\ t[m + 1] = x /\ \A n \in 1..m : t[n] = s[n]
  BY Appended
<1> HIDE DEF t, m
<1>2. IsInjective(t) => IsInjective(s) /\ x \notin ToSet(s)
  <2> SUFFICES ASSUME IsInjective(t) PROVE IsInjective(s) /\ x \notin ToSet(s)
    OBVIOUS
  <2>1. \A a, b \in DOMAIN t : t[a] = t[b] => a = b
    BY DEF IsInjective
  <2>2. \A n \in 1..m : n # m + 1 /\ n \in 1..(m + 1)
    BY <1>1
  <2>3. m + 1 \in 1..(m + 1)
    BY <1>1
  <2> QED
    BY <1>1, <2>1, <2>2, <2>3 DEF IsInjective, ToSet
<1>3. IsInjective(s) /\ x \notin ToSet(s) => IsInjective(t)
  <2> SUFFICES ASSUME IsInjective(s), x \notin ToSet(s), NEW a \in DOMAIN t, NEW b \in DOMAIN t, t[a] = t[b]
               PROVE  a = b
    BY DEF IsInjective
  <2>1. (a \in 1..m \/ a = m + 1) /\ (b \in 1..m \/ b = m + 1)
    BY <1>1
  <2>2. \A n \in 1..m : s[n] # x
    BY <1>1 DEF ToSet
  <2>3. \A c, d \in 1..m : s[c] = s[d] => c = d
    BY <1>1 DEF IsInjective
  <2> QED
    BY <1>1, <2>1, <2>2, <2>3
<1> QED
  BY <1>2, <1>3 DEF t

LEMMA SelectInjective ==
    ASSUME NEW X, NEW s \in Seq(X), NEW S, IsInjective(s)
    PROVE  IsInjective(Select(s, S))
<1> DEFINE T == {q \in Seq(X) : IsInjective(q) => IsInjective(Select(q, S))}
<1>1. <<>> \in T
  BY SelectEmpty
<1>2. ASSUME NEW q \in T, NEW x \in X PROVE Append(q, x) \in T
  <2>1. Append(q, x) \in Seq(X) /\ Select(q, S) \in Seq(X)
    BY SelectType
  <2>2. SUFFICES ASSUME IsInjective(Append(q, x)) PROVE IsInjective(Select(Append(q, x), S))
    BY <2>1
  <2>3. IsInjective(q) /\ x \notin ToSet(q)
    BY <2>2, InjectiveAppend
  <2>4. IsInjective(Select(q, S)) /\ x \notin ToSet(Select(q, S))
    BY <2>3, SelectElements
  <2>5. IsInjective(Append(Select(q, S), x))
    BY <2>1, <2>4, InjectiveAppend
  <2> QED
    BY <2>4, <2>5, SelectAppend
<1>3. T = Seq(X)
  <2> HIDE DEF T
  <2>1. T \in SUBSET Seq(X)
    BY DEF T
  <2> QED
    BY <1>1, <1>2, <2>1, InductionOnSeq
<1> QED
  BY <1>3

-----------------------------------------------------------------------------
(* What each step does to queues and orders *)

LEMMA KeyLemma ==
    /\ \A i \in DOMAIN Markets, o \in Outcomes : <<Markets[i], o>> \in Keys
    /\ \A k \in Keys : k[1] \in ToSet(Markets) /\ \A o \in Outcomes : <<k[1], o>> \in Keys
  BY DEF Keys, ToSet

LEMMA HeadLemma ==
    ASSUME NEW X, NEW q \in Seq(X), q # <<>>
    PROVE  /\ Head(q) = q[1] /\ Head(q) \in X /\ Tail(q) \in Seq(X) /\ Len(q) \in Nat \ {0}
           /\ DOMAIN q = 1..Len(q) /\ DOMAIN Tail(q) = 1..(Len(q) - 1)
           /\ \A n \in 1..(Len(q) - 1) : n + 1 \in 1..Len(q) /\ Tail(q)[n] = q[n + 1]
  OBVIOUS

LEMMA RunnerLemma ==
    ASSUME QueueTypes, NEW s \in Strategies, Evaluate(s)
    PROVE  /\ inbox' \in [Strategies -> Seq(Tag)]
           /\ signals' \in Seq([strategy : Strategies, key : Keys, upwards : BOOLEAN])
           /\ UNCHANGED <<current, quotes, proposals, executions, checker, orders>>
<1> DEFINE t == Head(inbox[s])
           R == [strategy : Strategies, key : Keys, upwards : BOOLEAN]
<1>1. inbox[s] \in Seq(Tag) /\ inbox[s] # <<>> /\ inbox' = [inbox EXCEPT ![s] = Tail(@)]
  BY DEF QueueTypes, Evaluate
<1>2. t \in Tag /\ Tail(inbox[s]) \in Seq(Tag)
  BY <1>1, HeadLemma
<1>3. inbox' \in [Strategies -> Seq(Tag)]
  BY <1>1, <1>2 DEF QueueTypes
<1>4. \A o \in Outcomes, u \in BOOLEAN : Signal(s, t.key[1], o, u) \in R
  BY <1>2, KeyLemma DEF Signal, Tag
<1>5. "UP" \in Outcomes /\ (2 * t.mid < Full) \in BOOLEAN /\ \A o \in Outcomes : (o = "UP") \in BOOLEAN
  BY DEF Outcomes
<1>6. \/ signals' = signals
      \/ \E o \in Outcomes, u \in BOOLEAN : signals' = Append(signals, Signal(s, t.key[1], o, u))
  BY <1>5 DEF Evaluate, Threshold_Evaluate, Reversion_Evaluate
<1> HIDE DEF t, R
<1>7. \A x \in R : Append(signals, x) \in Seq(R)
  BY DEF QueueTypes, R
<1>8. signals' \in Seq(R)
  BY <1>4, <1>6, <1>7 DEF QueueTypes, R
<1> QED
  BY <1>3, <1>8 DEF Evaluate, R

LEMMA PortfolioLemma ==
    ASSUME Types, ProcessSignal
    PROVE  /\ proposals' = proposals \/ \E b \in Buy : proposals' = Append(proposals, b)
           /\ signals' \in Seq([strategy : Strategies, key : Keys, upwards : BOOLEAN])
           /\ UNCHANGED <<current, quotes, inbox, executions, checker, orders>>
<1> DEFINE R == [strategy : Strategies, key : Keys, upwards : BOOLEAN]
           g == Head(signals)
           target == <<g.key[1], IF g.upwards THEN "UP" ELSE "DOWN">>
           n == Size(g.strategy, g.key)
           b == [side |-> "BUY", strategy |-> g.strategy, key |-> target, size |-> n, target |-> quotes[g.key]]
<1>1. signals \in Seq(R) /\ signals # <<>> /\ signals' = Tail(signals)
  BY DEF Types, QueueTypes, ProcessSignal
<1>2. g \in R /\ signals' \in Seq(R)
  <2> HIDE DEF R
  <2> QED
    BY <1>1, HeadLemma
<1>3. g.strategy \in Strategies /\ g.key \in Keys
  BY <1>2
<1>4. target \in Keys
  BY <1>3, KeyLemma DEF Outcomes
<1>5. n \in {0, 1}
  <2>1. position[g.key].size \in Nat
    BY <1>3 DEF Types, PositionTypes
  <2> QED
    BY <2>1 DEF Size, Exposure
<1>6. quotes[g.key] \in Nat
  BY <1>3, PositionsAssumption DEF Types, QueueTypes
<1>7. n > 0 => b \in Buy
  <2> HIDE DEF n, target
  <2> QED
    BY <1>3, <1>4, <1>5, <1>6 DEF Buy
<1>8. proposals' = proposals \/ (n > 0 /\ proposals' = Append(proposals, b))
  BY DEF ProcessSignal
<1> HIDE DEF b, n
<1> QED
  BY <1>2, <1>7, <1>8 DEF ProcessSignal

LEMMA RiskLemma ==
    ASSUME Types, Check
    PROVE  /\ proposals # <<>> /\ Head(proposals) \in Buy \cup Sell /\ proposals' = Tail(proposals)
           /\ \/ UNCHANGED <<orders, checker>>
              \/ /\ Allows(Head(proposals)) /\ UNCHANGED executed
                 /\ orders' = Append(orders, [intent |-> Head(proposals), state |-> "sent"])
                 /\ approved' = IF Head(proposals).side = "BUY"
                                  THEN approved \cup {<<Head(proposals).strategy, Head(proposals).key>>}
                                  ELSE approved
           /\ UNCHANGED <<current, quotes, inbox, runners, signals, executions>>
<1>1. proposals \in Seq(Buy \cup Sell) /\ proposals # <<>>
  BY DEF Types, QueueTypes, Check
<1>2. Head(proposals) \in Buy \cup Sell
  BY <1>1, HeadLemma
<1> QED
  BY <1>1, <1>2 DEF Check, Approve, checker

(* A reported BUY is still remembered, in one set or the other. *)
LEMMA RiskOrdersLemma ==
    ASSUME Types, TrackOrder
    PROVE  /\ approved \cup executed \subseteq approved' \cup executed'
           /\ approved' \subseteq approved /\ executed' \subseteq (Strategies \cup {"unknown"}) \X Keys
           /\ executions # <<>> /\ executions' = Tail(executions)
           /\ UNCHANGED <<current, quotes, inbox, runners, signals, proposals, orders>>
<1> DEFINE i == Head(executions)
           p == orders[i].intent
           key == IF i \in matching THEN <<p.strategy, p.key>> ELSE <<"unknown", p.key>>
<1>1. executions \in Seq(Nat) /\ executions # <<>>
  BY DEF Types, QueueTypes, TrackOrder
<1>2. i \in DOMAIN orders
  BY <1>1, HeadLemma DEF Types, QueueTypes
<1>3. p \in Buy \cup Sell
  <2> HIDE DEF i
  <2>1. orders[i] \in Order
    BY <1>2 DEF Types, QueueTypes
  <2> QED
    BY <2>1 DEF Order
<1>4. p.side = "BUY" => key \in (Strategies \cup {"unknown"}) \X Keys
  BY <1>3 DEF Buy, Sell
<1>5. \/ UNCHANGED checker
      \/ p.side = "BUY" /\ executed' = executed \cup {key} /\ approved' = approved \ {key}
  BY DEF TrackOrder
<1> HIDE DEF key, p, i
<1>6. executed \subseteq (Strategies \cup {"unknown"}) \X Keys
  BY DEF Types, QueueTypes
<1> QED
  BY <1>1, <1>4, <1>5, <1>6 DEF TrackOrder, checker

(* At most one sale is proposed, of a held position that has none. *)
LEMMA MarketDataLemma ==
    ASSUME Types, MarketData
    PROVE  /\ \/ UNCHANGED <<proposals, selling>>
              \/ \E k \in Keys : /\ IsHeld(k) /\ k \notin selling /\ SellIntent(k) \in Sell
                                 /\ proposals' = Append(proposals, SellIntent(k))
                                 /\ selling' = selling \cup {k}
           /\ ticks' \in Seq(Tag) /\ last' \in [Keys -> 0..Full]
           /\ UNCHANGED <<fills, changes, held, position, bought, owner, tracked, closed, attributed,
                          current, quotes, inbox, runners, signals, executions, checker, orders>>
<1> DEFINE t == Head(ticks)
<1>1. ticks \in Seq(Tag) /\ ticks # <<>> /\ ticks' = Tail(ticks) /\ proposals \in Seq(Buy \cup Sell)
  BY DEF Types, QueueTypes, MarketData, HandleMarketData
<1>2. t \in Tag /\ ticks' \in Seq(Tag)
  BY <1>1, HeadLemma
<1>3. t.key \in Keys /\ t.mid \in 1..Full
  BY <1>2 DEF Tag
<1>4. last' \in [Keys -> 0..Full]
  <2>1. last' = [last EXCEPT ![t.key] = t.mid] /\ last \in [Keys -> 0..Full]
    BY DEF MarketData, HandleMarketData, Types, PositionTypes
  <2>2. t.mid \in 0..Full
    BY <1>3, PositionsAssumption
  <2> QED
    BY <2>1, <2>2
<1>5. selling' = selling \cup {o.key : o \in ToSet(Offered(t))} /\ proposals' = proposals \o Offered(t)
  BY DEF MarketData, HandleMarketData
<1> HIDE DEF t
<1>6. CASE Proposes(t)
  <2> DEFINE x == SellIntent(t.key)
  <2>1. IsHeld(t.key) /\ t.key \notin selling
    BY <1>6 DEF Proposes
  <2>2. position[t.key] \in [size : Nat, target : Nat] /\ position[t.key].size > 0
    BY <1>3, <2>1 DEF Types, PositionTypes
  <2>3. x \in Sell /\ x.key = t.key
    BY <1>3, <2>2 DEF SellIntent, Sell
  <2> HIDE DEF x
  <2>4. Offered(t) = <<x>>
    BY <1>6 DEF Offered, x
  <2>5. ToSet(<<x>>) = {x}
    BY DEF ToSet
  <2>6. proposals \o <<x>> = Append(proposals, x)
    BY <1>1, <2>3
  <2>7. selling' = selling \cup {t.key}
    BY <1>5, <2>3, <2>4, <2>5
  <2> QED
    BY <1>2, <1>3, <1>4, <1>5, <2>1, <2>3, <2>4, <2>6, <2>7 DEF MarketData, HandleMarketData, PathKept, x
<1>7. CASE ~Proposes(t)
  <2>1. Offered(t) = <<>>
    BY <1>7 DEF Offered
  <2>2. proposals' = proposals /\ selling' = selling
    BY <1>1, <1>5, <2>1, ToSetEmpty
  <2> QED
    BY <1>2, <1>4, <2>2 DEF MarketData, HandleMarketData, PathKept
<1> QED
  BY <1>6, <1>7

-----------------------------------------------------------------------------
(* The logs of what was closed, key by key *)

OfTheKey(k) == {c \in Close : c.key = k}

LEMMA OfKeyLemma ==
    ASSUME NEW log \in Seq(Close), NEW k
    PROVE  OfKey(log, k) = Select(log, OfTheKey(k)) /\ OfKey(log, k) \in Seq(Close)
<1>1. ToSet(log) \subseteq Close
  BY DEF ToSet
<1>2. ToSet(log) \cap {c \in ToSet(log) : c.key = k} = ToSet(log) \cap OfTheKey(k)
  BY <1>1 DEF OfTheKey
<1> QED
  BY <1>2, SelectSame, SelectType DEF OfKey

LEMMA OfKeyAppend ==
    ASSUME NEW log \in Seq(Close), NEW c \in Close, NEW k
    PROVE  OfKey(Append(log, c), k) = IF c.key = k THEN Append(OfKey(log, k), c) ELSE OfKey(log, k)
<1>1. Append(log, c) \in Seq(Close)
  BY Appended
<1>2. c \in OfTheKey(k) <=> c.key = k
  BY DEF OfTheKey
<1>3. OfKey(Append(log, c), k) = Select(Append(log, c), OfTheKey(k))
  BY <1>1, OfKeyLemma
<1>4. OfKey(log, k) = Select(log, OfTheKey(k))
  BY OfKeyLemma
<1>5. Select(Append(log, c), OfTheKey(k))
        = IF c \in OfTheKey(k) THEN Append(Select(log, OfTheKey(k)), c) ELSE Select(log, OfTheKey(k))
  BY SelectAppend
<1> QED
  BY <1>2, <1>3, <1>4, <1>5

LEMMA OfKeyJoined ==
    ASSUME NEW log \in Seq(Close), NEW new \in Seq(Close), NEW k
    PROVE  OfKey(Joined(log, new), k) = Joined(OfKey(log, k), OfKey(new, k))
<1>1. Joined(log, new) \in Seq(Close)
  BY DEF Joined
<1> QED
  BY <1>1, OfKeyLemma, SelectJoined

-----------------------------------------------------------------------------
(* What a fill and the end of a market do to the positions *)

LEMMA FillsLemma ==
    ASSUME Types, Fills
    PROVE  /\ fills # <<>> /\ Head(fills) \in Buy \cup Sell /\ fills' = Tail(fills)
           /\ \/ Head(fills) \in Buy /\ BuyFill(Head(fills))
              \/ Head(fills) \in Sell /\ SellFill(Head(fills))
           /\ UNCHANGED <<ticks, changes, last, current, quotes, inbox, runners, signals, proposals,
                          executions, checker, orders, nticks>>
<1>1. fills \in Seq(Buy \cup Sell) /\ fills # <<>>
  BY DEF Types, QueueTypes, Fills, HandleFill
<1>2. Head(fills) \in Buy \cup Sell
  BY <1>1, HeadLemma
<1>3. /\ Head(fills) \in Buy => Head(fills).side = "BUY"
      /\ Head(fills) \in Sell => Head(fills).side = "SELL"
  BY DEF Buy, Sell
<1> QED
  BY <1>1, <1>2, <1>3 DEF Fills, HandleFill, PathKept, BuyFill, SellFill

LEMMA BuyTypes ==
    ASSUME Types, NEW f \in Buy, BuyFill(f)
    PROVE  PositionTypes'
<1>1. f.key \in Keys /\ f.strategy \in Strategies /\ f.size = 1 /\ f.target \in Nat
  BY DEF Buy
<1> DEFINE n == bought[f.key] + f.size
<1>2. n \in Nat /\ n > 0
  BY <1>1 DEF Types, PositionTypes
<1>3. Target(f.key, f) \in Nat
  BY <1>1 DEF Target, Types, PositionTypes
<1>4. /\ held' \in Seq(Keys) /\ IsInjective(held') /\ ToSet(held') = ToSet(held) \cup {f.key}
  <2>1. held \in Seq(Keys) /\ IsInjective(held)
    BY DEF Types, PositionTypes
  <2>2. CASE IsHeld(f.key)
    BY <2>1, <2>2 DEF BuyFill, IsHeld
  <2>3. CASE ~IsHeld(f.key)
    <3>1. held' = Append(held, f.key)
      BY <2>3 DEF BuyFill
    <3> QED
      BY <1>1, <2>1, <2>3, <3>1, InjectiveAppend, ToSetAppend, Appended DEF IsHeld
  <2> QED
    BY <2>2, <2>3
<1>5. position' = [position EXCEPT ![f.key] = [size |-> n, target |-> Target(f.key, f)]]
  BY DEF BuyFill
<1> HIDE DEF n
<1>6. position' \in [Keys -> [size : Nat, target : Nat]]
  BY <1>2, <1>3, <1>5 DEF Types, PositionTypes
<1>7. \A k \in Keys : IsHeld(k)' <=> position'[k].size > 0
  <2> SUFFICES ASSUME NEW k \in Keys PROVE k \in ToSet(held') <=> position'[k].size > 0
    BY DEF IsHeld
  <2>1. CASE k = f.key
    BY <1>2, <1>4, <1>5, <2>1 DEF Types, PositionTypes
  <2>2. CASE k # f.key
    <3>1. position'[k] = position[k] /\ (k \in ToSet(held) <=> position[k].size > 0)
      BY <1>5, <2>2 DEF Types, PositionTypes, IsHeld
    <3> QED
      BY <1>4, <2>2, <3>1
  <2> QED
    BY <2>1, <2>2
<1>8. /\ bought' \in [Keys -> Nat] /\ owner' \in [Keys -> Strategies \cup {"none"}]
      /\ UNCHANGED <<last, selling, closed, attributed>>
  BY <1>1, <1>2 DEF BuyFill, Types, PositionTypes, n
<1>9. tracked' \in [Strategies -> [Keys -> Nat]]
  <2>1. tracked[f.strategy] \in [Keys -> Nat]
    BY <1>1 DEF Types, PositionTypes
  <2>2. [tracked[f.strategy] EXCEPT ![f.key] = @ + f.size] \in [Keys -> Nat]
    BY <1>1, <2>1
  <2> QED
    BY <2>2 DEF BuyFill, Types, PositionTypes
<1> QED
  BY <1>4, <1>6, <1>7, <1>8, <1>9 DEF Types, PositionTypes

LEMMA AttributeTypes ==
    ASSUME Types, NEW f \in Sell, Attribute(Closer(f), f.key, "sold")
    PROVE  tracked' \in [Strategies -> [Keys -> Nat]] /\ attributed' \in Seq(Close)
<1> DEFINE s == Closer(f)
<1>1. f.key \in Keys
  BY DEF Sell
<1>2. CASE s \in Strategies /\ tracked[s][f.key] > 0
  <2> DEFINE c == Closing(s, f.key, tracked[s][f.key], "sold")
  <2>1. tracked[s] \in [Keys -> Nat]
    BY <1>2 DEF Types, PositionTypes
  <2>2. c \in Close
    BY <1>1, <1>2, <2>1 DEF Closing, Close
  <2>3. attributed' = Append(attributed, c) /\ tracked' = [tracked EXCEPT ![s][f.key] = 0]
    BY <1>2 DEF Attribute
  <2>4. [tracked[s] EXCEPT ![f.key] = 0] \in [Keys -> Nat]
    BY <2>1
  <2> HIDE DEF c, s
  <2> QED
    BY <1>2, <2>2, <2>3, <2>4, Appended DEF Types, PositionTypes
<1>3. CASE ~(s \in Strategies /\ tracked[s][f.key] > 0)
  BY <1>3 DEF Attribute, Types, PositionTypes
<1> QED
  BY <1>2, <1>3

(* A position is forgotten. *)
LEMMA ForgetLemma ==
    ASSUME Types, NEW k \in Keys, Forget(k)
    PROVE  /\ held' \in Seq(Keys) /\ IsInjective(held') /\ ToSet(held') = ToSet(held) \ {k}
           /\ position' = [position EXCEPT ![k] = NoPosition]
           /\ bought' = [bought EXCEPT ![k] = 0] /\ owner' = [owner EXCEPT ![k] = "none"]
<1>1. held \in Seq(Keys) /\ IsInjective(held)
  BY DEF Types, PositionTypes
<1>2. ToSet(held) \subseteq Keys
  BY <1>1 DEF ToSet
<1>3. held' = Select(held, Keys \ {k})
  BY DEF Forget
<1>4. ToSet(held') = ToSet(held) \cap (Keys \ {k}) /\ held' \in Seq(Keys) /\ IsInjective(held')
  BY <1>1, <1>3, SelectElements, SelectInjective, SelectType
<1> QED
  BY <1>2, <1>4 DEF Forget

LEMMA SellTypes ==
    ASSUME Types, NEW f \in Sell, SellFill(f)
    PROVE  PositionTypes'
<1> DEFINE k == f.key
<1>1. k \in Keys /\ f.size \in Nat \ {0}
  BY DEF Sell
<1>2. tracked' \in [Strategies -> [Keys -> Nat]] /\ attributed' \in Seq(Close) /\ last' = last
  BY AttributeTypes DEF SellFill
<1>3. CASE ~IsHeld(k) /\ UNCHANGED <<held, position, bought, owner, selling, closed>>
  BY <1>2, <1>3 DEF Types, PositionTypes, IsHeld
<1>4. CASE /\ IsHeld(k) /\ ~Exhausts(f) /\ position' = [position EXCEPT ![k].size = @ - f.size]
           /\ UNCHANGED <<held, bought, owner, selling, closed>>
  <2>1. position[k] \in [size : Nat, target : Nat] /\ ~(f.size >= position[k].size)
    BY <1>1, <1>4 DEF Types, PositionTypes, Exhausts
  <2> DEFINE p == [position[k] EXCEPT !.size = @ - f.size]
  <2>2. p \in [size : Nat, target : Nat] /\ p.size > 0
    BY <1>1, <2>1
  <2>3. position' = [position EXCEPT ![k] = p]
    BY <1>4
  <2> HIDE DEF p, k
  <2>4. position' \in [Keys -> [size : Nat, target : Nat]] /\ \A x \in Keys : IsHeld(x) <=> position'[x].size > 0
    BY <1>1, <1>4, <2>2, <2>3 DEF Types, PositionTypes
  <2> QED
    BY <1>2, <1>4, <2>4 DEF Types, PositionTypes, IsHeld
<1>5. CASE /\ IsHeld(k) /\ Exhausts(f) /\ closed' = Append(closed, Closing(owner[k], k, position[k].size, "sold"))
           /\ Forget(k) /\ selling' = selling \ {k}
  <2> DEFINE c == Closing(owner[k], k, position[k].size, "sold")
  <2>1. owner[k] \in Strategies \cup {"none"} /\ position[k].size \in Nat
    BY <1>1 DEF Types, PositionTypes
  <2>2. c \in Close
    BY <1>1, <2>1 DEF Closing, Close
  <2> HIDE DEF c
  <2>3. closed' \in Seq(Close)
    BY <1>5, <2>2, Appended DEF Types, PositionTypes, c
  <2> HIDE DEF k
  <2>4. NoPosition \in [size : Nat, target : Nat] /\ NoPosition.size = 0
    BY DEF NoPosition
  <2>5. /\ held' \in Seq(Keys) /\ IsInjective(held') /\ ToSet(held') = ToSet(held) \ {k}
        /\ position' = [position EXCEPT ![k] = NoPosition]
        /\ bought' = [bought EXCEPT ![k] = 0] /\ owner' = [owner EXCEPT ![k] = "none"]
    BY <1>1, <1>5, ForgetLemma
  <2>6. \A x \in Keys : x \in ToSet(held') <=> position'[x].size > 0
    BY <2>4, <2>5 DEF Types, PositionTypes, IsHeld
  <2> QED
    BY <1>1, <1>2, <1>5, <2>3, <2>4, <2>5, <2>6 DEF Types, PositionTypes, IsHeld
<1> QED
  BY <1>3, <1>4, <1>5 DEF SellFill

(* The positions of the market that has expired, and what is recorded.     *)
Open    == Select(held, {Head(changes)} \X Outcomes)
Gone    == ToSet(Open)
Exit(i) == Settlement(last[Open[i]], IF i = 1 THEN last[Other(Open[i])] ELSE 0)
Record(i) == Closing(owner[Open[i]], Open[i], position[Open[i]].size, Exit(i))
Settled == [i \in DOMAIN Open |-> Record(i)]
Attributable == {c \in ToSet(Settled) : c.strategy # "none" /\ tracked[c.strategy][c.key] > 0}

LEMMA OpenLemma ==
    ASSUME Types
    PROVE  /\ Open \in Seq(Keys) /\ IsInjective(Open) /\ Gone \subseteq Keys
           /\ Gone = ToSet(held) \cap ({Head(changes)} \X Outcomes)
<1>1. held \in Seq(Keys) /\ IsInjective(held)
  BY DEF Types, PositionTypes
<1>2. Open \in Seq(Keys) /\ IsInjective(Open) /\ Gone = ToSet(held) \cap ({Head(changes)} \X Outcomes)
  BY <1>1, SelectType, SelectInjective, SelectElements DEF Open, Gone
<1>3. Gone \subseteq Keys
  BY <1>2 DEF Gone, ToSet
<1> QED
  BY <1>2, <1>3

LEMMA RecordLemma ==
    ASSUME Types, NEW i \in DOMAIN Open
    PROVE  /\ Record(i) \in Close /\ Open[i] \in Keys /\ Record(i).key = Open[i]
           /\ Record(i).strategy = owner[Open[i]] /\ Record(i).size = position[Open[i]].size
           /\ Record(i).exit = Exit(i)
<1>1. Open[i] \in Keys
  BY OpenLemma
<1>2. owner[Open[i]] \in Strategies \cup {"none"} /\ position[Open[i]].size \in Nat
  BY <1>1 DEF Types, PositionTypes
<1>3. Exit(i) \in {"won", "lost", "even", "entry"}
  BY DEF Exit, Settlement, Threshold
<1> QED
  BY <1>1, <1>2, <1>3 DEF Record, Closing, Close

LEMMA SettledLemma ==
    ASSUME Types
    PROVE  /\ Settled \in Seq(Close) /\ DOMAIN Settled = DOMAIN Open
           /\ \A i \in DOMAIN Open : Settled[i] = Record(i)
<1>1. Open \in Seq(Keys) /\ DOMAIN Open = 1..Len(Open) /\ Len(Open) \in Nat
  BY OpenLemma
<1>2. Settled = [i \in 1..Len(Open) |-> Record(i)] /\ \A i \in 1..Len(Open) : Record(i) \in Close
  BY <1>1, RecordLemma DEF Settled
<1> HIDE DEF Settled
<1>3. Settled \in [1..Len(Open) -> Close]
  BY <1>2
<1>4. Settled \in Seq(Close)
  BY <1>1, <1>3
<1> QED
  BY <1>1, <1>2, <1>4

(* A position of the expired market is recorded once, any other is not.    *)
LEMMA SettledOnce ==
    ASSUME Types, NEW j \in DOMAIN Open
    PROVE  /\ OfKey(Settled, Open[j]) = <<Record(j)>>
           /\ OfKey(Select(Settled, Attributable), Open[j])
                 = IF Record(j) \in Attributable THEN <<Record(j)>> ELSE <<>>
<1> DEFINE k == Open[j]
           S == OfTheKey(k)
           A == Attributable
           log == Select(Settled, Attributable)
<1>1. Settled \in Seq(Close) /\ DOMAIN Settled = DOMAIN Open /\ \A i \in DOMAIN Open : Settled[i] = Record(i)
  BY SettledLemma
<1>2. \A i \in DOMAIN Settled : Settled[i] \in S <=> i = j
  <2> SUFFICES ASSUME NEW i \in DOMAIN Open PROVE Record(i) \in S <=> i = j
    BY <1>1
  <2>1. Record(i) \in S <=> Open[i] = Open[j]
    BY RecordLemma DEF OfTheKey
  <2>2. Open[i] = Open[j] <=> i = j
    BY OpenLemma DEF IsInjective
  <2> QED
    BY <2>1, <2>2
<1>3. Settled[j] = Record(j) /\ j \in DOMAIN Settled
  BY <1>1
<1>4. OfKey(Settled, k) = Select(Settled, S)
  BY <1>1, OfKeyLemma
<1>5. log \in Seq(Close)
  BY <1>1, SelectType
<1>6. OfKey(log, k) = Select(log, S)
  BY <1>5, OfKeyLemma
<1>7. log = Select(Settled, A)
  OBVIOUS
<1> HIDE DEF S, A, k, log
<1>8. Select(Settled, S) = <<Settled[j]>>
  BY <1>1, <1>2, <1>3, SelectOne
<1>9. Select(log, S) = Select(Settled, A \cap S)
  BY <1>1, <1>7, SelectTwice
<1>10. CASE Record(j) \in A
  <2>1. \A i \in DOMAIN Settled : Settled[i] \in A \cap S <=> i = j
    BY <1>2, <1>3, <1>10
  <2>2. Select(Settled, A \cap S) = <<Settled[j]>>
    BY <1>1, <1>3, <2>1, SelectOne
  <2> QED
    BY <1>3, <1>4, <1>6, <1>8, <1>9, <1>10, <2>2 DEF k, A, log
<1>11. CASE Record(j) \notin A
  <2>1. \A i \in DOMAIN Settled : Settled[i] \notin A \cap S
    BY <1>2, <1>3, <1>11
  <2>2. ToSet(Settled) \cap (A \cap S) = {}
    BY <2>1 DEF ToSet
  <2>3. Select(Settled, A \cap S) = <<>>
    BY <1>1, <2>2, SelectNothing
  <2> QED
    BY <1>3, <1>4, <1>6, <1>8, <1>9, <1>11, <2>3 DEF k, A, log
<1> QED
  BY <1>10, <1>11

LEMMA SettledNot ==
    ASSUME Types, NEW k \in Keys \ Gone
    PROVE  OfKey(Settled, k) = <<>> /\ OfKey(Select(Settled, Attributable), k) = <<>>
<1> DEFINE log == Select(Settled, Attributable)
           S == OfTheKey(k)
<1>1. Settled \in Seq(Close) /\ DOMAIN Settled = DOMAIN Open /\ \A i \in DOMAIN Open : Settled[i] = Record(i)
  BY SettledLemma
<1>2. log \in Seq(Close) /\ ToSet(log) \subseteq ToSet(Settled)
  BY <1>1, SelectType, SelectElements
<1>3. \A i \in DOMAIN Settled : Settled[i] \notin S
  BY <1>1, RecordLemma DEF OfTheKey, Gone, ToSet
<1>4. ToSet(Settled) \cap S = {}
  BY <1>3 DEF ToSet
<1>5. OfKey(Settled, k) = Select(Settled, S) /\ OfKey(log, k) = Select(log, S)
  BY <1>1, <1>2, OfKeyLemma
<1> HIDE DEF S, log
<1>6. ToSet(log) \cap S = {}
  BY <1>2, <1>4
<1>7. Select(Settled, S) = <<>> /\ Select(log, S) = <<>>
  BY <1>1, <1>2, <1>4, <1>6, SelectNothing
<1> QED
  BY <1>5, <1>7 DEF log

LEMMA SettleLemma ==
    ASSUME Types, Settle
    PROVE  /\ changes # <<>> /\ changes' = Tail(changes) /\ changes' \in Seq(ToSet(Markets))
           /\ closed' = Joined(closed, Settled)
           /\ attributed' = Joined(attributed, Select(Settled, Attributable))
           /\ held' \in Seq(Keys) /\ IsInjective(held') /\ ToSet(held') = ToSet(held) \ Gone
           /\ tracked' = [s \in Strategies |-> [k \in Keys |->
                            IF k \in Gone /\ owner[k] = s THEN 0 ELSE tracked[s][k]]]
           /\ position' = [k \in Keys |-> IF k \in Gone THEN NoPosition ELSE position[k]]
           /\ bought' = [k \in Keys |-> IF k \in Gone THEN 0 ELSE bought[k]]
           /\ last' = [k \in Keys |-> IF k \in Gone THEN 0 ELSE last[k]]
           /\ owner' = [k \in Keys |-> IF k \in Gone THEN "none" ELSE owner[k]]
           /\ UNCHANGED <<fills, ticks, selling, current, quotes, inbox, runners, signals, proposals,
                          executions, checker, orders, nticks>>
<1>1. changes # <<>> /\ changes' = Tail(changes) /\ changes \in Seq(ToSet(Markets))
  BY DEF Settle, HandleMarketChange, Types, QueueTypes
<1>2. changes' \in Seq(ToSet(Markets))
  BY <1>1, HeadLemma
<1>3. held' = Select(held, Keys \ Gone)
  BY DEF Settle, HandleMarketChange, Gone, Open
<1>4. held \in Seq(Keys) /\ IsInjective(held) /\ ToSet(held) \subseteq Keys
  BY DEF Types, PositionTypes, ToSet
<1>5. held' \in Seq(Keys) /\ IsInjective(held') /\ ToSet(held') = ToSet(held) \cap (Keys \ Gone)
  BY <1>3, <1>4, SelectElements, SelectInjective, SelectType
<1>6. closed' = Joined(closed, Settled)
  BY DEF Settle, HandleMarketChange, Settled, Record, Exit, Open, Joined
<1>7. attributed' = Joined(attributed, Select(Settled, Attributable))
  BY DEF Settle, HandleMarketChange, Settled, Record, Exit, Open, Attributable, Joined
<1> QED
  BY <1>1, <1>2, <1>4, <1>5, <1>6, <1>7 DEF Settle, HandleMarketChange, PathKept, Gone, Open

LEMMA SettleTypes ==
    ASSUME Types, Settle
    PROVE  PositionTypes'
<1>1. closed \in Seq(Close) /\ attributed \in Seq(Close) /\ Settled \in Seq(Close)
  BY SettledLemma DEF Types, PositionTypes
<1>2. Select(Settled, Attributable) \in Seq(Close)
  BY <1>1, SelectType
<1>3. closed' \in Seq(Close) /\ attributed' \in Seq(Close)
  BY <1>1, <1>2, SettleLemma, JoinedType
<1>4. NoPosition \in [size : Nat, target : Nat] /\ NoPosition.size = 0
  BY DEF NoPosition
<1>5. position' \in [Keys -> [size : Nat, target : Nat]]
  BY <1>4, SettleLemma DEF Types, PositionTypes
<1>6. \A k \in Keys : k \in ToSet(held') <=> position'[k].size > 0
  <2> SUFFICES ASSUME NEW k \in Keys PROVE k \in ToSet(held') <=> position'[k].size > 0
    OBVIOUS
  <2>1. k \in ToSet(held) <=> position[k].size > 0
    BY DEF Types, PositionTypes, IsHeld
  <2>2. position'[k] = IF k \in Gone THEN NoPosition ELSE position[k]
    BY SettleLemma
  <2>3. ToSet(held') = ToSet(held) \ Gone
    BY SettleLemma
  <2> QED
    BY <1>4, <2>1, <2>2, <2>3
<1>7. bought' \in [Keys -> Nat] /\ last' \in [Keys -> 0..Full] /\ owner' \in [Keys -> Strategies \cup {"none"}]
  <2>1. bought \in [Keys -> Nat] /\ last \in [Keys -> 0..Full] /\ owner \in [Keys -> Strategies \cup {"none"}]
    BY DEF Types, PositionTypes
  <2>2. 0 \in 0..Full
    BY PositionsAssumption
  <2>3. bought' \in [Keys -> Nat]
    <3>1. bought' = [k \in Keys |-> IF k \in Gone THEN 0 ELSE bought[k]]
      BY SettleLemma
    <3> QED
      BY <2>1, <3>1
  <2>4. last' \in [Keys -> 0..Full]
    BY <2>1, <2>2, SettleLemma
  <2>5. owner' \in [Keys -> Strategies \cup {"none"}]
    BY <2>1, SettleLemma
  <2> QED
    BY <2>3, <2>4, <2>5
<1>8. tracked' \in [Strategies -> [Keys -> Nat]]
  BY SettleLemma DEF Types, PositionTypes
<1>9. held' \in Seq(Keys) /\ IsInjective(held') /\ selling' \subseteq Keys
  BY SettleLemma DEF Types, PositionTypes
<1> QED
  BY <1>3, <1>5, <1>6, <1>7, <1>8, <1>9 DEF PositionTypes, IsHeld

-----------------------------------------------------------------------------
(* Types *)

LEMMA PositionStep ==
    ASSUME Types, Next
    PROVE  PositionTypes'
<1>1. CASE UNCHANGED ppm
  BY <1>1 DEF ppm, Types, PositionTypes, IsHeld
<1>2. CASE Fills
  BY <1>2, FillsLemma, BuyTypes, SellTypes
<1>3. CASE MarketData
  <2>1. /\ selling' \subseteq Keys /\ last' \in [Keys -> 0..Full]
        /\ UNCHANGED <<held, position, bought, owner, tracked, closed, attributed>>
    BY <1>3, MarketDataLemma DEF Types, PositionTypes
  <2> QED
    BY <2>1 DEF Types, PositionTypes, IsHeld
<1>4. CASE Settle
  BY <1>4, SettleTypes
<1> QED
  BY <1>1, <1>2, <1>3, <1>4 DEF Next, Tick, Expire, Fill, Runner, Portfolio, Risk, RiskOrders

LEMMA FillLemma ==
    ASSUME Types, NEW i \in DOMAIN orders, Fill(i)
    PROVE  /\ orders[i] \in Order /\ orders[i].intent \in Buy \cup Sell
           /\ orders[i].state = "sent" /\ DOMAIN orders' = DOMAIN orders
           /\ orders' \in Seq(Order) /\ orders'[i].state = "filled" /\ orders'[i].intent = orders[i].intent
           /\ \A j \in DOMAIN orders : j # i => orders'[j] = orders[j]
           /\ fills' = Append(fills, orders[i].intent)
           /\ executions' \in Seq(Nat) /\ \A n \in DOMAIN executions' : executions'[n] \in DOMAIN orders
           /\ UNCHANGED <<current, quotes, inbox, runners, signals, proposals, checker,
                          ticks, changes, ppm, nticks>>
<1>1. orders \in Seq(Order) /\ orders' = [orders EXCEPT ![i].state = "filled"]
  BY DEF Types, QueueTypes, Fill
<1>2. orders[i] \in Order
  BY <1>1
<1> DEFINE o == [orders[i] EXCEPT !.state = "filled"]
<1>3. o \in Order /\ o.state = "filled" /\ o.intent = orders[i].intent /\ o.intent \in Buy \cup Sell
  BY <1>2 DEF Order
<1>4. orders' = [orders EXCEPT ![i] = o]
  BY <1>1
<1> HIDE DEF o
<1>5. /\ orders' \in Seq(Order) /\ DOMAIN orders' = DOMAIN orders /\ orders'[i] = o
      /\ \A j \in DOMAIN orders : j # i => orders'[j] = orders[j]
  BY <1>1, <1>3, <1>4
<1>6. executions' \in Seq(Nat) /\ \A n \in DOMAIN executions' : executions'[n] \in DOMAIN orders
  <2>1. executions \in Seq(Nat) /\ (\A n \in DOMAIN executions : executions[n] \in DOMAIN orders) /\ i \in Nat
    BY <1>1 DEF Types, QueueTypes
  <2>2. CASE executions' = Append(executions, i)
    <3>1. /\ Append(executions, i) \in Seq(Nat) /\ DOMAIN executions = 1..Len(executions)
          /\ DOMAIN Append(executions, i) = 1..(Len(executions) + 1) /\ Len(executions) \in Nat
          /\ \A n \in 1..Len(executions) : Append(executions, i)[n] = executions[n]
          /\ Append(executions, i)[Len(executions) + 1] = i
      BY <2>1, Appended
    <3>2. \A n \in 1..(Len(executions) + 1) : n \in 1..Len(executions) \/ n = Len(executions) + 1
      BY <3>1
    <3> QED
      BY <2>1, <2>2, <3>1, <3>2
  <2>3. CASE executions' = executions
    BY <2>1, <2>3
  <2> QED
    BY <2>2, <2>3 DEF Fill
<1>7. orders[i].intent \in Buy \cup Sell
  BY <1>3
<1> QED
  BY <1>2, <1>3, <1>5, <1>6, <1>7 DEF Fill

LEMMA TickTypes ==
    ASSUME QueueTypes, NEW k \in Keys, NEW mid \in 1..Full, Tick(k, mid)
    PROVE  QueueTypes'
<1> DEFINE t == [key |-> k, mid |-> mid]
<1>1. t \in Tag
  BY DEF Tag
<1> HIDE DEF t
<1>2. ticks' = Append(ticks, t) /\ inbox' = [s \in Strategies |-> Append(inbox[s], t)]
  BY DEF Tick, t
<1>3. ticks' \in Seq(Tag)
  BY <1>1, <1>2, Appended DEF QueueTypes
<1>4. \A s \in Strategies : Append(inbox[s], t) \in Seq(Tag)
  BY <1>1, Appended DEF QueueTypes
<1>5. inbox' \in [Strategies -> Seq(Tag)]
  BY <1>2, <1>4
<1>6. quotes' \in [Keys -> 0..Full]
  <2>1. mid \in 0..Full /\ quotes \in [Keys -> 0..Full] /\ quotes' = [quotes EXCEPT ![k] = mid]
    BY PositionsAssumption DEF QueueTypes, Tick
  <2> QED
    BY <2>1
<1> QED
  BY <1>3, <1>5, <1>6 DEF QueueTypes, Tick, checker

LEMMA IntentQueue ==
    ASSUME NEW q \in Seq(Buy \cup Sell), NEW r,
           r = q \/ (q # <<>> /\ r = Tail(q)) \/ \E p \in Buy \cup Sell : r = Append(q, p)
    PROVE  r \in Seq(Buy \cup Sell)
<1> DEFINE X == Buy \cup Sell
<1>1. q \in Seq(X) /\ (r = q \/ (q # <<>> /\ r = Tail(q)) \/ \E p \in X : r = Append(q, p))
  OBVIOUS
<1> HIDE DEF X
<1>2. r \in Seq(X)
  BY <1>1, HeadLemma, Appended
<1> QED
  BY <1>2 DEF X

LEMMA QueueStep ==
    ASSUME Types, Next
    PROVE  QueueTypes'
<1> USE DEF Types
<1>0. fills \in Seq(Buy \cup Sell) /\ proposals \in Seq(Buy \cup Sell)
  BY DEF QueueTypes
<1>1. ASSUME NEW q \in Polls, Tick(<<Markets[current], q[1]>>, q[2]) PROVE QueueTypes'
  <2>1. q[1] \in Outcomes /\ q[2] \in 1..Full
    BY LoopAssumption
  <2>2. <<Markets[current], q[1]>> \in Keys
    BY <2>1, KeyLemma DEF QueueTypes
  <2> QED
    BY <1>1, <2>1, <2>2, TickTypes
<1>2. CASE Expire
  <2>1. Markets \in Seq(ToSet(Markets)) /\ current \in DOMAIN Markets /\ current < Len(Markets)
    BY <1>2, PositionsAssumption DEF QueueTypes, Expire
  <2>2. Markets[current] \in ToSet(Markets) /\ current + 1 \in DOMAIN Markets
    BY <2>1
  <2>3. changes' \in Seq(ToSet(Markets)) /\ current' \in DOMAIN Markets
    BY <1>2, <2>2, Appended DEF QueueTypes, Expire
  <2> QED
    BY <1>2, <2>3 DEF QueueTypes, Expire, checker
<1>3. ASSUME NEW i \in DOMAIN orders, Fill(i) PROVE QueueTypes'
  <2>1. fills' \in Seq(Buy \cup Sell)
    <3>1. \E p \in Buy \cup Sell : fills' = Append(fills, p)
      BY <1>3, FillLemma
    <3> QED
      BY <1>0, <3>1, IntentQueue
  <2> QED
    BY <1>3, <2>1, FillLemma DEF QueueTypes, checker
<1>4. ASSUME NEW s \in Strategies, Runner(s) PROVE QueueTypes'
  BY <1>4, RunnerLemma DEF Runner, QueueTypes, queues, checker
<1>5. CASE Portfolio
  <2>1. proposals' \in Seq(Buy \cup Sell)
    <3>1. proposals' = proposals \/ \E p \in Buy \cup Sell : proposals' = Append(proposals, p)
      BY <1>5, PortfolioLemma DEF Portfolio
    <3> QED
      BY <1>0, <3>1, IntentQueue
  <2> QED
    BY <1>5, <2>1, PortfolioLemma DEF Portfolio, QueueTypes, queues, checker
<1>6. CASE Risk
  <2>1. proposals' \in Seq(Buy \cup Sell)
    <3>1. proposals # <<>> /\ proposals' = Tail(proposals)
      BY <1>6, RiskLemma DEF Risk
    <3> QED
      BY <1>0, <3>1, IntentQueue
  <2>2. CASE UNCHANGED <<orders, checker>>
    BY <1>6, <2>1, <2>2, RiskLemma DEF Risk, QueueTypes, queues, checker
  <2>3. CASE ~UNCHANGED <<orders, checker>>
    <3> DEFINE o == [intent |-> Head(proposals), state |-> "sent"]
    <3>1. o \in Order /\ orders' = Append(orders, o) /\ UNCHANGED executed
      BY <1>6, <2>3, RiskLemma DEF Risk, Order
    <3> HIDE DEF o
    <3>2. orders' \in Seq(Order) /\ DOMAIN orders \subseteq DOMAIN orders'
      <4>1. /\ orders \in Seq(Order) /\ DOMAIN orders = 1..Len(orders) /\ Len(orders) \in Nat
            /\ Append(orders, o) \in Seq(Order) /\ DOMAIN Append(orders, o) = 1..(Len(orders) + 1)
        BY <3>1, Appended DEF QueueTypes
      <4> QED
        BY <3>1, <4>1
    <3>3. approved' \subseteq Strategies \X Keys
      <4>1. /\ approved' = IF Head(proposals).side = "BUY"
                             THEN approved \cup {<<Head(proposals).strategy, Head(proposals).key>>}
                             ELSE approved
            /\ Head(proposals) \in Buy \cup Sell
        BY <1>6, <2>3, RiskLemma DEF Risk
      <4> QED
        BY <4>1 DEF QueueTypes, Buy, Sell
    <3> QED
      BY <1>6, <2>1, <3>1, <3>2, <3>3, RiskLemma DEF Risk, QueueTypes, queues
  <2> QED
    BY <2>2, <2>3
<1>7. CASE RiskOrders
  <2>1. executions' \in Seq(Nat) /\ \A n \in DOMAIN executions' : executions'[n] \in DOMAIN orders
    <3>1. executions \in Seq(Nat) /\ executions # <<>> /\ executions' = Tail(executions)
      BY <1>7, RiskOrdersLemma DEF RiskOrders, QueueTypes
    <3>2. \A n \in DOMAIN executions : executions[n] \in DOMAIN orders
      BY DEF QueueTypes
    <3> QED
      BY <3>1, <3>2, HeadLemma
  <2> QED
    BY <1>7, <2>1, RiskOrdersLemma DEF RiskOrders, QueueTypes, queues
<1>8. CASE Fills
  <2>1. fills' \in Seq(Buy \cup Sell)
    <3>1. fills # <<>> /\ fills' = Tail(fills)
      BY <1>8, FillsLemma
    <3> QED
      BY <1>0, <3>1, IntentQueue
  <2> QED
    BY <1>8, <2>1, FillsLemma DEF QueueTypes, checker
<1>9. CASE MarketData
  <2>1. proposals' \in Seq(Buy \cup Sell)
    <3>1. proposals' = proposals \/ \E p \in Buy \cup Sell : proposals' = Append(proposals, p)
      BY <1>9, MarketDataLemma
    <3> QED
      BY <1>0, <3>1, IntentQueue
  <2> QED
    BY <1>9, <2>1, MarketDataLemma DEF QueueTypes, checker
<1>10. CASE Settle
  BY <1>10, SettleLemma DEF QueueTypes, checker
<1> QED
  BY <1>1, <1>2, <1>3, <1>4, <1>5, <1>6, <1>7, <1>8, <1>9, <1>10 DEF Next

-----------------------------------------------------------------------------
(* One BUY of each strategy and key *)

LEMMA OrdersStep ==
    ASSUME Types, Next
    PROVE  \/ /\ DOMAIN orders' = DOMAIN orders /\ \A i \in DOMAIN orders : orders'[i].intent = orders[i].intent
              /\ approved \cup executed \subseteq approved' \cup executed'
           \/ /\ Risk /\ Allows(Head(proposals)) /\ Head(proposals) \in Buy \cup Sell
              /\ orders' = Append(orders, [intent |-> Head(proposals), state |-> "sent"])
              /\ executed' = executed
              /\ approved' = IF Head(proposals).side = "BUY"
                               THEN approved \cup {<<Head(proposals).strategy, Head(proposals).key>>}
                               ELSE approved
<1>1. CASE UNCHANGED <<orders, checker>>
  BY <1>1 DEF checker
<1>2. ASSUME NEW i \in DOMAIN orders, Fill(i)
      PROVE  /\ DOMAIN orders' = DOMAIN orders /\ \A j \in DOMAIN orders : orders'[j].intent = orders[j].intent
             /\ approved \cup executed \subseteq approved' \cup executed'
  BY <1>2, FillLemma DEF checker
<1>3. CASE Risk
  BY <1>1, <1>3, RiskLemma DEF Risk
<1>4. CASE RiskOrders
  BY <1>4, RiskOrdersLemma DEF RiskOrders
<1>5. Fills \/ MarketData \/ Settle => UNCHANGED <<orders, checker>>
  BY DEF Fills, MarketData, Settle, PathKept
<1>6. Portfolio \/ (\E s \in Strategies : Runner(s)) => UNCHANGED <<orders, checker>>
  BY PortfolioLemma, RunnerLemma DEF Portfolio, Runner, Types
<1> QED
  BY <1>1, <1>2, <1>3, <1>4, <1>5, <1>6 DEF Next, Tick, Expire

LEMMA BuysStep ==
    ASSUME Types, Remembered, OneBuyEach, Next
    PROVE  Remembered' /\ OneBuyEach'
<1>1. CASE /\ DOMAIN orders' = DOMAIN orders /\ \A i \in DOMAIN orders : orders'[i].intent = orders[i].intent
           /\ approved \cup executed \subseteq approved' \cup executed'
  BY <1>1 DEF Remembered, OneBuyEach
<1>2. CASE /\ Risk /\ Allows(Head(proposals)) /\ Head(proposals) \in Buy \cup Sell
           /\ orders' = Append(orders, [intent |-> Head(proposals), state |-> "sent"])
           /\ executed' = executed
           /\ approved' = IF Head(proposals).side = "BUY"
                            THEN approved \cup {<<Head(proposals).strategy, Head(proposals).key>>}
                            ELSE approved
  <2> DEFINE p == Head(proposals)
             o == [intent |-> p, state |-> "sent"]
             m == Len(orders)
             t == Append(orders, o)
  <2>1. o \in Order /\ o.intent = p
    BY <1>2 DEF Order
  <2>2. p.side = "BUY" => <<p.strategy, p.key>> \notin executed \cup approved
    BY <1>2 DEF Allows, CheckMaxTrades
  <2> HIDE DEF p, o
  <2>3. /\ DOMAIN t = 1..(m + 1) /\ DOMAIN orders = 1..m /\ m \in Nat
        /\ t[m + 1] = o /\ \A n \in 1..m : t[n] = orders[n]
    BY <2>1, Appended DEF Types, QueueTypes
  <2>4. orders' = t
    BY <1>2 DEF p, o
  <2> HIDE DEF t, m
  <2>5. \A n \in 1..(m + 1) : n \in 1..m \/ n = m + 1
    BY <2>3
  <2>6. \A n \in 1..m : orders[n].intent.side = "BUY"
           => <<orders[n].intent.strategy, orders[n].intent.key>> \in approved \cup executed
    BY <2>3 DEF Remembered
  <2>7. approved' \cup executed' = IF p.side = "BUY" THEN approved \cup executed \cup {<<p.strategy, p.key>>}
                                   ELSE approved \cup executed
    BY <1>2 DEF p
  <2>8. Remembered'
    <3> SUFFICES ASSUME NEW n \in 1..(m + 1), t[n].intent.side = "BUY"
                 PROVE  <<t[n].intent.strategy, t[n].intent.key>> \in approved' \cup executed'
      BY <2>3, <2>4 DEF Remembered
    <3> QED
      BY <2>1, <2>3, <2>5, <2>6, <2>7
  <2>9. OneBuyEach'
    <3> SUFFICES ASSUME NEW i \in 1..(m + 1), NEW j \in 1..(m + 1),
                        t[i].intent.side = "BUY", t[j].intent.side = "BUY",
                        t[i].intent.strategy = t[j].intent.strategy, t[i].intent.key = t[j].intent.key
                 PROVE  i = j
      BY <2>3, <2>4 DEF OneBuyEach
    <3>1. CASE i \in 1..m /\ j \in 1..m
      BY <2>3, <3>1 DEF OneBuyEach
    <3>2. CASE i \in 1..m /\ j = m + 1
      BY <2>1, <2>2, <2>3, <2>6, <3>2
    <3>3. CASE i = m + 1 /\ j \in 1..m
      BY <2>1, <2>2, <2>3, <2>6, <3>3
    <3> QED
      BY <2>5, <3>1, <3>2, <3>3
  <2> QED
    BY <2>8, <2>9
<1> QED
  BY <1>1, <1>2, OrdersStep

-----------------------------------------------------------------------------
(* Fills and proposals of a key that are under way *)

LEMMA AtAppend ==
    ASSUME NEW q \in Seq(Buy \cup Sell), NEW p \in Buy \cup Sell, NEW side, NEW k
    PROVE  At(Append(q, p), side, k) =
              IF p.side = side /\ p.key = k THEN At(q, side, k) \cup {Len(q) + 1} ELSE At(q, side, k)
<1> DEFINE X == Buy \cup Sell
           t == Append(q, p)
           m == Len(q)
<1>1. q \in Seq(X) /\ p \in X
  OBVIOUS
<1> HIDE DEF X
<1>2. /\ DOMAIN t = 1..(m + 1) /\ DOMAIN q = 1..m /\ m \in Nat
      /\ t[m + 1] = p /\ \A n \in 1..m : t[n] = q[n]
  BY <1>1, Appended
<1> HIDE DEF t, m
<1>3. \A n : n \in 1..(m + 1) <=> n \in 1..m \/ n = m + 1
  BY <1>2
<1>4. ASSUME NEW n PROVE n \in At(t, side, k) <=> n \in At(q, side, k) \/ (n = m + 1 /\ p.side = side /\ p.key = k)
  <2>1. n \in At(t, side, k) <=> n \in 1..(m + 1) /\ t[n].side = side /\ t[n].key = k
    BY <1>2 DEF At
  <2>2. n \in At(q, side, k) <=> n \in 1..m /\ q[n].side = side /\ q[n].key = k
    BY <1>2 DEF At
  <2> QED
    BY <1>2, <1>3, <2>1, <2>2
<1>5. At(t, side, k) = IF p.side = side /\ p.key = k THEN At(q, side, k) \cup {m + 1} ELSE At(q, side, k)
  BY <1>4
<1> QED
  BY <1>5 DEF t, m

LEMMA AtTail ==
    ASSUME NEW q \in Seq(Buy \cup Sell), q # <<>>, NEW side, NEW k
    PROVE  /\ \A n : n \in At(Tail(q), side, k) <=> n \in 1..(Len(q) - 1) /\ n + 1 \in At(q, side, k)
           /\ \A n \in 1..(Len(q) - 1) : Tail(q)[n] = q[n + 1]
           /\ Head(q).side = side /\ Head(q).key = k <=> 1 \in At(q, side, k)
           /\ \A n \in At(q, side, k) : n = 1 \/ n - 1 \in At(Tail(q), side, k)
           /\ \A n \in At(q, side, k) : n \in Nat \ {0}
<1> DEFINE X == Buy \cup Sell
           t == Tail(q)
           m == Len(q)
<1>1. q \in Seq(X)
  OBVIOUS
<1> HIDE DEF X
<1>2. /\ Head(q) = q[1] /\ m \in Nat \ {0} /\ DOMAIN q = 1..m /\ DOMAIN t = 1..(m - 1)
      /\ \A n \in 1..(m - 1) : n + 1 \in 1..m /\ t[n] = q[n + 1]
  BY <1>1, HeadLemma
<1> HIDE DEF t, m
<1>3. 1 \in 1..m /\ \A n \in 1..m : n \in Nat \ {0} /\ (n = 1 \/ (n - 1 \in 1..(m - 1) /\ (n - 1) + 1 = n))
  BY <1>2
<1>4. \A n : n \in At(t, side, k) <=> n \in 1..(m - 1) /\ n + 1 \in At(q, side, k)
  BY <1>2 DEF At
<1>5. \A n \in At(q, side, k) : n \in 1..m
  BY <1>2 DEF At
<1>6. Head(q).side = side /\ Head(q).key = k <=> 1 \in At(q, side, k)
  BY <1>2, <1>3 DEF At
<1>7. \A n \in At(q, side, k) : n = 1 \/ n - 1 \in At(t, side, k)
  BY <1>3, <1>4, <1>5
<1> QED
  BY <1>2, <1>3, <1>4, <1>5, <1>6, <1>7 DEF t, m

(* The first is of another kind: the others only move up. *)
LEMMA AtMovesUp ==
    ASSUME NEW q \in Seq(Buy \cup Sell), q # <<>>, NEW side, NEW k,
           ~(Head(q).side = side /\ Head(q).key = k)
    PROVE  /\ At(q, side, k) = {} => At(Tail(q), side, k) = {}
           /\ \A n : At(q, side, k) = {n} => n # 1 /\ At(Tail(q), side, k) = {n - 1}
           /\ (\A m, n \in At(q, side, k) : m = n) => (\A m, n \in At(Tail(q), side, k) : m = n)
<1> DEFINE T == At(Tail(q), side, k)
           Q == At(q, side, k)
           t == Tail(q)
           l == Len(q) - 1
<1>1. /\ \A n : n \in T <=> n \in 1..l /\ n + 1 \in Q
      /\ \A n \in 1..l : t[n] = q[n + 1]
      /\ \A n \in Q : n # 1 /\ n \in Nat \ {0} /\ n - 1 \in T
  BY AtTail
<1> HIDE DEF T, Q, t, l
<1>2. ASSUME NEW n, Q = {n} PROVE n # 1 /\ T = {n - 1}
  <2>1. n \in Nat /\ n # 0 /\ n # 1 /\ n - 1 \in T
    BY <1>1, <1>2
  <2>2. n - 1 \in Nat /\ (n - 1) + 1 = n
    BY <2>1
  <2>3. \A x \in T : x = n - 1
    <3> SUFFICES ASSUME NEW x \in T PROVE x = n - 1
      OBVIOUS
    <3>1. x + 1 = n /\ x \in 1..l
      BY <1>1, <1>2
    <3>2. x \in Int
      BY <3>1
    <3> QED
      BY <2>1, <3>1, <3>2
  <2> QED
    BY <2>1, <2>3
<1>3. ASSUME \A m, n \in Q : m = n, NEW x \in T, NEW y \in T PROVE x = y
  <2>1. x + 1 = y + 1 /\ x \in 1..l /\ y \in 1..l
    BY <1>1, <1>3
  <2>2. x \in Int /\ y \in Int
    BY <2>1
  <2> QED
    BY <2>1, <2>2
<1>4. Q = {} => T = {}
  BY <1>1
<1> QED
  BY <1>2, <1>3, <1>4 DEF T, Q, t

-----------------------------------------------------------------------------
(* Orders *)

LEMMA SentLemma ==
    ASSUME Types, NEW p \in Buy \cup Sell, NEW k,
           orders' = Append(orders, [intent |-> p, state |-> "sent"])
    PROVE  /\ Buyers(k)' = Buyers(k)
           /\ Sales(k)' = IF p.side = "SELL" /\ p.key = k THEN Sales(k) \cup {Len(orders) + 1} ELSE Sales(k)
<1> DEFINE o == [intent |-> p, state |-> "sent"]
           m == Len(orders)
           t == Append(orders, o)
<1>1. o \in Order /\ o.intent = p /\ o.state = "sent"
  BY DEF Order
<1> HIDE DEF o
<1>2. /\ DOMAIN t = 1..(m + 1) /\ DOMAIN orders = 1..m /\ m \in Nat
      /\ t[m + 1] = o /\ \A n \in 1..m : t[n] = orders[n]
  BY <1>1, Appended DEF Types, QueueTypes
<1>3. orders' = t
  BY DEF o
<1> HIDE DEF t, m
<1>4. \A n : n \in 1..(m + 1) <=> n \in 1..m \/ n = m + 1
  BY <1>2
<1>5. ASSUME NEW s PROVE Bought(s, k)' = Bought(s, k)
  <2>1. \A n : n \in Bought(s, k)' <=> /\ n \in 1..(m + 1) /\ t[n].state = "filled" /\ t[n].intent.side = "BUY"
                                      /\ t[n].intent.strategy = s /\ t[n].intent.key = k
    BY <1>2, <1>3 DEF Bought, IsFilled
  <2>2. \A n : n \in Bought(s, k) <=> /\ n \in 1..m /\ orders[n].state = "filled" /\ orders[n].intent.side = "BUY"
                                     /\ orders[n].intent.strategy = s /\ orders[n].intent.key = k
    BY <1>2 DEF Bought, IsFilled
  <2>3. t[m + 1].state # "filled"
    BY <1>1, <1>2
  <2>4. \A n : n \in Bought(s, k)' <=> n \in Bought(s, k)
    BY <1>2, <1>4, <2>1, <2>2, <2>3
  <2> HIDE DEF Bought
  <2> QED
    BY <2>4
<1>6. Buyers(k)' = Buyers(k)
  BY <1>5 DEF Buyers
<1>7. \A n : n \in Sales(k)' <=> n \in Sales(k) \/ (n = m + 1 /\ p.side = "SELL" /\ p.key = k)
  <2>1. \A n : n \in Sales(k)' <=> n \in 1..(m + 1) /\ t[n].intent.side = "SELL" /\ t[n].intent.key = k
    BY <1>2, <1>3 DEF Sales
  <2>2. \A n : n \in Sales(k) <=> n \in 1..m /\ orders[n].intent.side = "SELL" /\ orders[n].intent.key = k
    BY <1>2 DEF Sales
  <2> QED
    BY <1>1, <1>2, <1>4, <2>1, <2>2
<1>8. Sales(k)' = IF p.side = "SELL" /\ p.key = k THEN Sales(k) \cup {m + 1} ELSE Sales(k)
  BY <1>7
<1> QED
  BY <1>6, <1>8 DEF m

LEMMA FilledLemma ==
    ASSUME Types, NEW i \in DOMAIN orders, Fill(i), NEW k \in Keys
    PROVE  /\ Sales(k)' = Sales(k)
           /\ Buyers(k)' = IF orders[i].intent \in Buy /\ orders[i].intent.key = k
                             THEN Buyers(k) \cup {orders[i].intent.strategy} ELSE Buyers(k)
<1> DEFINE p == orders[i].intent
<1>1. /\ p \in Buy \cup Sell /\ orders[i].state = "sent" /\ DOMAIN orders' = DOMAIN orders
      /\ orders'[i].state = "filled" /\ orders'[i].intent = p
      /\ \A j \in DOMAIN orders : j # i => orders'[j] = orders[j]
  BY FillLemma
<1>2. (p \in Buy <=> p.side = "BUY") /\ (p \in Buy => p.strategy \in Strategies)
  BY <1>1 DEF Buy, Sell
<1>3. ASSUME NEW s PROVE Bought(s, k)' = IF p.side = "BUY" /\ p.key = k /\ p.strategy = s
                                           THEN Bought(s, k) \cup {i} ELSE Bought(s, k)
  <2>1. \A n : n \in Bought(s, k)' <=> /\ n \in DOMAIN orders /\ orders'[n].state = "filled"
                                      /\ orders'[n].intent.side = "BUY"
                                      /\ orders'[n].intent.strategy = s /\ orders'[n].intent.key = k
    BY <1>1 DEF Bought, IsFilled
  <2>2. \A n : n \in Bought(s, k) <=> /\ n \in DOMAIN orders /\ orders[n].state = "filled"
                                     /\ orders[n].intent.side = "BUY"
                                     /\ orders[n].intent.strategy = s /\ orders[n].intent.key = k
    BY DEF Bought, IsFilled
  <2>3. \A n : n \in Bought(s, k)' <=> n \in Bought(s, k)
                                      \/ (n = i /\ p.side = "BUY" /\ p.strategy = s /\ p.key = k)
    BY <1>1, <2>1, <2>2
  <2> HIDE DEF Bought
  <2> QED
    BY <2>3
<1>4. Sales(k)' = Sales(k)
  <2>1. \A n \in DOMAIN orders : orders'[n].intent = orders[n].intent
    BY <1>1
  <2> QED
    BY <1>1, <2>1 DEF Sales
<1> HIDE DEF p
<1>5. \A s : s \in Buyers(k)' <=> s \in Strategies /\ Bought(s, k)' # {}
  BY DEF Buyers
<1>6. \A s : s \in Buyers(k) <=> s \in Strategies /\ Bought(s, k) # {}
  BY DEF Buyers
<1>7. \A s : s \in Buyers(k)' <=> s \in Buyers(k) \/ (p \in Buy /\ p.key = k /\ s = p.strategy)
  BY <1>2, <1>3, <1>5, <1>6
<1>8. Buyers(k)' = IF p \in Buy /\ p.key = k THEN Buyers(k) \cup {p.strategy} ELSE Buyers(k)
  BY <1>7
<1> QED
  BY <1>4, <1>8 DEF p

LEMMA OrdersFrame ==
    ASSUME UNCHANGED orders, NEW k
    PROVE  Buyers(k)' = Buyers(k) /\ Sales(k)' = Sales(k)
  BY DEF Buyers, Bought, IsFilled, Sales

-----------------------------------------------------------------------------
(* The life of a key *)

(* A step that leaves the position of a key as it is.                      *)
SameBooks(k) ==
    /\ k \in ToSet(held') <=> k \in ToSet(held)
    /\ position'[k] = position[k] /\ owner'[k] = owner[k] /\ bought'[k] = bought[k]
    /\ \A s \in Strategies : tracked'[s][k] = tracked[s][k]
    /\ OfKey(closed', k) = OfKey(closed, k) /\ OfKey(attributed', k) = OfKey(attributed, k)
SameComing(k) ==
    /\ Coming(k) = {} => Coming(k)' = {}
    /\ \A n : Coming(k) = {n} => \E m : Coming(k)' = {m} /\ fills'[m] = fills[n]
SameSale(k) ==
    \/ IsHeld(k) /\ k \in selling'
    \/ (k \in selling => k \in selling') /\ (NoSale(k) => NoSale(k)')

LEMMA LifeFrame ==
    ASSUME NEW k \in Keys, Life(k), SameBooks(k), SameComing(k), SameSale(k), Buyers(k)' = Buyers(k)
    PROVE  Life(k)'
<1> DEFINE B == Buyers(k)
           C == Coming(k)
           D == Coming(k)'
<1>1. B' = B
  OBVIOUS
<1>2. ASSUME Untouched(k) PROVE Untouched(k)'
  <2>1. ~IsHeld(k) /\ NoSale(k)
    BY <1>2 DEF Untouched
  <2>2. NoSale(k)'
    BY <2>1 DEF SameSale
  <2> QED
    BY <1>2, <2>1, <2>2 DEF SameBooks, Untouched, IsHeld
<1>3. CASE NotBought(k)
  <2>1. Coming(k)' = {}
    BY <1>3 DEF NotBought, SameComing
  <2> QED
    BY <1>1, <1>2, <1>3, <2>1 DEF NotBought, Life
<1>4. CASE ToBeBooked(k)
  <2>1. PICK n \in DOMAIN fills : C = {n} /\ B = {fills[n].strategy}
    BY <1>4 DEF ToBeBooked
  <2>2. PICK m : D = {m} /\ fills'[m] = fills[n]
    BY <2>1 DEF SameComing
  <2>3. m \in DOMAIN fills'
    BY <2>2 DEF Coming, At
  <2> HIDE DEF B, C, D
  <2>4. \E x \in DOMAIN fills' : D = {x} /\ B' = {fills'[x].strategy}
    BY <1>1, <2>1, <2>2, <2>3
  <2>5. Untouched(k)
    BY <1>4 DEF ToBeBooked
  <2> QED
    BY <1>2, <2>4, <2>5 DEF ToBeBooked, Life, B, D
<1>5. CASE Booked(k)
  <2>1. k \notin selling' => NoSale(k)'
    BY <1>5 DEF Booked, SameSale
  <2>2. Coming(k)' = {}
    BY <1>5 DEF Booked, SameComing
  <2>3. Booked(k)'
    BY <1>1, <1>5, <2>1, <2>2 DEF Booked, SameBooks
  <2> QED
    BY <2>3 DEF Life
<1>6. CASE IsClosed(k)
  <2>1. Coming(k)' = {}
    BY <1>6 DEF IsClosed, SameComing
  <2>2. IsClosed(k)'
    BY <1>1, <1>6, <2>1 DEF IsClosed, SameBooks, IsHeld
  <2> QED
    BY <2>2 DEF Life
<1> QED
  BY <1>3, <1>4, <1>5, <1>6 DEF Life

LEMMA BooksFrame ==
    ASSUME NEW k
    PROVE  /\ UNCHANGED <<held, position, bought, owner, tracked, closed, attributed>> => SameBooks(k)
           /\ UNCHANGED ppm => SameBooks(k) /\ UNCHANGED selling
           /\ UNCHANGED fills => SameComing(k)
           /\ UNCHANGED <<proposals, orders>> => (NoSale(k) => NoSale(k)') /\ (OneSale(k) => OneSale(k)')
  BY OrdersFrame DEF SameBooks, SameComing, Coming, ppm, NoSale, OneSale, Offers

LEMMA OtherTaken ==
    ASSUME Types, fills # <<>>, fills' = Tail(fills), NEW k,
           ~(Head(fills).side = "BUY" /\ Head(fills).key = k)
    PROVE  SameComing(k)
<1>1. fills \in Seq(Buy \cup Sell)
  BY DEF Types, QueueTypes
<1>2. At(fills, "BUY", k) = {} => At(Tail(fills), "BUY", k) = {}
  BY <1>1, AtMovesUp
<1>3. \A n : At(fills, "BUY", k) = {n} => n # 1 /\ At(Tail(fills), "BUY", k) = {n - 1}
  BY <1>1, AtMovesUp
<1>4. Coming(k) = At(fills, "BUY", k) /\ Coming(k)' = At(Tail(fills), "BUY", k)
  BY DEF Coming
<1>5. ASSUME NEW n, Coming(k) = {n} PROVE Coming(k)' = {n - 1} /\ fills'[n - 1] = fills[n]
  <2>1. n # 1 /\ Coming(k)' = {n - 1}
    BY <1>3, <1>4, <1>5
  <2>2. n \in DOMAIN fills
    BY <1>5 DEF Coming, At
  <2>3. n \in 1..Len(fills) /\ n - 1 \in 1..(Len(fills) - 1) /\ (n - 1) + 1 = n
    BY <1>1, <2>1, <2>2
  <2>4. \A m \in 1..(Len(fills) - 1) : Tail(fills)[m] = fills[m + 1]
    BY <1>1
  <2> QED
    BY <2>1, <2>3, <2>4
<1> QED
  BY <1>2, <1>4, <1>5 DEF SameComing

(* Who has bought a key has. *)
LEMMA BuyersGrow ==
    ASSUME Types, Next, NEW k \in Keys
    PROVE  Buyers(k) \subseteq Buyers(k)'
<1>1. CASE UNCHANGED orders
  BY <1>1, OrdersFrame
<1>2. ASSUME NEW i \in DOMAIN orders, Fill(i) PROVE Buyers(k) \subseteq Buyers(k)'
  BY <1>2, FilledLemma
<1>3. CASE Risk
  <2>1. \/ UNCHANGED orders
        \/ Head(proposals) \in Buy \cup Sell /\ orders' = Append(orders, [intent |-> Head(proposals), state |-> "sent"])
    BY <1>3, RiskLemma DEF Risk
  <2> QED
    BY <1>1, <2>1, SentLemma
<1>4. Fills \/ MarketData \/ Settle => UNCHANGED orders
  BY DEF Fills, MarketData, Settle, PathKept
<1>5. Portfolio \/ RiskOrders \/ (\E s \in Strategies : Runner(s)) => UNCHANGED orders
  BY DEF Portfolio, RiskOrders, Runner, ProcessSignal, TrackOrder, Evaluate
<1> QED
  BY <1>1, <1>2, <1>3, <1>4, <1>5 DEF Next, Tick, Expire

(* The order of a key is filled: nobody had bought it, or somebody else. *)
LEMMA FillKey ==
    ASSUME IInv, NEW i \in DOMAIN orders, Fill(i), NEW k \in Keys, KeyOK(k), OneBuyer(k)'
    PROVE  KeyOK(k)'
<1> DEFINE p == orders[i].intent
<1>1. /\ p \in Buy \cup Sell /\ orders[i].state = "sent" /\ fills' = Append(fills, p)
      /\ UNCHANGED <<proposals, ppm>>
  BY FillLemma DEF IInv
<1>2. Sales(k)' = Sales(k) /\ Offers(k)' = Offers(k)
  BY <1>1, FilledLemma DEF IInv, Offers
<1>3. SameBooks(k) /\ UNCHANGED selling
  BY <1>1, BooksFrame
<1>4. SameSale(k) /\ (NoSale(k) => NoSale(k)') /\ OneSale(k)'
  BY <1>2, <1>3 DEF SameSale, NoSale, OneSale, KeyOK
<1>5. (p \in Buy <=> p.side = "BUY") /\ (p \in Buy => p.strategy \in Strategies)
  BY <1>1 DEF Buy, Sell
<1>6. fills \in Seq(Buy \cup Sell)
  BY DEF IInv, Types, QueueTypes
<1>7. CASE p \in Buy /\ p.key = k
  <2>1. Buyers(k)' = Buyers(k) \cup {p.strategy}
    BY <1>7, FilledLemma DEF IInv
  <2>2. p.strategy \notin Buyers(k)
    <3> SUFFICES ASSUME p.strategy \in Buyers(k) PROVE FALSE
      OBVIOUS
    <3>1. PICK j \in DOMAIN orders : /\ orders[j].state = "filled" /\ orders[j].intent.side = "BUY"
                                     /\ orders[j].intent.strategy = p.strategy /\ orders[j].intent.key = k
      BY DEF Buyers, Bought, IsFilled
    <3>2. i = j
      BY <1>5, <1>7, <3>1 DEF IInv, OneBuyEach
    <3> QED
      BY <1>1, <3>1, <3>2
  <2>3. Buyers(k) = {} /\ Buyers(k)' = {p.strategy}
    BY <2>1, <2>2 DEF OneBuyer
  <2>4. NotBought(k)
    BY <2>3 DEF KeyOK, Life, ToBeBooked, Booked, IsClosed
  <2>5. Coming(k)' = {Len(fills) + 1} /\ fills'[Len(fills) + 1] = p
    <3>1. Coming(k) = {}
      BY <2>4 DEF NotBought
    <3>2. fills' = Append(fills, p) /\ p.side = "BUY" /\ p.key = k /\ p \in Buy \cup Sell
      BY <1>1, <1>5, <1>7
    <3> HIDE DEF p
    <3>3. At(Append(fills, p), "BUY", k) = At(fills, "BUY", k) \cup {Len(fills) + 1}
      BY <1>6, <3>2, AtAppend
    <3>4. fills'[Len(fills) + 1] = p
      BY <1>6, <3>2
    <3> QED
      BY <3>1, <3>2, <3>3, <3>4 DEF Coming
  <2>6. Len(fills) + 1 \in DOMAIN fills'
    BY <2>5 DEF Coming, At
  <2>7. Untouched(k)'
    BY <1>3, <1>4, <2>4 DEF NotBought, Untouched, SameBooks, IsHeld
  <2>8. ToBeBooked(k)'
    BY <2>3, <2>5, <2>6, <2>7 DEF ToBeBooked
  <2> QED
    BY <1>4, <2>8 DEF KeyOK, Life
<1>8. CASE ~(p \in Buy /\ p.key = k)
  <2>1. Buyers(k)' = Buyers(k)
    BY <1>8, FilledLemma DEF IInv
  <2>2. Coming(k)' = Coming(k) /\ \A n \in Coming(k) : fills'[n] = fills[n]
    <3>1. ~(p.side = "BUY" /\ p.key = k)
      BY <1>5, <1>8
    <3>2. p \in Buy \cup Sell /\ fills' = Append(fills, p)
      BY <1>1
    <3> HIDE DEF p
    <3>3. At(fills', "BUY", k) = At(fills, "BUY", k) /\ \A n \in At(fills, "BUY", k) : fills'[n] = fills[n]
      <4>1. \A n \in At(fills, "BUY", k) : fills'[n] = fills[n]
        BY <1>6, <3>2 DEF At
      <4>2. At(Append(fills, p), "BUY", k) = At(fills, "BUY", k)
        BY <1>6, <3>1, <3>2, AtAppend
      <4> QED
        BY <3>2, <4>1, <4>2
    <3> QED
      BY <3>3 DEF Coming
  <2>3. SameComing(k)
    BY <2>2 DEF SameComing
  <2> QED
    BY <1>3, <1>4, <2>1, <2>3, LifeFrame DEF KeyOK
<1> QED
  BY <1>7, <1>8

LEMMA PortfolioKey ==
    ASSUME Types, Portfolio, NEW k \in Keys, KeyOK(k)
    PROVE  KeyOK(k)'
<1>1. UNCHANGED <<orders, fills, ppm>>
  BY PortfolioLemma DEF Portfolio, queues
<1>2. Offers(k)' = Offers(k)
  <2>1. CASE proposals' = proposals
    BY <2>1 DEF Offers
  <2>2. ASSUME NEW b \in Buy, proposals' = Append(proposals, b) PROVE Offers(k)' = Offers(k)
    <3>1. b.side # "SELL" /\ b \in Buy \cup Sell /\ proposals \in Seq(Buy \cup Sell)
      BY DEF Buy, Types, QueueTypes
    <3> QED
      BY <2>2, <3>1, AtAppend DEF Offers
  <2> QED
    BY <2>1, <2>2, PortfolioLemma DEF Portfolio
<1>3. Buyers(k)' = Buyers(k) /\ Sales(k)' = Sales(k)
  BY <1>1, OrdersFrame
<1>4. SameBooks(k) /\ SameComing(k) /\ UNCHANGED selling
  BY <1>1, BooksFrame
<1>5. SameSale(k) /\ OneSale(k)'
  BY <1>2, <1>3, <1>4 DEF SameSale, NoSale, OneSale, KeyOK
<1> QED
  BY <1>3, <1>4, <1>5, LifeFrame DEF KeyOK

LEMMA RiskKey ==
    ASSUME Types, Risk, NEW k \in Keys, KeyOK(k)
    PROVE  KeyOK(k)'
<1> DEFINE p == Head(proposals)
<1>1. /\ UNCHANGED <<fills, ppm>> /\ proposals # <<>> /\ p \in Buy \cup Sell /\ proposals' = Tail(proposals)
      /\ proposals \in Seq(Buy \cup Sell)
      /\ UNCHANGED orders \/ orders' = Append(orders, [intent |-> p, state |-> "sent"])
  BY RiskLemma DEF Risk, queues, Types, QueueTypes
<1>2. Buyers(k)' = Buyers(k)
  BY <1>1, OrdersFrame, SentLemma
<1>3. SameBooks(k) /\ SameComing(k) /\ UNCHANGED selling
  BY <1>1, BooksFrame
<1>4. CASE ~(p.side = "SELL" /\ p.key = k)
  <2>1. Sales(k)' = Sales(k)
    BY <1>1, <1>4, OrdersFrame, SentLemma
  <2>2. /\ Offers(k) = {} => Offers(k)' = {}
        /\ (\A m, n \in Offers(k) : m = n) => (\A m, n \in Offers(k)' : m = n)
    BY <1>1, <1>4, AtMovesUp DEF Offers
  <2>3. SameSale(k) /\ OneSale(k)'
    BY <1>3, <2>1, <2>2 DEF SameSale, NoSale, OneSale, KeyOK
  <2> QED
    BY <1>2, <1>3, <2>3, LifeFrame DEF KeyOK
<1>5. CASE p.side = "SELL" /\ p.key = k
  <2>1. 1 \in Offers(k) /\ \A n : n \in Offers(k)' => n + 1 \in Offers(k) /\ n \in 1..(Len(proposals) - 1)
    BY <1>1, <1>5, AtTail DEF Offers
  <2>2. Offers(k)' = {}
    <3> SUFFICES ASSUME NEW n \in Offers(k)' PROVE FALSE
      OBVIOUS
    <3>1. n + 1 = 1 /\ n \in 1..(Len(proposals) - 1)
      BY <2>1 DEF KeyOK, OneSale
    <3> QED
      BY <3>1
  <2>3. Sales(k) = {}
    BY <2>1 DEF KeyOK, OneSale
  <2>4. \A i, j \in Sales(k)' : i = j
    BY <1>1, <1>5, <2>3, OrdersFrame, SentLemma
  <2>5. ~NoSale(k)
    BY <2>1 DEF NoSale
  <2>6. SameSale(k) /\ OneSale(k)'
    BY <1>3, <2>2, <2>4, <2>5 DEF SameSale, OneSale
  <2> QED
    BY <1>2, <1>3, <2>6, LifeFrame DEF KeyOK
<1> QED
  BY <1>4, <1>5

LEMMA MarketDataKey ==
    ASSUME Types, MarketData, NEW k \in Keys, KeyOK(k)
    PROVE  KeyOK(k)'
<1>1. UNCHANGED <<fills, orders, held, position, bought, owner, tracked, closed, attributed>>
  BY MarketDataLemma
<1>2. Buyers(k)' = Buyers(k) /\ Sales(k)' = Sales(k)
  BY <1>1, OrdersFrame
<1>3. SameBooks(k) /\ SameComing(k)
  BY <1>1, BooksFrame
<1>4. CASE UNCHANGED <<proposals, selling>>
  BY <1>1, <1>2, <1>3, <1>4, BooksFrame, LifeFrame DEF KeyOK, SameSale
<1>5. ASSUME NEW x \in Keys, IsHeld(x), x \notin selling, SellIntent(x) \in Sell,
             proposals' = Append(proposals, SellIntent(x)), selling' = selling \cup {x}
      PROVE  KeyOK(k)'
  <2> DEFINE o == SellIntent(x)
  <2>1. o.side = "SELL" /\ o.key = x /\ o \in Buy \cup Sell /\ proposals \in Seq(Buy \cup Sell)
    BY <1>5 DEF SellIntent, Types, QueueTypes
  <2> HIDE DEF o
  <2>2. proposals' = Append(proposals, o)
    BY <1>5 DEF o
  <2>3. Offers(k)' = IF x = k THEN Offers(k) \cup {Len(proposals) + 1} ELSE Offers(k)
    BY <2>1, <2>2, AtAppend DEF Offers
  <2>4. CASE x = k
    <3>1. Booked(k)
      BY <1>5, <2>4 DEF KeyOK, Life, NotBought, ToBeBooked, IsClosed, Untouched
    <3>2. NoSale(k)
      BY <1>5, <2>4, <3>1 DEF Booked
    <3>3. OneSale(k)'
      BY <1>2, <2>3, <2>4, <3>2 DEF NoSale, OneSale
    <3>4. SameSale(k)
      BY <1>5, <2>4 DEF SameSale
    <3> QED
      BY <1>2, <1>3, <3>3, <3>4, LifeFrame DEF KeyOK
  <2>5. CASE x # k
    <3>1. SameSale(k) /\ OneSale(k)'
      BY <1>2, <1>5, <2>3, <2>5 DEF SameSale, NoSale, OneSale, KeyOK
    <3> QED
      BY <1>2, <1>3, <3>1, LifeFrame DEF KeyOK
  <2> QED
    BY <2>4, <2>5
<1> QED
  BY <1>4, <1>5, MarketDataLemma

(* The fill of a BUY opens the position. *)
LEMMA BuyKey ==
    ASSUME Types, Fills, Head(fills) \in Buy, BuyFill(Head(fills)), NEW k \in Keys, KeyOK(k),
           UNCHANGED <<proposals, orders>>, fills # <<>>, fills' = Tail(fills)
    PROVE  KeyOK(k)'
<1> DEFINE f == Head(fills)
<1>1. f.side = "BUY" /\ f.key \in Keys /\ f.strategy \in Strategies /\ f.size = 1 /\ f \in Buy \cup Sell
  BY DEF Buy
<1>2. /\ UNCHANGED <<selling, closed, attributed>> /\ bought' = [bought EXCEPT ![f.key] = @ + f.size]
      /\ owner' = [owner EXCEPT ![f.key] = f.strategy]
      /\ tracked' = [tracked EXCEPT ![f.strategy][f.key] = @ + f.size]
      /\ position' = [position EXCEPT ![f.key] = [size |-> bought[f.key] + f.size, target |-> Target(f.key, f)]]
      /\ held' = IF IsHeld(f.key) THEN held ELSE Append(held, f.key)
  BY DEF BuyFill
<1>3. fills \in Seq(Buy \cup Sell) /\ held \in Seq(Keys)
  BY DEF Types, QueueTypes, PositionTypes
<1>4. ToSet(held') = ToSet(held) \cup {f.key}
  BY <1>1, <1>2, <1>3, ToSetAppend DEF IsHeld
<1>5. Buyers(k)' = Buyers(k) /\ (NoSale(k) => NoSale(k)') /\ OneSale(k)'
  BY OrdersFrame, BooksFrame DEF KeyOK
<1>6. SameSale(k)
  BY <1>2, <1>5 DEF SameSale
<1>7. /\ position \in [Keys -> [size : Nat, target : Nat]] /\ bought \in [Keys -> Nat]
      /\ owner \in [Keys -> Strategies \cup {"none"}] /\ tracked \in [Strategies -> [Keys -> Nat]]
  BY DEF Types, PositionTypes
<1>8. \A s \in Strategies : tracked'[s][k] = IF s = f.strategy /\ k = f.key THEN tracked[s][k] + 1 ELSE tracked[s][k]
  <2> HIDE DEF f
  <2> SUFFICES ASSUME NEW s \in Strategies
               PROVE  tracked'[s][k] = IF s = f.strategy /\ k = f.key THEN tracked[s][k] + 1 ELSE tracked[s][k]
    OBVIOUS
  <2>1. tracked[s] \in [Keys -> Nat]
    BY <1>7
  <2>2. CASE s = f.strategy
    <3>1. tracked'[s] = [tracked[s] EXCEPT ![f.key] = @ + f.size]
      BY <1>2, <1>7, <2>2
    <3> QED
      BY <1>1, <2>1, <2>2, <3>1
  <2>3. CASE s # f.strategy
    <3>1. tracked'[s] = tracked[s]
      BY <1>2, <1>7, <2>3
    <3> QED
      BY <2>3, <3>1
  <2> QED
    BY <2>2, <2>3
<1>9. CASE f.key # k
  <2>1. SameBooks(k)
    BY <1>2, <1>4, <1>7, <1>8, <1>9 DEF SameBooks
  <2>2. SameComing(k)
    BY <1>1, <1>9, OtherTaken
  <2> QED
    BY <1>5, <1>6, <2>1, <2>2, LifeFrame DEF KeyOK
<1>10. CASE f.key = k
  <2>1. 1 \in Coming(k)
    BY <1>1, <1>3, <1>10, AtTail DEF Coming
  <2>2. ToBeBooked(k)
    BY <2>1 DEF KeyOK, Life, NotBought, Booked, IsClosed
  <2>3. PICK n \in DOMAIN fills : Coming(k) = {n} /\ Buyers(k) = {fills[n].strategy}
    BY <2>2 DEF ToBeBooked
  <2>4. n = 1 /\ Coming(k) = {1} /\ Buyers(k) = {f.strategy}
    BY <1>3, <2>1, <2>3, HeadLemma
  <2>5. Coming(k)' = {}
    <3> SUFFICES ASSUME NEW m \in Coming(k)' PROVE FALSE
      OBVIOUS
    <3>1. m + 1 = 1 /\ m \in 1..(Len(fills) - 1)
      BY <1>3, <2>4, AtTail DEF Coming
    <3> QED
      BY <3>1
  <2>6. /\ bought[k] = 0 /\ (\A s \in Strategies : tracked[s][k] = 0) /\ NoSale(k)
        /\ OfKey(closed, k) = <<>> /\ OfKey(attributed, k) = <<>>
    BY <2>2 DEF ToBeBooked, Untouched
  <2>7. owner'[k] = f.strategy /\ f.strategy # "none"
    BY <1>1, <1>2, <1>7, <1>10, PositionsAssumption
  <2>8. position'[k].size = 1
    BY <1>1, <1>2, <1>7, <1>10, <2>6
  <2>9. \A s \in Strategies : tracked'[s][k] = IF s = owner'[k] THEN 1 ELSE 0
    BY <1>8, <1>10, <2>6, <2>7
  <2>10. OfKey(closed', k) = <<>> /\ OfKey(attributed', k) = <<>> /\ NoSale(k)'
    BY <1>2, <1>5, <2>6
  <2>11. Buyers(k)' = {owner'[k]}
    BY <1>5, <2>4, <2>7
  <2> HIDE DEF f
  <2>12. Booked(k)'
    BY <2>5, <2>7, <2>8, <2>9, <2>10, <2>11 DEF Booked
  <2> QED
    BY <1>5, <2>12 DEF KeyOK, Life
<1> QED
  BY <1>9, <1>10

(* The fill of a SELL closes it, in both books. *)
LEMMA SellKey ==
    ASSUME Types, Fills, Head(fills) \in Sell, SellFill(Head(fills)), NEW k \in Keys, KeyOK(k),
           UNCHANGED <<proposals, orders>>, fills # <<>>, fills' = Tail(fills)
    PROVE  KeyOK(k)'
<1> DEFINE f == Head(fills)
           c == Closer(f)
<1>1. f.side = "SELL" /\ f.key \in Keys /\ f.strategy = "position_manager" /\ f.size \in Nat \ {0} /\ f \in Buy \cup Sell
  BY DEF Sell
<1>2. fills \in Seq(Buy \cup Sell) /\ held \in Seq(Keys) /\ closed \in Seq(Close) /\ attributed \in Seq(Close)
  BY DEF Types, QueueTypes, PositionTypes
<1>3. Buyers(k)' = Buyers(k) /\ (NoSale(k) => NoSale(k)') /\ OneSale(k)'
  BY OrdersFrame, BooksFrame DEF KeyOK
<1>4. SameComing(k)
  <2>1. ~(f.side = "BUY" /\ f.key = k)
    BY <1>1
  <2> QED
    BY <2>1, OtherTaken
<1>5. /\ position \in [Keys -> [size : Nat, target : Nat]] /\ bought \in [Keys -> Nat]
      /\ owner \in [Keys -> Strategies \cup {"none"}] /\ tracked \in [Strategies -> [Keys -> Nat]]
  BY DEF Types, PositionTypes
<1>6. Attribute(c, f.key, "sold")
  BY DEF SellFill
<1>7. \/ ~IsHeld(f.key) /\ UNCHANGED <<held, position, bought, owner, selling, closed>>
      \/ /\ IsHeld(f.key) /\ ~Exhausts(f)
         /\ position' = [position EXCEPT ![f.key].size = @ - f.size]
         /\ UNCHANGED <<held, bought, owner, selling, closed>>
      \/ /\ IsHeld(f.key) /\ Exhausts(f)
         /\ closed' = Append(closed, Closing(owner[f.key], f.key, position[f.key].size, "sold"))
         /\ Forget(f.key)
         /\ selling' = selling \ {f.key}
  BY DEF SellFill
<1>8. CASE f.key # k
  <2> HIDE DEF c, f
  <2>1. OfKey(attributed', k) = OfKey(attributed, k) /\ \A s \in Strategies : tracked'[s][k] = tracked[s][k]
    <3>1. CASE c \in Strategies /\ tracked[c][f.key] > 0
      <4> DEFINE r == Closing(c, f.key, tracked[c][f.key], "sold")
      <4>1. attributed' = Append(attributed, r) /\ tracked' = [tracked EXCEPT ![c][f.key] = 0]
        BY <1>6, <3>1 DEF Attribute
      <4>2. r \in Close /\ r.key = f.key
        BY <1>1, <1>5, <3>1 DEF Closing, Close
      <4> HIDE DEF r
      <4>3. OfKey(attributed', k) = OfKey(attributed, k)
        BY <1>2, <1>8, <4>1, <4>2, OfKeyAppend
      <4>4. \A s \in Strategies : tracked'[s][k] = tracked[s][k]
        BY <1>5, <1>8, <4>1
      <4> QED
        BY <4>3, <4>4
    <3>2. CASE ~(c \in Strategies /\ tracked[c][f.key] > 0)
      BY <1>6, <3>2 DEF Attribute
    <3> QED
      BY <3>1, <3>2
  <2>2. /\ k \in ToSet(held') <=> k \in ToSet(held)
        /\ position'[k] = position[k] /\ owner'[k] = owner[k] /\ bought'[k] = bought[k]
        /\ (k \in selling' <=> k \in selling) /\ OfKey(closed', k) = OfKey(closed, k)
    <3>1. CASE UNCHANGED <<held, bought, owner, selling, closed>>
      BY <1>5, <1>7, <1>8, <3>1 DEF Forget
    <3>2. CASE /\ closed' = Append(closed, Closing(owner[f.key], f.key, position[f.key].size, "sold"))
               /\ Forget(f.key) /\ selling' = selling \ {f.key}
      <4> DEFINE r == Closing(owner[f.key], f.key, position[f.key].size, "sold")
      <4>1. r \in Close /\ r.key = f.key
        BY <1>1, <1>5 DEF Closing, Close
      <4> HIDE DEF r
      <4>2. closed' = Append(closed, r)
        BY <3>2 DEF r
      <4>3. OfKey(closed', k) = OfKey(closed, k)
        BY <1>2, <1>8, <4>1, <4>2, OfKeyAppend
      <4>4. /\ ToSet(held') = ToSet(held) \ {f.key} /\ position' = [position EXCEPT ![f.key] = NoPosition]
            /\ bought' = [bought EXCEPT ![f.key] = 0] /\ owner' = [owner EXCEPT ![f.key] = "none"]
        BY <1>1, <3>2, ForgetLemma
      <4>5. selling' = selling \ {f.key}
        BY <3>2
      <4> QED
        BY <1>5, <1>8, <4>3, <4>4, <4>5
    <3> QED
      BY <1>7, <3>1, <3>2
  <2>3. SameBooks(k) /\ SameSale(k)
    BY <1>3, <2>1, <2>2 DEF SameBooks, SameSale
  <2> QED
    BY <1>3, <1>4, <2>3, LifeFrame DEF KeyOK
<1>9. CASE f.key = k /\ ~IsHeld(k)
  <2>1. UNCHANGED <<held, position, bought, owner, selling, closed>>
    BY <1>7, <1>9
  <2>2. \A s \in Strategies : tracked[s][k] = 0
    <3>1. ~Booked(k)
      BY <1>5, <1>9 DEF Booked, Types, PositionTypes
    <3> QED
      BY <3>1 DEF KeyOK, Life, NotBought, ToBeBooked, IsClosed, Untouched
  <2>3. UNCHANGED <<attributed, tracked>>
    BY <1>6, <1>9, <2>2 DEF Attribute
  <2>4. SameBooks(k) /\ SameSale(k)
    BY <1>3, <2>1, <2>3, BooksFrame DEF SameSale
  <2> QED
    BY <1>3, <1>4, <2>4, LifeFrame DEF KeyOK
<1>10. CASE f.key = k /\ IsHeld(k)
  <2>1. Booked(k)
    BY <1>10 DEF KeyOK, Life, NotBought, ToBeBooked, IsClosed, Untouched
  <2>2. /\ Coming(k) = {} /\ owner[k] # "none" /\ Buyers(k) = {owner[k]} /\ position[k].size = 1
        /\ \A s \in Strategies : tracked[s][k] = IF s = owner[k] THEN 1 ELSE 0
        /\ OfKey(closed, k) = <<>> /\ OfKey(attributed, k) = <<>>
    BY <2>1 DEF Booked
  <2>3. owner[k] \in Strategies /\ c = owner[k] /\ tracked[c][k] = 1
    BY <1>5, <1>10, <2>2 DEF Closer
  <2> DEFINE r == Closing(owner[k], k, 1, "sold")
  <2>4. Exhausts(f)
    BY <1>1, <1>10, <2>2 DEF Exhausts
  <2>5. closed' = Append(closed, r) /\ Forget(k)
    BY <1>7, <1>10, <2>2, <2>4
  <2>6. attributed' = Append(attributed, r) /\ tracked' = [tracked EXCEPT ![c][k] = 0]
    BY <1>6, <1>10, <2>3 DEF Attribute
  <2>7. r \in Close /\ r.key = k /\ r.size = 1
    BY <2>3 DEF Closing, Close
  <2> HIDE DEF r, c, f
  <2>8. OfKey(closed', k) = <<r>> /\ OfKey(attributed', k) = <<r>>
    <3>1. OfKey(closed', k) = Append(OfKey(closed, k), r) /\ OfKey(attributed', k) = Append(OfKey(attributed, k), r)
      BY <1>2, <2>5, <2>6, <2>7, OfKeyAppend
    <3> QED
      BY <2>2, <3>1
  <2>9. /\ ToSet(held') = ToSet(held) \ {k} /\ owner' = [owner EXCEPT ![k] = "none"]
    BY <2>5, ForgetLemma
  <2>10. k \notin ToSet(held') /\ owner'[k] = "none"
    BY <1>5, <2>9
  <2>11. \A s \in Strategies : tracked'[s][k] = 0
    BY <1>5, <2>2, <2>3, <2>6
  <2>12. Coming(k)' = {}
    BY <1>4, <2>2 DEF SameComing
  <2>13. Buyers(k)' # {}
    BY <1>3, <2>2
  <2>14. Len(<<r>>) = 1 /\ <<r>>[1].size = 1
    BY <2>7
  <2>15. IsClosed(k)'
    BY <2>8, <2>10, <2>11, <2>12, <2>13, <2>14 DEF IsClosed, IsHeld
  <2> QED
    BY <1>3, <2>15 DEF KeyOK, Life
<1> QED
  BY <1>8, <1>9, <1>10

(* The end of the market closes it too. *)
LEMMA SettleKey ==
    ASSUME Types, Settle, NEW k \in Keys, KeyOK(k)
    PROVE  KeyOK(k)'
<1>1. UNCHANGED <<fills, proposals, orders, selling>>
  BY SettleLemma
<1>2. /\ Buyers(k)' = Buyers(k) /\ (NoSale(k) => NoSale(k)') /\ OneSale(k)' /\ SameComing(k)
  BY <1>1, OrdersFrame, BooksFrame DEF KeyOK
<1>3. SameSale(k)
  BY <1>1, <1>2 DEF SameSale
<1>4. /\ closed \in Seq(Close) /\ attributed \in Seq(Close) /\ Settled \in Seq(Close)
      /\ Select(Settled, Attributable) \in Seq(Close)
  BY SettledLemma, SelectType DEF Types, PositionTypes
<1>5. /\ OfKey(closed', k) = Joined(OfKey(closed, k), OfKey(Settled, k))
      /\ OfKey(attributed', k) = Joined(OfKey(attributed, k), OfKey(Select(Settled, Attributable), k))
  BY <1>4, SettleLemma, OfKeyJoined
<1>6. /\ position \in [Keys -> [size : Nat, target : Nat]] /\ bought \in [Keys -> Nat]
      /\ owner \in [Keys -> Strategies \cup {"none"}] /\ tracked \in [Strategies -> [Keys -> Nat]]
  BY DEF Types, PositionTypes
<1>7. /\ ToSet(held') = ToSet(held) \ Gone
      /\ \A s \in Strategies : tracked'[s][k] = IF k \in Gone /\ owner[k] = s THEN 0 ELSE tracked[s][k]
      /\ position'[k] = IF k \in Gone THEN NoPosition ELSE position[k]
      /\ bought'[k] = IF k \in Gone THEN 0 ELSE bought[k]
      /\ owner'[k] = IF k \in Gone THEN "none" ELSE owner[k]
  BY SettleLemma
<1>8. CASE k \notin Gone
  <2>1. OfKey(Settled, k) = <<>> /\ OfKey(Select(Settled, Attributable), k) = <<>>
    BY <1>8, SettledNot
  <2>2. OfKey(closed, k) \in Seq(Close) /\ OfKey(attributed, k) \in Seq(Close)
    BY <1>4, OfKeyLemma
  <2>3. Joined(OfKey(closed, k), <<>>) = OfKey(closed, k) /\ Joined(OfKey(attributed, k), <<>>) = OfKey(attributed, k)
    BY <2>2, JoinedEmpty
  <2>4. SameBooks(k)
    BY <1>5, <1>7, <1>8, <2>1, <2>3 DEF SameBooks
  <2> QED
    BY <1>2, <1>3, <2>4, LifeFrame DEF KeyOK
<1>9. CASE k \in Gone
  <2>1. IsHeld(k)
    BY <1>9, OpenLemma DEF IsHeld
  <2>2. Booked(k)
    BY <2>1 DEF KeyOK, Life, NotBought, ToBeBooked, IsClosed, Untouched
  <2>3. /\ Coming(k) = {} /\ owner[k] # "none" /\ Buyers(k) = {owner[k]} /\ position[k].size = 1
        /\ \A s \in Strategies : tracked[s][k] = IF s = owner[k] THEN 1 ELSE 0
        /\ OfKey(closed, k) = <<>> /\ OfKey(attributed, k) = <<>>
    BY <2>2 DEF Booked
  <2>4. PICK j \in DOMAIN Open : Open[j] = k
    BY <1>9 DEF Gone, ToSet
  <2> DEFINE r == Record(j)
  <2>5. r \in Close /\ r.key = k /\ r.strategy = owner[k] /\ r.size = 1
    BY <2>3, <2>4, RecordLemma
  <2>6. r \in Attributable
    <3>1. r \in ToSet(Settled)
      BY SettledLemma DEF ToSet
    <3>2. owner[k] \in Strategies /\ tracked[owner[k]][k] = 1
      BY <1>6, <2>3
    <3> QED
      BY <2>3, <2>5, <3>1, <3>2 DEF Attributable
  <2>7. OfKey(Settled, k) = <<r>> /\ OfKey(Select(Settled, Attributable), k) = <<r>>
    BY <2>4, <2>6, SettledOnce
  <2> HIDE DEF r
  <2>8. Joined(<<>>, <<r>>) = <<r>>
    BY DEF Joined
  <2>9. OfKey(closed', k) = <<r>> /\ OfKey(attributed', k) = <<r>>
    BY <1>5, <2>3, <2>7, <2>8
  <2>10. k \notin ToSet(held') /\ owner'[k] = "none" /\ \A s \in Strategies : tracked'[s][k] = 0
    BY <1>7, <1>9, <2>3
  <2>11. Coming(k)' = {} /\ Buyers(k)' # {}
    BY <1>2, <2>3 DEF SameComing
  <2>12. Len(<<r>>) = 1 /\ <<r>>[1].size = 1
    BY <2>5
  <2>13. IsClosed(k)'
    BY <2>9, <2>10, <2>11, <2>12 DEF IsClosed, IsHeld
  <2> QED
    BY <1>2, <2>13 DEF KeyOK, Life
<1> QED
  BY <1>8, <1>9

LEMMA KeysStep ==
    ASSUME IInv, Next
    PROVE  KeysOK'
<1> SUFFICES ASSUME NEW k \in Keys, OneBuyer(k)' PROVE KeyOK(k)'
  BY DEF KeysOK
<1>1. Types
  BY DEF IInv
<1>2. KeyOK(k)
  <2>1. OneBuyer(k)
    BY <1>1, BuyersGrow DEF OneBuyer
  <2> QED
    BY <2>1 DEF IInv, KeysOK
<1>3. CASE UNCHANGED <<fills, ppm, proposals, orders>>
  <2>1. Buyers(k)' = Buyers(k) /\ SameBooks(k) /\ SameComing(k) /\ SameSale(k) /\ OneSale(k)'
    BY <1>2, <1>3, OrdersFrame, BooksFrame DEF SameSale, KeyOK
  <2> QED
    BY <1>2, <2>1, LifeFrame DEF KeyOK
<1>4. ASSUME NEW i \in DOMAIN orders, Fill(i) PROVE KeyOK(k)'
  BY <1>2, <1>4, FillKey
<1>5. CASE Portfolio
  BY <1>1, <1>2, <1>5, PortfolioKey
<1>6. CASE Risk
  BY <1>1, <1>2, <1>6, RiskKey
<1>7. CASE Fills
  <2>1. /\ fills # <<>> /\ fills' = Tail(fills) /\ UNCHANGED <<proposals, orders>>
        /\ \/ Head(fills) \in Buy /\ BuyFill(Head(fills))
           \/ Head(fills) \in Sell /\ SellFill(Head(fills))
    BY <1>1, <1>7, FillsLemma
  <2> QED
    BY <1>1, <1>2, <1>7, <2>1, BuyKey, SellKey
<1>8. CASE MarketData
  BY <1>1, <1>2, <1>8, MarketDataKey
<1>9. CASE Settle
  BY <1>1, <1>2, <1>9, SettleKey
<1>10. RiskOrders \/ (\E s \in Strategies : Runner(s)) => UNCHANGED <<fills, ppm, proposals, orders>>
  BY DEF RiskOrders, TrackOrder, Runner, Evaluate, queues
<1> QED
  BY <1>3, <1>4, <1>5, <1>6, <1>7, <1>8, <1>9, <1>10 DEF Next, Tick, Expire

LEMMA InitKeys ==
    ASSUME Init, NEW k \in Keys
    PROVE  KeyOK(k)
<1>1. orders = <<>> /\ proposals = <<>> /\ fills = <<>> /\ closed = <<>> /\ attributed = <<>> /\ held = <<>>
  BY DEF Init, PositionsInit, SignalInit
<1>2. Buyers(k) = {} /\ Sales(k) = {} /\ Offers(k) = {} /\ Coming(k) = {}
  BY <1>1 DEF Buyers, Bought, Sales, Offers, Coming, At
<1>3. OfKey(closed, k) = <<>> /\ OfKey(attributed, k) = <<>>
  BY <1>1, SelectEmpty DEF OfKey
<1>4. owner[k] = "none" /\ bought[k] = 0 /\ (\A s \in Strategies : tracked[s][k] = 0)
  BY DEF Init, PositionsInit
<1>5. ~IsHeld(k)
  BY <1>1, ToSetEmpty DEF IsHeld
<1> QED
  BY <1>2, <1>3, <1>4, <1>5 DEF KeyOK, Life, NotBought, Untouched, NoSale, OneSale

LEMMA InitTypes ==
    ASSUME Init
    PROVE  Types
<1>1. 0 \in 0..Full
  BY PositionsAssumption
<1>2. 1 \in DOMAIN Markets
  <2>1. Markets \in Seq(ToSet(Markets)) /\ Markets # <<>>
    BY PositionsAssumption
  <2> QED
    BY <2>1
<1>3. \A X : <<>> \in Seq(X)
  OBVIOUS
<1>4. DOMAIN <<>> = {}
  OBVIOUS
<1>5. QueueTypes
  <2>1. quotes \in [Keys -> 0..Full] /\ inbox \in [Strategies -> Seq(Tag)]
    BY <1>1, <1>3 DEF Init, SignalInit
  <2> QED
    BY <1>2, <1>3, <1>4, <2>1 DEF QueueTypes, Init, PositionsInit, SignalInit
<1>6. PositionTypes
  <2>1. NoPosition \in [size : Nat, target : Nat] /\ NoPosition.size = 0
    BY DEF NoPosition
  <2>2. \A k \in Keys : IsHeld(k) <=> position[k].size > 0
    BY <2>1, ToSetEmpty DEF IsHeld, Init, PositionsInit
  <2>3. IsInjective(held)
    BY <1>4 DEF IsInjective, Init, PositionsInit
  <2>4. last \in [Keys -> 0..Full] /\ owner \in [Keys -> Strategies \cup {"none"}]
    BY <1>1 DEF Init, PositionsInit
  <2>5. position \in [Keys -> [size : Nat, target : Nat]] /\ bought \in [Keys -> Nat]
    BY <2>1 DEF Init, PositionsInit
  <2>6. tracked \in [Strategies -> [Keys -> Nat]]
    BY DEF Init, PositionsInit
  <2> QED
    BY <1>3, <2>2, <2>3, <2>4, <2>5, <2>6 DEF PositionTypes, Init, PositionsInit
<1> QED
  BY <1>5, <1>6 DEF Types

(* The inductive invariant holds of every step. *)
THEOREM TradingLoopInvariant == Spec => []IInv
<1>1. Init => IInv
  <2> SUFFICES ASSUME Init PROVE IInv
    OBVIOUS
  <2>1. Types /\ KeysOK
    BY InitTypes, InitKeys DEF KeysOK
  <2>2. orders = <<>>
    BY DEF Init, SignalInit
  <2>3. Remembered /\ OneBuyEach
    BY <2>2 DEF Remembered, OneBuyEach
  <2> QED
    BY <2>1, <2>3 DEF IInv
<1>2. IInv /\ [Next]_vars => IInv'
  <2> SUFFICES ASSUME IInv, [Next]_vars PROVE IInv'
    OBVIOUS
  <2>1. CASE Next
    <3>1. Types /\ Remembered /\ OneBuyEach
      BY DEF IInv
    <3>2. Types'
      BY <2>1, <3>1, PositionStep, QueueStep DEF Types
    <3>3. Remembered' /\ OneBuyEach'
      BY <2>1, <3>1, BuysStep
    <3>4. KeysOK'
      BY <2>1, KeysStep
    <3> QED
      BY <3>2, <3>3, <3>4 DEF IInv
  <2>2. CASE UNCHANGED vars
    <3>1. UNCHANGED <<fills, ticks, changes, ppm, path, nticks>>
      BY <2>2 DEF vars, queues
    <3>2. Types'
      BY <3>1 DEF IInv, Types, QueueTypes, PositionTypes, IsHeld, ppm, path, checker
    <3>3. Remembered' /\ OneBuyEach'
      BY <3>1 DEF IInv, Remembered, OneBuyEach, path, checker
    <3>4. UNCHANGED <<fills, ppm, proposals, orders>>
      BY <3>1 DEF path
    <3>5. KeysOK'
      <4> SUFFICES ASSUME NEW k \in Keys, OneBuyer(k)' PROVE KeyOK(k)'
        BY DEF KeysOK
      <4>1. Buyers(k)' = Buyers(k)
        BY <3>4, OrdersFrame
      <4>2. KeyOK(k)
        BY <4>1 DEF IInv, KeysOK, OneBuyer
      <4>3. SameBooks(k) /\ SameComing(k) /\ SameSale(k) /\ OneSale(k)'
        BY <3>4, <4>2, BooksFrame DEF SameSale, KeyOK
      <4> QED
        BY <4>1, <4>2, <4>3, LifeFrame DEF KeyOK
    <3> QED
      BY <3>2, <3>3, <3>5 DEF IInv
  <2> QED
    BY <2>1, <2>2
<1> QED
  BY <1>1, <1>2, PTL DEF Spec

-----------------------------------------------------------------------------
(* What follows from it *)

(* The types. *)
THEOREM TradingLoopTypes == Spec => []TypeOK
<1>1. IInv => TypeOK
  <2> SUFFICES ASSUME IInv PROVE TypeOK
    OBVIOUS
  <2>1. QueueTypes /\ PositionTypes
    BY DEF IInv, Types
  <2>2. \A i \in DOMAIN orders : orders[i].state \in {"sent", "filled"}
    <3> SUFFICES ASSUME NEW i \in DOMAIN orders PROVE orders[i].state \in {"sent", "filled"}
      OBVIOUS
    <3>1. orders[i] \in Order
      BY <2>1 DEF QueueTypes
    <3> QED
      BY <3>1 DEF Order
  <2> QED
    BY <2>1, <2>2 DEF TypeOK, QueueTypes, PositionTypes
<1> QED
  BY <1>1, TradingLoopInvariant, PTL

(* A strategy's BUYs of an outcome of a market are approved once.          *)
THEOREM BuysAreApprovedOnce == Spec => []OneBuyEach
<1>1. IInv => OneBuyEach
  BY DEF IInv
<1> QED
  BY <1>1, TradingLoopInvariant, PTL

LEMMA BuyersAreFinite ==
    ASSUME Types, NEW k
    PROVE  IsFiniteSet(Buyers(k))
<1> DEFINE T == {orders[i].intent.strategy : i \in DOMAIN orders}
           f == [i \in DOMAIN orders |-> orders[i].intent.strategy]
<1>1. f \in Surjection(DOMAIN orders, T)
  BY DEF Surjection
<1>2. IsFiniteSet(DOMAIN orders)
  <2>1. DOMAIN orders = 1..Len(orders) /\ Len(orders) \in Int /\ 1 \in Int
    BY DEF Types, QueueTypes
  <2> QED
    BY <2>1, FS_Interval
<1>3. Buyers(k) \subseteq T
  BY DEF Buyers, Bought
<1> HIDE DEF T, f
<1>4. IsFiniteSet(T)
  BY <1>1, <1>2, FS_Surjection
<1> QED
  BY <1>3, <1>4, FS_Subset

LEMMA OneOf ==
    ASSUME NEW S, \A x, y \in S : x = y
    PROVE  IsFiniteSet(S) /\ Cardinality(S) <= 1 /\ (S # {} => Cardinality(S) = 1)
<1>1. S = {} \/ \E x : S = {x}
  OBVIOUS
<1>2. CASE S = {}
  BY <1>2, FS_EmptySet
<1>3. ASSUME NEW x, S = {x} PROVE IsFiniteSet(S) /\ Cardinality(S) = 1
  BY <1>3, FS_Singleton
<1> QED
  BY <1>1, <1>2, <1>3

LEMMA TheBuyer ==
    ASSUME IInv, NEW k \in Keys, Cardinality(Buyers(k)) = 1
    PROVE  \E s \in Strategies : Buyers(k) = {s} /\ KeyOK(k)
<1>1. IsFiniteSet(Buyers(k))
  BY BuyersAreFinite DEF IInv
<1>2. PICK s : Buyers(k) = {s}
  BY <1>1, FS_Singleton
<1>3. s \in Strategies
  BY <1>2 DEF Buyers
<1>4. KeyOK(k)
  BY <1>2 DEF IInv, KeysOK, OneBuyer
<1> QED
  BY <1>2, <1>3, <1>4

(* One sale of a position is under way at a time, and no more is sold than *)
(* was bought.                                                             *)
THEOREM PositionsAreSoldOnce == Spec => []OneSaleEach
<1>1. IInv => OneSaleEach
  <2> SUFFICES ASSUME IInv, NEW k \in Keys, Cardinality(Buyers(k)) = 1
               PROVE  Cardinality(Sales(k)) <= 1 /\ Cardinality(Offers(k)) <= 1
    BY DEF OneSaleEach, Offers, At
  <2>1. OneSale(k)
    BY TheBuyer DEF KeyOK
  <2> QED
    BY <2>1, OneOf DEF OneSale
<1> QED
  BY <1>1, TradingLoopInvariant, PTL

LEMMA TotalLemma ==
    ASSUME NEW log, NEW k
    PROVE  /\ OfKey(log, k) = <<>> => Total(log, k) = 0
           /\ \A c \in Close : OfKey(log, k) = <<c>> => Total(log, k) = c.size
<1> DEFINE own == OfKey(log, k)
           IsSum(f) == f = [n \in 0..Len(own) |-> IF n = 0 THEN 0 ELSE f[n - 1] + own[n].size]
           sum == CHOOSE f : IsSum(f)
<1>1. Total(log, k) = sum[Len(own)]
  BY Zenon DEF Total
<1>2. ASSUME own = <<>> PROVE Total(log, k) = 0
  <2> DEFINE g == [n \in 0..0 |-> 0]
  <2>1. Len(own) = 0
    BY <1>2
  <2>2. IsSum(g)
    BY <2>1
  <2>3. IsSum(sum)
    BY <2>2, Zenon
  <2>4. sum[0] = 0
    BY <2>1, <2>3
  <2> QED
    BY <1>1, <2>1, <2>4
<1>3. ASSUME NEW c \in Close, own = <<c>> PROVE Total(log, k) = c.size
  <2> DEFINE g == [n \in 0..1 |-> IF n = 0 THEN 0 ELSE c.size]
  <2>1. Len(own) = 1 /\ own[1] = c /\ c.size \in Nat
    BY <1>3 DEF Close
  <2> HIDE DEF own
  <2>2. IsSum(g)
    <3>1. \A n \in 0..1 : g[n] = IF n = 0 THEN 0 ELSE g[n - 1] + own[n].size
      BY <2>1
    <3>2. g = [n \in 0..1 |-> g[n]]
      OBVIOUS
    <3> HIDE DEF g
    <3>3. g = [n \in 0..1 |-> IF n = 0 THEN 0 ELSE g[n - 1] + own[n].size]
      BY <3>1, <3>2
    <3> QED
      BY <2>1, <3>3
  <2>3. IsSum(sum)
    BY <2>2, Zenon
  <2> HIDE DEF sum
  <2>4. sum[0] = 0
    BY <2>1, <2>3
  <2>5. sum[1] = sum[0] + own[1].size
    BY <2>1, <2>3
  <2> QED
    BY <1>1, <2>1, <2>4, <2>5
<1> QED
  BY <1>2, <1>3

LEMMA ClosedOnce ==
    ASSUME Types, NEW k, Len(OfKey(closed, k)) = 1
    PROVE  \E c \in Close : OfKey(closed, k) = <<c>>
<1>1. OfKey(closed, k) \in Seq(Close)
  BY OfKeyLemma DEF Types, PositionTypes
<1> QED
  BY <1>1

(* What a key's only buyer bought is held or closed, once.                 *)
THEOREM WhatIsBoughtIsHeldOrClosed == Spec => []Ledger
<1>1. IInv => Ledger
  <2> SUFFICES ASSUME IInv, NEW k \in Keys, Cardinality(Buyers(k)) = 1, \A i \in DOMAIN fills : fills[i].key # k
               PROVE  LET s == CHOOSE b \in Buyers(k) : TRUE
                      IN position[k].size + Total(closed, k) = Cardinality(Bought(s, k))
    BY DEF Ledger
  <2>1. PICK s \in Strategies : Buyers(k) = {s} /\ KeyOK(k)
    BY TheBuyer
  <2>2. (CHOOSE b \in Buyers(k) : TRUE) = s
    BY <2>1
  <2>3. Cardinality(Bought(s, k)) = 1
    <3>1. Bought(s, k) # {}
      BY <2>1 DEF Buyers
    <3>2. \A i, j \in Bought(s, k) : i = j
      BY DEF IInv, OneBuyEach, Bought
    <3> QED
      BY <3>1, <3>2, OneOf
  <2>4. Types
    BY DEF IInv
  <2>5. position[k].size \in Nat /\ (~IsHeld(k) => position[k].size = 0)
    BY <2>4 DEF Types, PositionTypes
  <2>6. position[k].size + Total(closed, k) = 1
    <3>1. ~NotBought(k)
      BY <2>1 DEF NotBought
    <3>2. ~ToBeBooked(k)
      BY DEF ToBeBooked, Coming, At
    <3>3. CASE Booked(k)
      BY <3>3, TotalLemma DEF Booked
    <3>4. CASE IsClosed(k)
      <4>1. PICK c \in Close : OfKey(closed, k) = <<c>>
        BY <2>4, <3>4, ClosedOnce DEF IsClosed
      <4>2. c.size = 1
        BY <3>4, <4>1 DEF IsClosed
      <4>3. Total(closed, k) = 1
        BY <4>1, <4>2, TotalLemma
      <4> QED
        BY <2>5, <3>4, <4>3 DEF IsClosed
    <3> QED
      BY <2>1, <3>1, <3>2, <3>3, <3>4 DEF KeyOK, Life
  <2> QED
    BY <2>2, <2>3, <2>6
<1> QED
  BY <1>1, TradingLoopInvariant, PTL

(* The strategy's tracker and the position manager agree on a key that has *)
(* one buyer.                                                              *)
THEOREM TheBooksAgree == Spec => []BooksAgree
<1>1. IInv => BooksAgree
  <2> SUFFICES ASSUME IInv, NEW k \in Keys, Cardinality(Buyers(k)) = 1
               PROVE  /\ \A s \in Strategies : tracked[s][k] > 0 => tracked[s][k] = position[k].size
                      /\ OfKey(attributed, k) = OfKey(closed, k)
    BY DEF BooksAgree
  <2>1. Life(k)
    BY TheBuyer DEF KeyOK
  <2>2. CASE Untouched(k) \/ IsClosed(k)
    BY <2>2 DEF Untouched, IsClosed
  <2>3. CASE Booked(k)
    <3>1. OfKey(attributed, k) = OfKey(closed, k)
      BY <2>3 DEF Booked
    <3>2. ASSUME NEW s \in Strategies, tracked[s][k] > 0 PROVE tracked[s][k] = position[k].size
      <4>1. tracked[s][k] = IF s = owner[k] THEN 1 ELSE 0
        BY <2>3 DEF Booked
      <4>2. position[k].size = 1
        BY <2>3 DEF Booked
      <4> QED
        BY <3>2, <4>1, <4>2
    <3> QED
      BY <3>1, <3>2
  <2> QED
    BY <2>1, <2>2, <2>3 DEF Life, NotBought, ToBeBooked
<1> QED
  BY <1>1, TradingLoopInvariant, PTL

-----------------------------------------------------------------------------
(* The settlement *)

LEMMA OnlySettleTakes ==
    ASSUME Types, Next, changes # <<>>, changes' = Tail(changes)
    PROVE  Settle
<1>1. changes \in Seq(ToSet(Markets)) /\ Len(Tail(changes)) = Len(changes) - 1 /\ Len(changes) \in Nat
  <2>1. changes \in Seq(ToSet(Markets))
    BY DEF Types, QueueTypes
  <2> QED
    BY <2>1
<1>2. Tail(changes) # changes
  <2>1. ASSUME NEW n \in Nat PROVE n - 1 # n
    OBVIOUS
  <2>2. Len(Tail(changes)) # Len(changes)
    BY <1>1, <2>1
  <2> QED
    BY <2>2
<1>3. ~Expire
  <2> SUFFICES ASSUME Expire PROVE FALSE
    OBVIOUS
  <2> DEFINE m == Markets[current]
  <2>1. changes' = Append(changes, m) /\ m \in ToSet(Markets)
    BY DEF Expire, Types, QueueTypes, ToSet
  <2> HIDE DEF m
  <2>2. Len(changes') = Len(changes) + 1
    <3> DEFINE X == ToSet(Markets)
               q == changes
    <3>1. q \in Seq(X) /\ m \in X
      BY <1>1, <2>1
    <3> HIDE DEF X, q
    <3>2. Len(Append(q, m)) = Len(q) + 1
      BY <3>1, Appended
    <3> QED
      BY <2>1, <3>2 DEF q
  <2> QED
    BY <1>1, <2>2
<1>4. Fills \/ MarketData => UNCHANGED changes
  BY FillsLemma, MarketDataLemma
<1>5. Portfolio \/ Risk \/ RiskOrders \/ (\E s \in Strategies : Runner(s)) => UNCHANGED changes
  BY DEF Portfolio, Risk, RiskOrders, Runner, queues
<1> QED
  BY <1>2, <1>3, <1>4, <1>5 DEF Next, Tick, Fill

LEMMA JoinedAt ==
    ASSUME NEW X, NEW s \in Seq(X), NEW t \in Seq(X), NEW j \in DOMAIN t
    PROVE  /\ Len(s) + j \in DOMAIN Joined(s, t) /\ Len(s) + j \notin DOMAIN s
           /\ Joined(s, t)[Len(s) + j] = t[j]
<1> DEFINE m == Len(s)
<1>1. /\ DOMAIN (s \o t) = 1..(m + Len(t)) /\ DOMAIN s = 1..m /\ m \in Nat /\ Len(t) \in Nat
      /\ j \in 1..Len(t)
  OBVIOUS
<1>2. (s \o t)[m + j] = t[j]
  BY <1>1
<1>3. m + j \in 1..(m + Len(t)) /\ m + j \notin 1..m
  BY <1>1
<1> QED
  BY <1>1, <1>2, <1>3 DEF Joined

(* A position of an expired market is settled the way its last prices      *)
(* point, in whatever order the positions are closed.                      *)
THEOREM MarketsAreSettledAsQuoted == Spec => SettledAsQuoted
<1>1. IInv /\ [Next]_vars =>
        [\A k \in Keys :
            changes # <<>> /\ changes' = Tail(changes) /\ Head(changes) = k[1] /\ IsHeld(k)
             => \E i \in DOMAIN closed' \ DOMAIN closed :
                   closed'[i].key = k /\ closed'[i].exit \in Verdict(k)]_vars
  <2> SUFFICES ASSUME IInv, [Next]_vars, NEW k \in Keys, changes # <<>>, changes' = Tail(changes),
                      Head(changes) = k[1], IsHeld(k), ~UNCHANGED vars
               PROVE  \E i \in DOMAIN closed' \ DOMAIN closed :
                         closed'[i].key = k /\ closed'[i].exit \in Verdict(k)
    OBVIOUS
  <2>1. Types /\ Settle
    BY OnlySettleTakes DEF IInv
  <2>2. k \in Gone
    <3>1. k \in {Head(changes)} \X Outcomes
      BY DEF Keys
    <3> QED
      BY <2>1, <3>1, OpenLemma DEF IsHeld
  <2>3. PICK j \in DOMAIN Open : Open[j] = k
    BY <2>2 DEF Gone, ToSet
  <2>4. closed \in Seq(Close) /\ Settled \in Seq(Close) /\ j \in DOMAIN Settled /\ Settled[j] = Record(j)
        /\ closed' = Joined(closed, Settled)
    BY <2>1, SettledLemma, SettleLemma DEF Types, PositionTypes
  <2>5. /\ Len(closed) + j \in DOMAIN closed' \ DOMAIN closed /\ closed'[Len(closed) + j] = Record(j)
    BY <2>4, JoinedAt
  <2>6. Record(j).key = k /\ Record(j).exit = Exit(j)
    BY <2>1, <2>3, RecordLemma
  <2>7. Exit(j) \in Verdict(k)
    <3> DEFINE a == last[k]
               b == last[Other(k)]
    <3>1. Exit(j) = Settlement(a, IF j = 1 THEN b ELSE 0)
      BY <2>3 DEF Exit
    <3>2. a \in Nat /\ b \in Nat /\ Half \in Nat
      <4>0. \E o \in Outcomes : o # k[2]
        BY DEF Outcomes
      <4>1. Other(k) \in Keys
        BY <4>0, KeyLemma DEF Other
      <4> QED
        BY <2>1, <4>1, PositionsAssumption DEF Types, PositionTypes, Half
    <3>3. Verdict(k) = IF a > Half /\ a > b THEN {"won"}
                       ELSE IF a > 0 /\ a < Half /\ (b = 0 \/ a <= b) THEN {"lost"}
                       ELSE IF a = 0 THEN {"entry"} ELSE {"won", "lost", "even"}
      BY <3>2 DEF Verdict
    <3> HIDE DEF a, b
    <3>4. CASE j = 1 /\ a > 0 /\ b > 0
      <4>1. Exit(j) = IF a > b THEN "won" ELSE "lost"
        BY <3>1, <3>4 DEF Settlement
      <4> QED
        BY <3>2, <3>3, <3>4, <4>1
    <3>5. CASE ~(j = 1 /\ b > 0) /\ a > 0
      <4>1. Exit(j) = IF a > Half THEN "won" ELSE IF a < Half THEN "lost" ELSE "even"
        BY <3>1, <3>2, <3>5 DEF Settlement, Threshold
      <4> QED
        BY <3>2, <3>3, <3>5, <4>1
    <3>6. CASE a = 0
      <4>1. Exit(j) = "entry"
        BY <3>1, <3>6 DEF Settlement
      <4> QED
        BY <3>2, <3>3, <3>6, <4>1
    <3> QED
      BY <3>2, <3>4, <3>5, <3>6
  <2> QED
    BY <2>5, <2>6, <2>7
<1> QED
  BY <1>1, TradingLoopInvariant, PTL DEF Spec, SettledAsQuoted
=============================================================================
