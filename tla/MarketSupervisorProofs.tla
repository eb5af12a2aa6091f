----------------------- MODULE MarketSupervisorProofs -----------------------
(***************************************************************************)
(* Theorems about MarketSupervisor and the search of MarketDiscovery, for  *)
(* any length and any number of windows, any reach of the search and any   *)
(* number of errors: a search skips no market it should prefer, and the    *)
(* supervisor is not led back from a market that trades.                   *)
(*                                                                         *)
(* Windows are compared by their ranks in a search's plan.  Active markets *)
(* are a set A in the lemmas about the search, since during one they only  *)
(* get fewer among those that were listed at its start.                    *)
(***************************************************************************)
EXTENDS MarketSupervisor, FiniteSetTheorems, SequenceTheorems, TLAPS

(* A market that the venue has listed: only such ones are ever found.      *)
Known(w) == w = None \/ (w \in Windows /\ market[w] # "unlisted")

Search ==
    [at : Nat, from : Nat, started : Windows \cup {None}, soon : Windows \cup {None},
     listed : Windows \cup {None}, erred : BOOLEAN, result : Windows \cup {None}]

(* The venue lists the markets in order, and what was met is listed. *)
VenueOK ==
    /\ now \in Nat /\ market \in [Windows -> {"unlisted", "open", "halted", "closed"}]
    /\ \E n \in Windows : \A w \in Windows : market[w] # "unlisted" <=> w <= n
    /\ Known(cached) /\ Known(current)
    /\ search \in Search /\ search.from <= now
    /\ Known(search.started) /\ Known(search.soon) /\ Known(search.listed) /\ Known(search.result)

-----------------------------------------------------------------------------
(* The windows in reach come in a search's plan in the order of their      *)
(* ranks: those before the lookup k have been looked up.                   *)
Passed(c, w, k) ==
    \/ w > c /\ k > 5 + (w - c)
    \/ w = c /\ k > 2
    \/ w = c - 1 /\ k > 1
    \/ w < c - 1 /\ k > 2 + (c - w)

(* What a search s should not overlook of the markets A that are active. *)
Open(s, A) == {w \in A \cap InReach(CurrentAt(s.from)) : w <= s.listed}

Remembered(s, w) == (s.started # None /\ s.started <= w) \/ (s.soon # None /\ s.soon <= w)

(* The first k - 1 lookups of s have passed over no market that is active, *)
(* but for future ones: the first of them is remembered.                   *)
Swept(s, k, A) ==
    /\ s.started # None =>
          /\ CountsAsStarted(s.from, s.started)
          /\ CurrentAt(s.from) + Priority < s.started /\ s.started + 5 < CurrentAt(s.from) + k
          /\ s.started <= CurrentAt(s.from) + Ahead
    /\ s.soon # None =>
          /\ ~CountsAsStarted(s.from, s.soon)
          /\ CurrentAt(s.from) < s.soon /\ s.soon + 5 < CurrentAt(s.from) + k
          /\ s.soon <= CurrentAt(s.from) + Ahead
    /\ s.erred \/ \A w \in Open(s, A) : Passed(CurrentAt(s.from), w, k) => Remembered(s, w)

(* The result of a search is in reach, and preferred to all it should not  *)
(* have overlooked.                                                        *)
Preferred(s, A) ==
    LET c == CurrentAt(s.from) IN
    /\ s.result # None /\ s.listed # None => c - 3 <= s.result /\ s.result <= c + Ahead
    /\ s.erred \/ \A w \in Open(s, A) : s.result # None /\ Rank(c, s.result) <= Rank(c, w)

Sound(s, A) ==
    /\ s.at > 0 =>
          /\ s.at <= Len(Plan(s.from)) /\ s.result = None /\ s.listed # None
          /\ Swept(s, s.at, A)
          /\ s.at > 5 + Ahead => s.started = None /\ s.soon = None
    /\ s.at = 0 => Preferred(s, A)

Searches == {"starting", "searching", "first", "moving"}

SearchOK ==
    /\ phase \in {"off", "starting", "raised", "sleeping", "searching", "ended", "first", "moving",
                  "announcing first", "announcing"}
    /\ Sound(search, Active)
    /\ search.at > 0 => phase \in {"starting", "searching"}
    /\ phase \notin Searches => search = NoSearch
    /\ phase \in {"first", "moving"} => IsNew(search.result)

(* The cache has the market that was found last. *)
CacheOK ==
    /\ cached \in {None, IF phase \in Searches THEN search.result ELSE current}
    /\ phase \in Searches /\ search.at = 0 /\ search.listed = None => search.result = current
    /\ phase \in Searches /\ search.listed # None => current <= search.listed
    /\ phase \in {"off", "starting", "first"} => current = None
    /\ phase \in {"sleeping", "searching", "moving", "announcing first", "announcing"} => current # None

(* Of the markets before the current one, chosen by a search that was not  *)
(* misled, none that is or was met active is preferred in window c.        *)
Settles(w, c) == w < current => current < c \/ w < c - 3 \/ (current = c /\ w < c - 1)

Epoch == CurrentAt(IF phase \in Searches THEN search.from ELSE now)

SettledOK ==
    ~misled /\ current # None =>
        /\ \A w \in Active : Settles(w, Epoch)
        /\ phase \in Searches =>
              \A w \in {search.result, search.started, search.soon} \ {None} : Settles(w, Epoch)

MInv == VenueOK /\ SearchOK /\ CacheOK /\ SettledOK

-----------------------------------------------------------------------------
LEMMA CurrentLemma ==
    /\ \A t \in Nat : CurrentAt(t) \in Nat /\ CurrentAt(t) * Interval <= t /\ t < EndOf(CurrentAt(t))
    /\ \A t, u \in Nat : t <= u => CurrentAt(t) <= CurrentAt(u)
<1>1. Interval \in Nat /\ Interval > 0
  BY DiscoveryAssumption
<1>2. \A t \in Nat : CurrentAt(t) \in Nat
  BY <1>1 DEF CurrentAt
<1>3. \A t \in Nat : CurrentAt(t) * Interval <= t /\ t < EndOf(CurrentAt(t))
  BY <1>1 DEF CurrentAt, EndOf
<1>4. \A t, u \in Nat : t <= u => CurrentAt(t) <= CurrentAt(u)
  BY <1>1 DEF CurrentAt
<1> QED
  BY <1>2, <1>3, <1>4

LEMMA EndLemma ==
    /\ \A v, w \in Int : EndOf(v) \in Int /\ (v <= w => v * Interval <= w * Interval /\ EndOf(v) <= EndOf(w))
    /\ \A v \in Int : v * Interval \in Int
<1>1. Interval \in Nat /\ Interval > 0
  BY DiscoveryAssumption
<1>2. \A v, w \in Int : v <= w => v * Interval <= w * Interval
  BY <1>1
<1> QED
  BY <1>1, <1>2 DEF EndOf

LEMMA OlderLemma ==
    ASSUME NEW t \in Nat
    PROVE  \E n \in 0..2 : /\ Len(Older(t)) = n /\ Older(t) \in Seq(Int)
                           /\ \A i \in 1..n : Older(t)[i] = CurrentAt(t) + 1 - i
<1> DEFINE c == CurrentAt(t)
           S == {j \in 1..Behind : EndOf(c + 1 - j) >= t}
<1>1. c \in Nat /\ c * Interval <= t
  BY CurrentLemma
<1>2. S \subseteq {1, 2}
  <2> SUFFICES ASSUME NEW j \in S, j > 2 PROVE FALSE
    BY DiscoveryAssumption
  <2>1. j \in Nat /\ EndOf(c + 1 - j) >= t
    BY DiscoveryAssumption
  <2>2. c + 1 - j + 1 <= c - 1
    BY <1>1, <2>1
  <2>3. EndOf(c + 1 - j) <= (c - 1) * Interval
    BY <1>1, <2>1, <2>2, EndLemma DEF EndOf
  <2>4. (c - 1) * Interval < c * Interval
    BY <1>1, DiscoveryAssumption
  <2> QED
    BY <1>1, <2>1, <2>3, <2>4, EndLemma, DiscoveryAssumption
<1>3. IsFiniteSet({1, 2}) /\ Cardinality({1, 2}) <= 2
  <2>1. IsFiniteSet({1}) /\ Cardinality({1}) = 1
    BY FS_Singleton
  <2>2. IsFiniteSet({1} \cup {2}) /\ Cardinality({1} \cup {2}) = 2
    BY <2>1, FS_AddElement
  <2>3. {1} \cup {2} = {1, 2}
    OBVIOUS
  <2> QED
    BY <2>2, <2>3
<1>4. Cardinality(S) \in 0..2
  BY <1>2, <1>3, FS_Subset, FS_CardinalityType
<1> HIDE DEF c, S
<1>5. Older(t) = [i \in 1..Cardinality(S) |-> c + 1 - i]
  BY DEF Older, c, S
<1> QED
  BY <1>1, <1>4, <1>5 DEF c

LEMMA ConcatLemma ==
    ASSUME NEW u \in Seq(Int), NEW v \in Seq(Int)
    PROVE  /\ u \o v \in Seq(Int) /\ Len(u \o v) = Len(u) + Len(v)
           /\ \A i \in 1..Len(u) : (u \o v)[i] = u[i]
           /\ \A i \in 1..Len(v) : (u \o v)[Len(u) + i] = v[i]
<1>1. Len(u) \in Nat /\ Len(v) \in Nat
  BY LenProperties
<1>2. /\ u \o v \in Seq(Int) /\ Len(u \o v) = Len(u) + Len(v)
      /\ \A i \in 1..Len(u) + Len(v) : (u \o v)[i] = IF i <= Len(u) THEN u[i] ELSE v[i - Len(u)]
  BY ConcatProperties
<1>3. ASSUME NEW i \in 1..Len(v) PROVE (u \o v)[Len(u) + i] = v[i]
  <2>1. Len(u) + i \in 1..Len(u) + Len(v) /\ ~(Len(u) + i <= Len(u)) /\ Len(u) + i - Len(u) = i
    BY <1>1
  <2> QED
    BY <1>2, <2>1
<1> QED
  BY <1>1, <1>2, <1>3

LEMMA PlanLemma ==
    ASSUME NEW t \in Nat
    PROVE  /\ Len(Plan(t)) \in 5 + Ahead .. 7 + Ahead
           /\ Plan(t)[1] = CurrentAt(t) - 1 /\ Plan(t)[2] = CurrentAt(t)
           /\ \A i \in 1..3 : Plan(t)[2 + i] = CurrentAt(t) - i
           /\ \A i \in 1..Ahead : Plan(t)[5 + i] = CurrentAt(t) + i
           /\ \A k \in 6 + Ahead .. Len(Plan(t)) : Plan(t)[k] \in {CurrentAt(t), CurrentAt(t) - 1}
<1> DEFINE c == CurrentAt(t)
           P1 == Previous(t) \o <<c>>
           P2 == P1 \o Recent(t)
           P3 == P2 \o Future(t)
<1>1. c \in Int /\ Ahead \in Nat
  BY CurrentLemma, DiscoveryAssumption
<1>2. P1 \in Seq(Int) /\ Len(P1) = 2 /\ P1[1] = c - 1 /\ P1[2] = c
  BY <1>1 DEF Previous
<1> HIDE DEF P1
<1>3. P2 \in Seq(Int) /\ Len(P2) = 5 /\ (\A i \in 1..2 : P2[i] = P1[i]) /\ \A i \in 1..3 : P2[2 + i] = c - i
  <2>1. Recent(t) \in Seq(Int) /\ Len(Recent(t)) = 3 /\ \A i \in 1..3 : Recent(t)[i] = c - i
    BY <1>1 DEF Recent
  <2> HIDE DEF c
  <2>2. /\ P2 \in Seq(Int) /\ Len(P2) = Len(P1) + Len(Recent(t))
        /\ \A i \in 1..Len(P1) : P2[i] = P1[i]
        /\ \A i \in 1..Len(Recent(t)) : P2[Len(P1) + i] = Recent(t)[i]
    BY <1>2, <2>1, ConcatLemma, Zenon DEF P2
  <2>3. Len(P1) = 2 /\ Len(Recent(t)) = 3
    BY <1>2, <2>1
  <2>4. \A i \in 1..2 : P2[i] = P1[i]
    BY <2>2, <2>3
  <2>5. \A i \in 1..3 : P2[2 + i] = Recent(t)[i]
    BY <2>2, <2>3
  <2>6. \A i \in 1..3 : P2[2 + i] = c - i
    BY <2>1, <2>5
  <2>7. P2 \in Seq(Int) /\ Len(P2) = 5
    BY <2>2, <2>3
  <2> QED
    BY <2>4, <2>6, <2>7
<1> HIDE DEF P2
<1>4. /\ P3 \in Seq(Int) /\ Len(P3) = 5 + Ahead /\ (\A i \in 1..5 : P3[i] = P2[i])
      /\ \A i \in 1..Ahead : P3[5 + i] = c + i
  <2>1. Future(t) \in Seq(Int) /\ Len(Future(t)) = Ahead /\ \A i \in 1..Ahead : Future(t)[i] = c + i
    BY <1>1 DEF Future
  <2> HIDE DEF c
  <2>2. /\ P3 \in Seq(Int) /\ Len(P3) = Len(P2) + Len(Future(t))
        /\ \A i \in 1..Len(P2) : P3[i] = P2[i]
        /\ \A i \in 1..Len(Future(t)) : P3[Len(P2) + i] = Future(t)[i]
    BY <1>3, <2>1, ConcatLemma, Zenon DEF P3
  <2> QED
    BY <1>3, <2>1, <2>2
<1> HIDE DEF P3
<1>5. PICK n \in 0..2 :
          /\ Len(Older(t)) = n /\ Older(t) \in Seq(Int)
          /\ \A i \in 1..n : Older(t)[i] = c + 1 - i
  BY OlderLemma
<1>6. Plan(t) = P3 \o Older(t)
  BY DEF Plan, P3, P2, P1
<1>7. /\ Len(Plan(t)) = 5 + Ahead + n
      /\ \A i \in 1..5 + Ahead : Plan(t)[i] = P3[i]
      /\ \A i \in 1..n : Plan(t)[5 + Ahead + i] = c + 1 - i
  <2> HIDE DEF c
  <2>1. /\ Len(Plan(t)) = Len(P3) + Len(Older(t))
        /\ \A i \in 1..Len(P3) : Plan(t)[i] = P3[i]
        /\ \A i \in 1..Len(Older(t)) : Plan(t)[Len(P3) + i] = Older(t)[i]
    <3>1. P3 \in Seq(Int) /\ Older(t) \in Seq(Int)
      BY <1>4, <1>5
    <3> DEFINE all == P3 \o Older(t)
    <3>2. /\ Len(all) = Len(P3) + Len(Older(t))
          /\ \A i \in 1..Len(P3) : all[i] = P3[i]
          /\ \A i \in 1..Len(Older(t)) : all[Len(P3) + i] = Older(t)[i]
      BY <3>1, ConcatLemma, Zenon
    <3>3. Plan(t) = all
      BY <1>6
    <3> HIDE DEF all
    <3> QED
      BY <3>2, <3>3
  <2> QED
    BY <1>1, <1>4, <1>5, <2>1
<1>8. ASSUME NEW k \in 6 + Ahead .. Len(Plan(t)) PROVE Plan(t)[k] \in {c, c - 1}
  <2>1. k - 5 - Ahead \in 1..n
    BY <1>1, <1>7
  <2>2. Plan(t)[5 + Ahead + (k - 5 - Ahead)] = c + 1 - (k - 5 - Ahead)
    BY <1>7, <2>1
  <2>3. 5 + Ahead + (k - 5 - Ahead) = k
    BY <1>1
  <2>4. k - 5 - Ahead \in {1, 2}
    BY <1>1, <2>1
  <2> QED
    BY <1>1, <2>2, <2>3, <2>4
<1>9. /\ Plan(t)[1] = c - 1 /\ Plan(t)[2] = c
      /\ \A i \in 1..3 : Plan(t)[2 + i] = c - i
  BY <1>1, <1>2, <1>3, <1>4, <1>7
<1>10. ASSUME NEW i \in 1..Ahead PROVE Plan(t)[5 + i] = c + i
  <2>1. 5 + i \in 1..5 + Ahead
    BY <1>1
  <2> QED
    BY <1>4, <1>7, <2>1
<1> QED
  BY <1>1, <1>7, <1>8, <1>9, <1>10

(* After the lookup k a window in reach has been passed if it was before,  *)
(* or is the one looked up; after the future windows all have.             *)
LEMMA PassedLemma ==
    ASSUME NEW t \in Nat, NEW w \in InReach(CurrentAt(t)), NEW k \in 1..Len(Plan(t))
    PROVE  /\ Passed(CurrentAt(t), w, k + 1) => Passed(CurrentAt(t), w, k) \/ w = Plan(t)[k]
           /\ k > 5 + Ahead => Passed(CurrentAt(t), w, k)
           /\ k >= 5 + Ahead => Passed(CurrentAt(t), w, k + 1)
<1> DEFINE c == CurrentAt(t)
<1>1. c \in Nat /\ Ahead \in Nat /\ w \in Int /\ w >= c - 3 /\ w <= c + Ahead /\ Len(Plan(t)) \in Nat
  BY CurrentLemma, DiscoveryAssumption, PlanLemma DEF InReach, Windows
<1>2. k > 5 + Ahead => Passed(c, w, k)
  BY <1>1 DEF Passed
<1>3. k >= 5 + Ahead => Passed(c, w, k + 1)
  BY <1>1 DEF Passed
<1>4. ASSUME Passed(c, w, k + 1), ~Passed(c, w, k) PROVE w = Plan(t)[k]
  <2>1. CASE w > c
    <3>1. k = 5 + (w - c) /\ w - c \in 1..Ahead
      BY <1>1, <1>4, <2>1 DEF Passed
    <3>2. Plan(t)[5 + (w - c)] = c + (w - c)
      BY <3>1, PlanLemma
    <3> QED
      BY <1>1, <3>1, <3>2
  <2>2. CASE w = c
    <3>1. Plan(t)[2] = c
      BY PlanLemma
    <3>2. k = 2
      <4> HIDE DEF c
      <4> QED
        BY <1>1, <1>4, <2>2 DEF Passed
    <3> QED
      BY <2>2, <3>1, <3>2
  <2>3. CASE w = c - 1
    <3>1. Plan(t)[1] = c - 1
      BY PlanLemma
    <3>2. k = 1
      <4> HIDE DEF c
      <4> QED
        BY <1>1, <1>4, <2>3 DEF Passed
    <3> QED
      BY <2>3, <3>1, <3>2
  <2>4. CASE w < c - 1
    <3>1. k = 2 + (c - w) /\ c - w \in 1..3
      BY <1>1, <1>4, <2>4 DEF Passed
    <3>2. Plan(t)[2 + (c - w)] = c - (c - w)
      BY <3>1, PlanLemma
    <3> QED
      BY <1>1, <3>1, <3>2
  <2> QED
    BY <1>1, <2>1, <2>2, <2>3, <2>4
<1> QED
  BY <1>2, <1>3, <1>4

LEMMA RankLemma ==
    ASSUME NEW c \in Int, NEW w \in Int, w >= c - 3
    PROVE  /\ Rank(c, c - 1) = 0 /\ Rank(c, c) = 1
           /\ Rank(c, w) \in Nat /\ (w # c - 1 => Rank(c, w) >= 1)
           /\ w > c => Rank(c, w) = 3 + w - c
           /\ w < c - 1 => Rank(c, w) = c - w
BY DEF Rank

(* What is looked up next has the best rank of what has not been passed,   *)
(* when it is one of the first five or a future window.                    *)
LEMMA NextIsBest ==
    ASSUME NEW t \in Nat, NEW w \in InReach(CurrentAt(t)), NEW k \in 1..5 + Ahead,
           ~Passed(CurrentAt(t), w, k)
    PROVE  Rank(CurrentAt(t), Plan(t)[k]) <= Rank(CurrentAt(t), w)
<1> DEFINE c == CurrentAt(t)
<1>1. c \in Nat /\ Ahead \in Nat /\ w \in Int /\ w >= c - 3 /\ w <= c + Ahead
  BY CurrentLemma, DiscoveryAssumption DEF InReach, Windows
<1>2. CASE k > 5
  <2>1. k - 5 \in 1..Ahead /\ 5 + (k - 5) = k
    BY <1>1, <1>2
  <2>2. Plan(t)[k] = c + (k - 5)
    BY <2>1, PlanLemma
  <2>3. w > c /\ w - c >= k - 5
    BY <1>1, <1>2 DEF Passed
  <2> QED
    BY <1>1, <2>1, <2>2, <2>3 DEF Rank
<1>3. CASE k \in 3..5
  <2>1. k - 2 \in 1..3 /\ 2 + (k - 2) = k
    BY <1>1, <1>3
  <2>2. Plan(t)[k] = c - (k - 2)
    BY <2>1, PlanLemma
  <2>3. w > c \/ (w < c - 1 /\ c - w >= k - 2)
    BY <1>1, <1>3 DEF Passed
  <2> QED
    BY <1>1, <2>1, <2>2, <2>3 DEF Rank
<1>4. CASE k = 2
  <2>1. Plan(t)[k] = c
    BY <1>4, PlanLemma
  <2>2. w # c - 1
    BY <1>1, <1>4 DEF Passed
  <2>3. Rank(c, c) = 1 /\ Rank(c, w) >= 1
    <3>1. c \in Int /\ w \in Int /\ w >= c - 3
      BY <1>1
    <3> HIDE DEF c
    <3> QED
      BY <2>2, <3>1, RankLemma
  <2> QED
    BY <2>1, <2>3
<1>5. CASE k = 1
  <2>1. Plan(t)[k] = c - 1
    BY <1>5, PlanLemma
  <2> QED
    BY <1>1, <2>1, RankLemma
<1> QED
  BY <1>1, <1>2, <1>3, <1>4, <1>5

(* Of two markets, the earlier one counts as started if the later does.    *)
LEMMA StartedLemma ==
    ASSUME NEW t \in Nat, NEW v \in Int, NEW w \in Int, v <= w, CountsAsStarted(t, w)
    PROVE  CountsAsStarted(t, v)
<1>1. v * Interval <= w * Interval /\ v * Interval \in Int /\ w * Interval \in Int /\ Near \in Nat
  BY EndLemma, DiscoveryAssumption
<1> QED
  BY <1>1 DEF CountsAsStarted

-----------------------------------------------------------------------------
(* One lookup *)

LEMMA SearchLemma ==
    ASSUME NEW s \in Search
    PROVE  /\ s.from \in Nat /\ CurrentAt(s.from) \in Nat /\ s.at \in Nat
           /\ {s.started, s.soon, s.listed, s.result} \subseteq Windows \cup {None}
           /\ Len(Plan(s.from)) \in Nat /\ Len(Plan(s.from)) >= 5 + Ahead
           /\ \A w \in Windows : w \in Int /\ w # None
           /\ None \in Int /\ Ahead \in Nat /\ Priority \in Nat
           /\ \A w \in Open(s, Active) : w \in Windows /\ w \in InReach(CurrentAt(s.from)) /\ w \in Active
<1>1. Len(Plan(s.from)) \in 5 + Ahead .. 7 + Ahead /\ CurrentAt(s.from) \in Nat
  BY PlanLemma, CurrentLemma DEF Search
<1>2. Ahead \in Nat /\ Behind \in Nat /\ Priority \in Nat /\ Last \in Nat
  BY DiscoveryAssumption
<1>3. \A w \in Windows : w \in Int /\ w # None
  BY <1>2 DEF Windows, None
<1>4. \A w \in Open(s, Active) : w \in Windows /\ w \in InReach(CurrentAt(s.from)) /\ w \in Active
  BY DEF Open, InReach
<1>5. None \in Int
  BY <1>2 DEF None
<1> QED
  BY <1>1, <1>2, <1>3, <1>4, <1>5 DEF Search

(* What the end of a search, or its next lookup, leaves of the search s. *)
Outcome(s, found) ==
    /\ search' \in Search /\ search'.from = s.from /\ search'.listed = s.listed
    /\ Sound(search', Active)
    /\ {search'.result, search'.started, search'.soon} \subseteq {None, s.started, s.soon} \cup found
    /\ cached' = IF search'.result = None THEN cached ELSE search'.result

LEMMA EndsWithRemembered ==
    ASSUME NEW s \in Search, NEW w \in {s.started, s.soon}, w # None, w = s.soon => s.started = None,
           Swept(s, 6 + Ahead, Active), s.listed # None
    PROVE  Preferred([s EXCEPT !.at = 0, !.result = w], Active)
<1> DEFINE e == [s EXCEPT !.at = 0, !.result = w]
           c == CurrentAt(s.from)
<1>1. e \in Search /\ e.from = s.from /\ e.listed = s.listed /\ e.result = w /\ e.erred = s.erred
  BY SearchLemma DEF Search
<1>2. Open(e, Active) = Open(s, Active)
  BY <1>1 DEF Open
<1>3. c \in Nat /\ Ahead \in Nat /\ Priority \in Nat /\ w \in Int /\ c < w /\ w <= c + Ahead
  BY SearchLemma DEF Swept
<1>4. ASSUME NEW v \in Open(s, Active), ~s.erred PROVE Rank(c, w) <= Rank(c, v)
  <2>1. v \in InReach(c) /\ v \in Int /\ Len(Plan(s.from)) \in Nat /\ Len(Plan(s.from)) >= 5 + Ahead /\ s.from \in Nat
    BY SearchLemma
  <2>2. 5 + Ahead \in 1..Len(Plan(s.from)) /\ 5 + Ahead + 1 = 6 + Ahead
    BY <1>3, <2>1
  <2>3. Passed(c, v, 6 + Ahead)
    BY <2>1, <2>2, PassedLemma
  <2>4. Remembered(s, v)
    BY <1>4, <2>3 DEF Swept
  <2>5. w <= v
    <3>1. CASE w = s.started /\ s.soon # None /\ s.soon <= v /\ ~(s.started <= v)
      <4>1. s.soon \in Int /\ s.started \in Int /\ s.soon <= s.started
        BY <2>1, <3>1, SearchLemma
      <4>2. CountsAsStarted(s.from, s.soon)
        BY <2>1, <3>1, <4>1, StartedLemma DEF Swept
      <4> QED
        BY <3>1, <4>2 DEF Swept
    <3> QED
      BY <2>4, <3>1 DEF Remembered
  <2> QED
    BY <1>3, <2>1, <2>5 DEF Rank
<1> QED
  BY <1>1, <1>2, <1>3, <1>4 DEF Preferred

LEMMA GoOnOK ==
    ASSUME NEW s \in Search, s.at \in 1..Len(Plan(s.from)), s.result = None, s.listed # None,
           Swept(s, s.at + 1, Active), s.at > 5 + Ahead => s.started = None /\ s.soon = None, GoOn(s)
    PROVE  Outcome(s, {})
<1> DEFINE c == CurrentAt(s.from)
<1>1. /\ c \in Nat /\ Ahead \in Nat /\ s.at \in Nat /\ s.from \in Nat
      /\ Len(Plan(s.from)) \in Nat /\ Len(Plan(s.from)) >= 5 + Ahead
  BY SearchLemma
<1>2. ASSUME NEW w \in {s.started, s.soon}, w # None, w = s.soon => s.started = None,
             s.at = 5 + Ahead, End(s, w)
      PROVE  Outcome(s, {})
  <2>1. Preferred([s EXCEPT !.at = 0, !.result = w], Active)
    <3>1. s.at + 1 = 6 + Ahead
      BY <1>1, <1>2
    <3> QED
      BY <1>2, <3>1, EndsWithRemembered
  <2>2. search' = [s EXCEPT !.at = 0, !.result = w] /\ cached' = w
    BY <1>2 DEF End
  <2>3. /\ search' \in Search /\ search'.from = s.from /\ search'.listed = s.listed /\ search'.at = 0
        /\ search'.result = w /\ search'.started = s.started /\ search'.soon = s.soon
    BY <2>2, SearchLemma DEF Search
  <2> QED
    BY <1>2, <2>1, <2>2, <2>3 DEF Outcome, Sound
<1>3. CASE s.at = Len(Plan(s.from)) /\ s.started = None /\ s.soon = None /\ End(s, None)
  <2>1. search' = [s EXCEPT !.at = 0, !.result = None] /\ cached' = cached
    BY <1>3 DEF End
  <2>2. /\ search' \in Search /\ search'.from = s.from /\ search'.listed = s.listed /\ search'.at = 0
        /\ search'.result = None /\ search'.started = s.started /\ search'.soon = s.soon
        /\ search'.erred = s.erred
    BY <2>1, SearchLemma DEF Search
  <2>3. ASSUME NEW w \in Open(s, Active) PROVE s.erred
    <3>1. w \in InReach(c)
      BY SearchLemma
    <3>2. s.at >= 5 + Ahead
      BY <1>1, <1>3
    <3>3. Passed(c, w, s.at + 1)
      BY <1>1, <3>1, <3>2, PassedLemma
    <3> QED
      BY <1>3, <3>3 DEF Swept, Remembered
  <2>4. Open(search', Active) = Open(s, Active)
    BY <2>2 DEF Open
  <2>5. Preferred(search', Active)
    BY <2>2, <2>3, <2>4 DEF Preferred
  <2> QED
    BY <2>1, <2>2, <2>5 DEF Outcome, Sound
<1>4. CASE /\ s.at # Len(Plan(s.from))
           /\ s.at >= 5 + Ahead => s.started = None /\ s.soon = None
           /\ search' = [s EXCEPT !.at = @ + 1] /\ cached' = cached
  <2>1. /\ search' \in Search /\ search'.from = s.from /\ search'.listed = s.listed
        /\ search'.at = s.at + 1 /\ search'.erred = s.erred
        /\ search'.result = None /\ search'.started = s.started /\ search'.soon = s.soon
    BY <1>1, <1>4 DEF Search
  <2>2. Open(search', Active) = Open(s, Active)
    BY <2>1 DEF Open
  <2>3. Swept(search', search'.at, Active)
    BY <2>1, <2>2 DEF Swept, Remembered
  <2>4. search'.at <= Len(Plan(s.from)) /\ search'.at > 0
    BY <1>1, <1>4, <2>1
  <2>5. search'.at > 5 + Ahead => search'.started = None /\ search'.soon = None
    BY <1>1, <1>4, <2>1
  <2>6. Sound(search', Active)
    BY <2>1, <2>3, <2>4, <2>5 DEF Sound
  <2> QED
    BY <1>4, <2>1, <2>6 DEF Outcome
<1>5. CASE s.at = 5 + Ahead /\ s.started # None
  <2>1. End(s, s.started)
    BY <1>5, Zenon DEF GoOn
  <2>2. s.started = s.soon => s.started = None
    <3> SUFFICES ASSUME s.started = s.soon, s.started # None PROVE FALSE
      OBVIOUS
    <3> QED
      BY DEF Swept
  <2> QED
    BY <1>2, <1>5, <2>1, <2>2
<1>6. CASE s.at = 5 + Ahead /\ s.started = None /\ s.soon # None
  BY <1>2, <1>6, Zenon DEF GoOn
<1>7. CASE s.at = 5 + Ahead => s.started = None /\ s.soon = None
  <2>1. s.at >= 5 + Ahead => s.started = None /\ s.soon = None
    BY <1>1, <1>7
  <2>2. CASE s.at = Len(Plan(s.from))
    <3>1. s.at >= 5 + Ahead
      BY <1>1, <2>2
    <3>2. End(s, None)
      BY <1>7, <2>2, Zenon DEF GoOn
    <3> QED
      BY <1>3, <2>1, <2>2, <3>1, <3>2
  <2>3. CASE s.at # Len(Plan(s.from))
    <3>1. search' = [s EXCEPT !.at = @ + 1] /\ cached' = cached
      BY <1>7, <2>3, Zenon DEF GoOn
    <3> QED
      BY <1>4, <2>1, <2>3, <3>1
  <2> QED
    BY <2>2, <2>3
<1> QED
  BY <1>5, <1>6, <1>7

LEMMA SweptLemma ==
    ASSUME NEW s \in Search, NEW k \in Nat, Swept(s, k, Active)
    PROVE  /\ s.started # None =>
                /\ CountsAsStarted(s.from, s.started) /\ s.started \in Int
                /\ CurrentAt(s.from) + Priority < s.started /\ s.started + 5 < CurrentAt(s.from) + (k + 1)
                /\ s.started <= CurrentAt(s.from) + Ahead
           /\ s.soon # None =>
                /\ ~CountsAsStarted(s.from, s.soon) /\ s.soon \in Int
                /\ CurrentAt(s.from) < s.soon /\ s.soon + 5 < CurrentAt(s.from) + (k + 1)
                /\ s.soon <= CurrentAt(s.from) + Ahead
<1>1. CurrentAt(s.from) \in Nat
  BY SearchLemma
<1>2. ASSUME s.started # None
      PROVE  /\ CountsAsStarted(s.from, s.started) /\ s.started \in Int
             /\ CurrentAt(s.from) + Priority < s.started /\ s.started + 5 < CurrentAt(s.from) + (k + 1)
             /\ s.started <= CurrentAt(s.from) + Ahead
  <2>1. /\ CountsAsStarted(s.from, s.started) /\ s.started \in Int
        /\ CurrentAt(s.from) + Priority < s.started /\ s.started + 5 < CurrentAt(s.from) + k
        /\ s.started <= CurrentAt(s.from) + Ahead
    BY <1>2, SearchLemma DEF Swept
  <2>2. s.started + 5 < CurrentAt(s.from) + (k + 1)
    BY <1>1, <2>1
  <2> QED
    BY <2>1, <2>2
<1>3. ASSUME s.soon # None
      PROVE  /\ ~CountsAsStarted(s.from, s.soon) /\ s.soon \in Int
             /\ CurrentAt(s.from) < s.soon /\ s.soon + 5 < CurrentAt(s.from) + (k + 1)
             /\ s.soon <= CurrentAt(s.from) + Ahead
  <2>1. /\ ~CountsAsStarted(s.from, s.soon) /\ s.soon \in Int
        /\ CurrentAt(s.from) < s.soon /\ s.soon + 5 < CurrentAt(s.from) + k
        /\ s.soon <= CurrentAt(s.from) + Ahead
    BY <1>3, SearchLemma DEF Swept
  <2>2. s.soon + 5 < CurrentAt(s.from) + (k + 1)
    BY <1>1, <2>1
  <2> QED
    BY <2>1, <2>2
<1> QED
  BY <1>2, <1>3

LEMMA ActiveLemma ==
    \A w : StateOf(w) = "active" <=> w \in Active
BY DEF Active, StateOf

(* A market that was met early in a search, or is the first of the future  *)
(* ones that counts as started, is preferred to what the search has not    *)
(* passed.                                                                 *)
LEMMA EndsWithFound ==
    ASSUME NEW s \in Search, s.at \in 1..Len(Plan(s.from)), Swept(s, s.at, Active), s.listed # None,
           s.at > 5 + Ahead => s.started = None /\ s.soon = None,
           NEW w, w = Plan(s.from)[s.at], w \in Active,
           s.at > 5 /\ s.at <= 5 + Ahead => CountsAsStarted(s.from, w) /\ s.at - 5 <= Priority
    PROVE  Preferred([s EXCEPT !.at = 0, !.result = w], Active)
<1> DEFINE e == [s EXCEPT !.at = 0, !.result = w]
           c == CurrentAt(s.from)
<1>1. /\ c \in Nat /\ Ahead \in Nat /\ Priority \in Nat /\ s.at \in Nat /\ s.from \in Nat /\ w \in Windows
      /\ w \in Int /\ w # None /\ Len(Plan(s.from)) \in Nat /\ Len(Plan(s.from)) >= 5 + Ahead
  BY SearchLemma DEF Active
<1>2. e \in Search /\ e.from = s.from /\ e.listed = s.listed /\ e.result = w /\ e.erred = s.erred
  BY <1>1 DEF Search
<1>3. Open(e, Active) = Open(s, Active)
  BY <1>2 DEF Open
<1>4. c - 3 <= w /\ w <= c + Ahead /\ (s.at > 5 /\ s.at <= 5 + Ahead => w = c + (s.at - 5))
  <2>1. CASE s.at > 5 /\ s.at <= 5 + Ahead
    <3>1. s.at - 5 \in 1..Ahead /\ 5 + (s.at - 5) = s.at
      BY <1>1, <2>1
    <3>2. w = c + (s.at - 5)
      BY <1>1, <3>1, PlanLemma
    <3> QED
      BY <1>1, <3>1, <3>2
  <2>2. CASE s.at > 5 + Ahead
    <3>1. s.at \in 6 + Ahead .. Len(Plan(s.from))
      BY <1>1, <2>2
    <3>2. w \in {c, c - 1}
      BY <1>1, <3>1, PlanLemma
    <3> QED
      BY <1>1, <2>2, <3>2
  <2>3. CASE s.at \in {3, 4, 5}
    <3>1. s.at - 2 \in 1..3 /\ 2 + (s.at - 2) = s.at
      BY <2>3
    <3>2. w = c - (s.at - 2)
      BY <1>1, <3>1, PlanLemma
    <3>3. ~(s.at > 5)
      BY <2>3
    <3>4. \A i \in 1..3 : c - 3 <= c - i /\ c - i <= c + Ahead
      BY <1>1
    <3> QED
      BY <3>1, <3>2, <3>3, <3>4
  <2>4. CASE s.at \in {1, 2}
    <3>1. w = c \/ w = c - 1
      BY <1>1, <2>4, PlanLemma
    <3>2. ~(s.at > 5)
      BY <2>4
    <3>3. c - 3 <= w /\ w <= c + Ahead
      BY <1>1, <3>1
    <3> QED
      BY <3>2, <3>3
  <2> QED
    BY <1>1, <2>1, <2>2, <2>3, <2>4
<1>5. ASSUME NEW v \in Open(s, Active), Remembered(s, v) PROVE FALSE
  <2>1. s.at <= 5 + Ahead
    BY <1>1, <1>5 DEF Remembered
  <2>2. CASE s.started # None
    <3>1. c + Priority < s.started /\ s.started + 5 < c + s.at /\ s.started \in Int
      BY <2>2, SearchLemma DEF Swept
    <3> DEFINE a == s.at
               b == s.started
    <3>2. a > 5 /\ a - 5 > Priority
      <4>1. c \in Nat /\ Priority \in Nat /\ a \in Nat /\ b \in Int /\ c + Priority < b /\ b + 5 < c + a
        BY <1>1, <3>1
      <4> HIDE DEF a, b, c
      <4> QED
        BY <4>1
    <3> QED
      BY <1>1, <2>1, <3>2
  <2>3. CASE s.soon # None
    <3>1. c < s.soon /\ s.soon + 5 < c + s.at /\ s.soon \in Int
      BY <2>3, SearchLemma DEF Swept
    <3>2. s.at > 5 /\ s.soon <= w
      BY <1>1, <1>4, <2>1, <3>1
    <3>3. CountsAsStarted(s.from, s.soon)
      BY <1>1, <2>1, <3>1, <3>2, StartedLemma
    <3> QED
      BY <2>3, <3>3 DEF Swept
  <2> QED
    BY <1>5, <2>2, <2>3 DEF Remembered
<1>6. ASSUME NEW v \in Open(s, Active), ~s.erred PROVE Rank(c, w) <= Rank(c, v)
  <2>1. v \in InReach(c) /\ ~Passed(c, v, s.at)
    BY <1>5, <1>6, SearchLemma DEF Swept
  <2>2. s.at \in 1..5 + Ahead
    BY <1>1, <2>1, PassedLemma
  <2> QED
    BY <1>1, <2>1, <2>2, NextIsBest
<1> QED
  BY <1>1, <1>2, <1>3, <1>4, <1>6 DEF Preferred

LEMMA SoundLemma ==
    ASSUME NEW s \in Search, Sound(s, Active), s.at > 0
    PROVE  /\ s.at \in 1..Len(Plan(s.from)) /\ s.result = None /\ s.listed # None
           /\ Swept(s, s.at, Active) /\ (s.at > 5 + Ahead => s.started = None /\ s.soon = None)
<1>1. s.at \in Nat /\ Len(Plan(s.from)) \in Nat
  BY SearchLemma
<1>2. /\ s.at <= Len(Plan(s.from)) /\ s.result = None /\ s.listed # None /\ Swept(s, s.at, Active)
      /\ (s.at > 5 + Ahead => s.started = None /\ s.soon = None)
  BY DEF Sound
<1> QED
  BY <1>1, <1>2

LEMMA LookupOutcome ==
    ASSUME VenueOK, SearchOK, Lookup
    PROVE  Outcome(search, Active)
<1> DEFINE s == search
           w == Plan(s.from)[s.at]
           c == CurrentAt(s.from)
<1>1. /\ s \in Search /\ s.at \in 1..Len(Plan(s.from)) /\ s.result = None /\ s.listed # None
      /\ Swept(s, s.at, Active) /\ (s.at > 5 + Ahead => s.started = None /\ s.soon = None)
  BY SoundLemma DEF VenueOK, SearchOK, Lookup
<1>2. /\ c \in Nat /\ Ahead \in Nat /\ Priority \in Nat /\ s.at \in Nat /\ s.from \in Nat
      /\ Len(Plan(s.from)) \in Nat /\ Len(Plan(s.from)) >= 5 + Ahead
      /\ (s.started # None => s.started \in Int) /\ (s.soon # None => s.soon \in Int)
  BY <1>1, SearchLemma
<1>3. ASSUME w \in Active, End(s, w), s.at > 5 /\ s.at <= 5 + Ahead => CountsAsStarted(s.from, w) /\ s.at - 5 <= Priority
      PROVE  Outcome(s, Active)
  <2>1. w \in Windows /\ w # None
    BY <1>1, <1>3, SearchLemma DEF Active
  <2>2. Preferred([s EXCEPT !.at = 0, !.result = w], Active)
    BY <1>1, <1>3, EndsWithFound
  <2>3. search' = [s EXCEPT !.at = 0, !.result = w] /\ cached' = w
    BY <1>3, <2>1 DEF End
  <2>4. /\ search' \in Search /\ search'.from = s.from /\ search'.listed = s.listed /\ search'.at = 0
        /\ search'.result = w /\ search'.started = s.started /\ search'.soon = s.soon
    BY <1>1, <2>1, <2>3 DEF Search
  <2> QED
    BY <1>3, <2>1, <2>2, <2>3, <2>4 DEF Outcome, Sound
(* It goes on with r, which may remember w. *)
<1>4. ASSUME NEW r \in Search, GoOn(r), r.from = s.from, r.at = s.at, r.listed = s.listed, r.result = None,
             r.started \in {s.started} \cup Active, r.soon \in {s.soon} \cup Active,
             Swept(r, s.at + 1, Active), s.at > 5 + Ahead => r.started = None /\ r.soon = None
      PROVE  Outcome(s, Active)
  <2>1. Outcome(r, {})
    BY <1>1, <1>4, GoOnOK
  <2> QED
    BY <1>4, <2>1 DEF Outcome
(* Nothing else is passed by this lookup. *)
<1>5. ASSUME NEW v \in Open(s, Active), Passed(c, v, s.at + 1), ~s.erred PROVE Remembered(s, v) \/ v = w
  BY <1>1, <1>2, <1>5, SearchLemma, PassedLemma DEF Swept
<1>6. CASE ~Found(w)
  <2>1. GoOn(s)
    BY <1>6 DEF Lookup
  <2>2. w \notin Active
    BY <1>6, ActiveLemma DEF Found
  <2>3. ASSUME NEW v \in Open(s, Active), Passed(c, v, s.at + 1), ~s.erred PROVE Remembered(s, v)
    BY <1>1, <1>5, <2>2, <2>3, SearchLemma
  <2>4. Swept(s, s.at + 1, Active)
    BY <1>1, <1>2, <2>3, SweptLemma DEF Swept
  <2> QED
    BY <1>1, <1>4, <2>1, <2>4
<1>7. CASE Found(w) /\ ~IsFuture(s.from, s.at)
  <2>1. w \in Active /\ End(s, w)
    BY <1>7, ActiveLemma DEF Found, Lookup
  <2> QED
    BY <1>3, <1>7, <2>1 DEF IsFuture
<1>8. CASE Found(w) /\ IsFuture(s.from, s.at)
  <2>1. w \in Active /\ Remember(w) /\ s.at > 5 /\ s.at <= 5 + Ahead
    BY <1>8, ActiveLemma DEF Found, Lookup, IsFuture
  <2>2. w \in Windows /\ w \in Int /\ w # None /\ w = c + (s.at - 5)
    <3>1. s.at - 5 \in 1..Ahead /\ 5 + (s.at - 5) = s.at
      BY <1>2, <2>1
    <3>2. w = c + (s.at - 5)
      BY <1>2, <3>1, PlanLemma
    <3> QED
      BY <1>1, <2>1, <3>2, SearchLemma DEF Active
  <2>3. CASE CountsAsStarted(s.from, w) /\ s.at - 5 <= Priority
    <3>1. End(s, w)
      BY <2>1, <2>3 DEF Remember
    <3> QED
      BY <1>3, <2>1, <2>3, <3>1
  <2>4. CASE CountsAsStarted(s.from, w) /\ ~(s.at - 5 <= Priority)
    <3> DEFINE r == [s EXCEPT !.started = IF @ = None THEN w ELSE @]
    <3>1. GoOn(r)
      BY <2>1, <2>4 DEF Remember
    <3>2. /\ r \in Search /\ r.from = s.from /\ r.at = s.at /\ r.listed = s.listed /\ r.result = None
          /\ r.erred = s.erred /\ r.soon = s.soon
          /\ r.started = IF s.started = None THEN w ELSE s.started
      BY <1>1, <2>2 DEF Search
    <3> HIDE DEF r
    <3>3. Open(r, Active) = Open(s, Active)
      BY <3>2 DEF Open
    <3>4. s.started # None => s.started <= w
      <4> SUFFICES ASSUME s.started # None PROVE s.started <= w
        OBVIOUS
      <4> DEFINE a == s.at
                 b == s.started
      <4>1. b \in Int /\ a \in Nat /\ c \in Nat /\ b + 5 < c + (a + 1) /\ w = c + (a - 5)
        BY <1>1, <1>2, <2>2, SweptLemma
      <4> HIDE DEF a, b, c, w
      <4>2. b <= w
        BY <4>1
      <4> QED
        BY <4>2 DEF b
    <3>5. ASSUME NEW v \in Open(s, Active), Passed(c, v, s.at + 1), ~s.erred PROVE Remembered(r, v)
      <4>1. Remembered(s, v) \/ v = w
        BY <1>5, <3>5
      <4> QED
        BY <2>2, <3>2, <3>4, <4>1 DEF Remembered
    <3>6. r.started # None =>
             /\ CountsAsStarted(s.from, r.started)
             /\ c + Priority < r.started /\ r.started + 5 < c + (s.at + 1) /\ r.started <= c + Ahead
      <4>1. CASE s.started # None
        BY <1>2, <3>2, <4>1, SweptLemma, <1>1
      <4>2. CASE s.started = None
        <5>1. r.started = w
          BY <3>2, <4>2
        <5>2. c + Priority < w /\ w + 5 < c + (s.at + 1) /\ w <= c + Ahead
          <6> DEFINE a == s.at
          <6>1. /\ c \in Nat /\ Priority \in Nat /\ a \in Nat /\ Ahead \in Nat /\ w = c + (a - 5)
                /\ ~(a - 5 <= Priority) /\ a <= 5 + Ahead
            BY <1>2, <2>1, <2>2, <2>4
          <6> HIDE DEF a, c, w
          <6> QED
            BY <6>1 DEF a
        <5> QED
          BY <2>4, <5>1, <5>2
      <4> QED
        BY <4>1, <4>2
    <3>7. r.soon # None =>
             /\ ~CountsAsStarted(s.from, r.soon)
             /\ c < r.soon /\ r.soon + 5 < c + (s.at + 1) /\ r.soon <= c + Ahead
      BY <1>1, <3>2, SweptLemma
    <3>8. Swept(r, s.at + 1, Active)
      BY <3>2, <3>3, <3>5, <3>6, <3>7 DEF Swept
    <3> QED
      BY <1>2, <1>4, <2>1, <3>1, <3>2, <3>8
  <2>5. CASE ~CountsAsStarted(s.from, w)
    <3> DEFINE r == [s EXCEPT !.soon = IF @ = None THEN w ELSE @]
    <3>1. GoOn(r)
      BY <2>1, <2>5 DEF Remember
    <3>2. /\ r \in Search /\ r.from = s.from /\ r.at = s.at /\ r.listed = s.listed /\ r.result = None
          /\ r.erred = s.erred /\ r.started = s.started
          /\ r.soon = IF s.soon = None THEN w ELSE s.soon
      BY <1>1, <2>2 DEF Search
    <3> HIDE DEF r
    <3>3. Open(r, Active) = Open(s, Active)
      BY <3>2 DEF Open
    <3>4. s.soon # None => s.soon <= w
      <4> SUFFICES ASSUME s.soon # None PROVE s.soon <= w
        OBVIOUS
      <4> DEFINE a == s.at
                 b == s.soon
      <4>1. b \in Int /\ a \in Nat /\ c \in Nat /\ b + 5 < c + (a + 1) /\ w = c + (a - 5)
        BY <1>1, <1>2, <2>2, SweptLemma
      <4> HIDE DEF a, b, c, w
      <4>2. b <= w
        BY <4>1
      <4> QED
        BY <4>2 DEF b
    <3>5. ASSUME NEW v \in Open(s, Active), Passed(c, v, s.at + 1), ~s.erred PROVE Remembered(r, v)
      <4>1. Remembered(s, v) \/ v = w
        BY <1>5, <3>5
      <4> QED
        BY <2>2, <3>2, <3>4, <4>1 DEF Remembered
    <3>6. r.started # None =>
             /\ CountsAsStarted(s.from, r.started)
             /\ c + Priority < r.started /\ r.started + 5 < c + (s.at + 1) /\ r.started <= c + Ahead
      BY <1>1, <3>2, SweptLemma
    <3>7. r.soon # None =>
             /\ ~CountsAsStarted(s.from, r.soon)
             /\ c < r.soon /\ r.soon + 5 < c + (s.at + 1) /\ r.soon <= c + Ahead
      <4>1. CASE s.soon # None
        BY <1>1, <3>2, <4>1, SweptLemma
      <4>2. CASE s.soon = None
        <5>1. r.soon = w
          BY <3>2, <4>2
        <5>2. c < w /\ w + 5 < c + (s.at + 1) /\ w <= c + Ahead
          BY <1>2, <2>1, <2>2
        <5> QED
          BY <2>5, <5>1, <5>2
      <4> QED
        BY <4>1, <4>2
    <3>8. Swept(r, s.at + 1, Active)
      BY <3>2, <3>3, <3>5, <3>6, <3>7 DEF Swept
    <3> QED
      BY <1>2, <1>4, <2>1, <3>1, <3>2, <3>8
  <2> QED
    BY <2>3, <2>4, <2>5
<1> QED
  BY <1>6, <1>7, <1>8

LEMMA FailureOutcome ==
    ASSUME VenueOK, SearchOK, NEW fatal \in BOOLEAN, LookupFails(fatal)
    PROVE  Outcome(search, {})
<1> DEFINE s == [search EXCEPT !.erred = TRUE]
<1>1. /\ search \in Search /\ search.at \in 1..Len(Plan(search.from)) /\ search.result = None
      /\ search.listed # None /\ Swept(search, search.at, Active)
      /\ (search.at > 5 + Ahead => search.started = None /\ search.soon = None)
  BY SoundLemma DEF VenueOK, SearchOK, LookupFails
<1>2. /\ s \in Search /\ s.from = search.from /\ s.at = search.at /\ s.listed = search.listed /\ s.result = None
      /\ s.started = search.started /\ s.soon = search.soon /\ s.erred = TRUE
  BY <1>1 DEF Search
<1>3. GoOn(s) \/ End(s, None)
  BY DEF LookupFails
<1> HIDE DEF s
<1>4. CASE GoOn(s)
  <2>1. s.started # None => s.started \in Int
    BY <1>2, SearchLemma
  <2>2. s.soon # None => s.soon \in Int
    BY <1>2, SearchLemma
  <2>3. CurrentAt(s.from) \in Int /\ s.at \in Nat
    BY <1>2, SearchLemma
  <2>4. Swept(s, s.at + 1, Active)
    BY <1>1, <1>2, <2>1, <2>2, <2>3 DEF Swept
  <2>5. Outcome(s, {})
    BY <1>1, <1>2, <1>4, <2>4, GoOnOK
  <2> QED
    BY <1>2, <2>5 DEF Outcome
<1>5. CASE End(s, None)
  <2>1. search' = [s EXCEPT !.at = 0, !.result = None] /\ cached' = cached
    BY <1>5 DEF End
  <2>2. /\ search' \in Search /\ search'.from = s.from /\ search'.listed = s.listed /\ search'.at = 0
        /\ search'.result = None /\ search'.started = s.started /\ search'.soon = s.soon
        /\ search'.erred = TRUE
    BY <1>2, <2>1 DEF Search
  <2> QED
    BY <1>2, <2>1, <2>2 DEF Outcome, Sound, Preferred
<1> QED
  BY <1>3, <1>4, <1>5

-----------------------------------------------------------------------------
(* The venue and the clock *)

LEMMA NoneLemma ==
    /\ None \in Int /\ None < -3 /\ \A w \in Windows : w \in Nat /\ w # None /\ ~(w <= None)
    /\ \A w \in Windows \cup {None} : w \in Int
BY DiscoveryAssumption DEF None, Windows

LEMMA ListedLemma ==
    ASSUME VenueOK
    PROVE  /\ LastListed \in Windows
           /\ \A w \in Windows : market[w] # "unlisted" <=> w <= LastListed
<1>1. PICK n \in Windows : \A w \in Windows : market[w] # "unlisted" <=> w <= n
  BY DEF VenueOK
<1>2. Last \in Nat /\ n \in 0..Last
  BY <1>1, DiscoveryAssumption DEF Windows
<1> DEFINE P(w) == market[w] # "unlisted" /\ (w + 1 \in Windows => market[w + 1] = "unlisted")
<1>3. P(n)
  BY <1>1, <1>2 DEF Windows
<1>4. ASSUME NEW w \in Windows, P(w) PROVE w = n
  <2>1. w \in 0..Last /\ w <= n
    BY <1>1, <1>4 DEF Windows
  <2>2. w < n => w + 1 \in Windows /\ w + 1 <= n
    BY <1>2, <2>1 DEF Windows
  <2>3. ~(w < n)
    BY <1>1, <1>4, <2>2
  <2> QED
    BY <1>2, <2>1, <2>3
<1>5. LastListed = n
  <2> HIDE DEF P
  <2>1. LastListed = CHOOSE w \in Windows : P(w)
    BY DEF LastListed, P
  <2> QED
    BY <1>1, <1>3, <1>4, <2>1
<1> QED
  BY <1>1, <1>5

LEMMA SoundFewer ==
    ASSUME NEW s \in Search, NEW A, NEW B, Sound(s, B), \A w \in A : w <= s.listed => w \in B
    PROVE  Sound(s, A)
<1>1. Open(s, A) \subseteq Open(s, B)
  BY DEF Open
<1>2. ASSUME NEW k, Swept(s, k, B) PROVE Swept(s, k, A)
  BY <1>1, <1>2 DEF Swept
<1>3. Preferred(s, B) => Preferred(s, A)
  BY <1>1 DEF Preferred
<1> QED
  BY <1>2, <1>3 DEF Sound

LEMMA SettlesLater ==
    ASSUME NEW w \in Int, NEW c \in Int, NEW d \in Int, c <= d, current \in Int, Settles(w, c)
    PROVE  Settles(w, d)
BY DEF Settles

LEMMA EpochLemma ==
    ASSUME VenueOK
    PROVE  /\ Epoch \in Int /\ CurrentAt(now) \in Int /\ CurrentAt(search.from) \in Int
           /\ Epoch <= CurrentAt(now) /\ CurrentAt(search.from) <= CurrentAt(now)
<1>1. now \in Nat /\ search.from \in Nat /\ search.from <= now
  BY DEF VenueOK, Search
<1>2. CurrentAt(now) \in Nat /\ CurrentAt(search.from) \in Nat /\ CurrentAt(search.from) <= CurrentAt(now)
  BY <1>1, CurrentLemma
<1> QED
  BY <1>2 DEF Epoch

LEMMA WorldLemma ==
    ASSUME VenueOK, World
    PROVE  /\ now' \in Nat /\ now <= now' /\ market' \in [Windows -> {"unlisted", "open", "halted", "closed"}]
           /\ \E n \in Windows : \A w \in Windows : market'[w] # "unlisted" <=> w <= n
           /\ \A w \in Windows : market[w] # "unlisted" => market'[w] # "unlisted"
           /\ \A w \in Active' : w \in Windows /\ (market[w] # "unlisted" => w \in Active)
           /\ UNCHANGED <<cached, search>>
<1> USE DEF VenueOK
<1>1. PICK n \in Windows : \A w \in Windows : market[w] # "unlisted" <=> w <= n
  OBVIOUS
<1>2. Last \in Nat /\ Windows = 0..Last
  BY DiscoveryAssumption DEF Windows
<1>3. \A w \in Windows : EndOf(w) \in Int
  BY <1>2, EndLemma
<1>4. CASE Tick
  <2>1. now' = now + 1 /\ UNCHANGED <<market, cached, search>>
    BY <1>4 DEF Tick
  <2>2. \A w \in Windows : now > EndOf(w) => now' > EndOf(w)
    BY <1>3, <2>1
  <2>3. \A w \in Active' : w \in Windows /\ w \in Active
    BY <2>1, <2>2 DEF Active, StateOf, IsExpired
  <2>4. now' \in Nat /\ now <= now'
    BY <2>1
  <2> QED
    BY <1>1, <2>1, <2>3, <2>4
<1>5. ASSUME NEW v \in Windows, List(v) PROVE v = n + 1 /\ market' = [market EXCEPT ![v] = "open"]
  <2>1. market[v] = "unlisted" /\ market[v - 1] # "unlisted" /\ market' = [market EXCEPT ![v] = "open"]
    BY <1>5 DEF List
  <2>2. v > n /\ v - 1 \in Windows
    BY <1>1, <1>2, <2>1
  <2>3. v - 1 <= n
    BY <1>1, <2>1, <2>2
  <2> QED
    BY <1>2, <2>1, <2>2, <2>3
<1>6. CASE \E v \in Windows : List(v)
  <2>1. PICK v \in Windows : List(v)
    BY <1>6
  <2>2. v = n + 1 /\ market' = [market EXCEPT ![v] = "open"] /\ UNCHANGED <<now, cached, search>>
    BY <1>5, <2>1 DEF List
  <2>3. \A w \in Windows : market'[w] # "unlisted" <=> w <= v
    BY <1>1, <1>2, <2>2
  <2>4. \A w \in Windows : w # v => market'[w] = market[w]
    BY <2>2
  <2>5. market[v] = "unlisted"
    BY <2>1 DEF List
  <2>6. \A w \in Active' : w \in Windows /\ (market[w] # "unlisted" => w \in Active)
    BY <2>2, <2>4, <2>5 DEF Active, StateOf, IsExpired
  <2>7. market' \in [Windows -> {"unlisted", "open", "halted", "closed"}]
    BY <2>2
  <2> QED
    BY <2>2, <2>3, <2>4, <2>5, <2>6, <2>7
<1>7. CASE \E v \in Windows : StopTrading(v)
  <2>1. PICK v \in Windows : StopTrading(v)
    BY <1>7
  <2> DEFINE end == IF now < EndOf(v) THEN "halted" ELSE "closed"
  <2>2. /\ market[v] = "open" /\ market' = [market EXCEPT ![v] = end] /\ end \in {"halted", "closed"}
        /\ UNCHANGED <<now, cached, search>>
    BY <2>1 DEF StopTrading
  <2> HIDE DEF end
  <2>3. \A w \in Windows : market'[w] # "unlisted" <=> w <= n
    BY <1>1, <2>2
  <2>4. \A w \in Windows : w # v => market'[w] = market[w]
    BY <2>2
  <2>5. market'[v] \in {"halted", "closed"}
    BY <2>2
  <2>6. \A w \in Active' : w \in Windows /\ (market[w] # "unlisted" => w \in Active)
    BY <2>2, <2>4, <2>5 DEF Active, StateOf, IsExpired
  <2>7. market' \in [Windows -> {"unlisted", "open", "halted", "closed"}]
    BY <2>2
  <2> QED
    BY <1>1, <2>2, <2>3, <2>6, <2>7
<1> QED
  BY <1>4, <1>6, <1>7 DEF World

LEMMA WorldKeeps ==
    ASSUME MInv, World, UNCHANGED supervisor
    PROVE  MInv'
<1> USE DEF MInv, supervisor
<1>1. /\ now' \in Nat /\ now <= now' /\ market' \in [Windows -> {"unlisted", "open", "halted", "closed"}]
      /\ \E n \in Windows : \A w \in Windows : market'[w] # "unlisted" <=> w <= n
      /\ \A w \in Windows : market[w] # "unlisted" => market'[w] # "unlisted"
      /\ \A w \in Active' : w \in Windows /\ (market[w] # "unlisted" => w \in Active)
      /\ UNCHANGED <<cached, search>>
  BY WorldLemma
<1>2. \A w : Known(w) => Known(w)'
  BY <1>1 DEF Known
<1>3. VenueOK'
  <2>1. search \in Search /\ search.from \in Nat /\ search.from <= now /\ now \in Nat
    BY DEF VenueOK, Search
  <2>2. search.from <= now'
    BY <1>1, <2>1
  <2>3. /\ Known(cached)' /\ Known(current)' /\ Known(search.started)' /\ Known(search.soon)'
        /\ Known(search.listed)' /\ Known(search.result)'
    BY <1>1 DEF VenueOK, Known
  <2> QED
    BY <1>1, <2>1, <2>2, <2>3 DEF VenueOK
(* What is active and not later than a listed market was active before. *)
<1>4. ASSUME NEW v, Known(v), NEW w \in Active', w <= v PROVE w \in Active
  <2>1. PICK n \in Windows : \A x \in Windows : market[x] # "unlisted" <=> x <= n
    BY DEF VenueOK
  <2>2. v \in Windows /\ v <= n /\ w \in Windows
    BY <1>1, <1>4, <2>1, NoneLemma DEF Known
  <2>3. w <= n
    BY <1>4, <2>1, <2>2, NoneLemma
  <2> QED
    BY <1>1, <2>1, <2>2, <2>3
<1>5. SearchOK'
  <2>1. Sound(search, Active')
    BY <1>4, SoundFewer DEF VenueOK, SearchOK
  <2> QED
    BY <1>1, <2>1 DEF SearchOK, IsNew
<1>6. CacheOK'
  BY <1>1 DEF CacheOK
<1>7. SettledOK'
  <2> SUFFICES ASSUME ~misled, current # None PROVE SettledOK'
    BY DEF SettledOK
  <2>1. current \in Int /\ Known(current) /\ \A w \in Windows \cup {None} : w \in Int
    BY NoneLemma DEF VenueOK, Known
  <2>2. Epoch \in Int /\ Epoch' \in Int /\ Epoch <= Epoch'
    <3>1. CurrentAt(now') \in Int /\ CurrentAt(now) <= CurrentAt(now')
      BY <1>1, CurrentLemma DEF VenueOK
    <3> QED
      BY <1>1, <3>1, EpochLemma DEF Epoch
  <2>3. ASSUME NEW w \in Int, Settles(w, Epoch) PROVE Settles(w, Epoch')
    BY <2>1, <2>2, <2>3, SettlesLater
  <2>4. ASSUME NEW w \in Active' PROVE Settles(w, Epoch')
    <3>1. w \in Windows /\ w \in Int
      BY <1>1, NoneLemma
    <3>2. CASE w < current
      <4>1. w \in Active
        BY <1>4, <2>1, <3>1, <3>2
      <4> QED
        BY <2>3, <3>1, <4>1 DEF SettledOK
    <3>3. CASE ~(w < current)
      BY <3>3 DEF Settles
    <3> QED
      BY <3>2, <3>3
  <2>5. ASSUME phase \in Searches, NEW w \in {search.result, search.started, search.soon} \ {None}
        PROVE  Settles(w, Epoch')
    <3>1. w \in Int
      BY <2>5, NoneLemma DEF VenueOK, Known
    <3> QED
      BY <2>3, <2>5, <3>1 DEF SettledOK
  <2> QED
    BY <1>1, <2>4, <2>5 DEF SettledOK, Settles
<1> QED
  BY <1>3, <1>5, <1>6, <1>7

(* The variables of the invariant but the cache stay, which may expire. *)
LEMMA ExpiryKeeps ==
    ASSUME MInv, UNCHANGED <<now, market, search, phase, current, misled>>, cached' \in {None, cached}
    PROVE  MInv'
<1>1. Active' = Active /\ Epoch' = Epoch
  BY DEF Active, StateOf, IsExpired, Opened, Epoch
<1>2. VenueOK'
  BY DEF MInv, VenueOK, Known
<1>3. SearchOK' /\ CacheOK'
  BY <1>1 DEF MInv, SearchOK, CacheOK, IsNew
<1>4. SettledOK'
  BY <1>1 DEF MInv, SettledOK, Settles
<1> QED
  BY <1>2, <1>3, <1>4 DEF MInv

LEMMA NoSearchLemma ==
    /\ NoSearch \in Search /\ NoSearch.at = 0 /\ NoSearch.from = 0
    /\ \A x \in {NoSearch.started, NoSearch.soon, NoSearch.listed, NoSearch.result} : x = None
    /\ Sound(NoSearch, Active)
BY NoneLemma DEF Sound, Preferred, Open, NoSearch, Active, Search

(* A phase outside of searches begins, with the market there was. *)
LEMMA RestKeeps ==
    ASSUME MInv, UNCHANGED <<now, market, cached, current, misled>>, search' = NoSearch,
           phase' \in {"raised", "sleeping", "ended"},
           phase \in Searches => search.result \in {None, current},
           phase' = "sleeping" => current # None
    PROVE  MInv'
<1>1. Active' = Active /\ Epoch' = CurrentAt(now)
  BY DEF Active, StateOf, IsExpired, Opened, Epoch, Searches
<1>2. VenueOK'
  BY NoSearchLemma DEF MInv, VenueOK, Known
<1>3. Sound(NoSearch, Active)
  BY NoSearchLemma
<1>4. SearchOK' /\ CacheOK'
  <2>1. phase' \notin Searches
    BY DEF Searches
  <2>2. NoSearch.at = 0
    BY NoSearchLemma
  <2>3. SearchOK'
    <3>1. Sound(search', Active')
      BY <1>1, <1>3
    <3>2. search'.at = 0
      BY <2>2
    <3>3. phase' \notin {"first", "moving"}
      OBVIOUS
    <3>4. search'.at > 0 => phase' \in {"starting", "searching"}
      BY <3>2
    <3> QED
      BY <2>1, <3>1, <3>3, <3>4 DEF SearchOK, IsNew
  <2>4. cached \in {None, current}
    BY DEF MInv, CacheOK
  <2>5. CacheOK'
    BY <2>1, <2>4 DEF CacheOK
  <2> QED
    BY <2>3, <2>5
<1>5. SettledOK'
  <2> SUFFICES ASSUME ~misled, current # None, NEW w \in Active PROVE Settles(w, CurrentAt(now))
    BY <1>1 DEF SettledOK, Settles, Searches
  <2>1. w \in Int /\ current \in Int /\ Settles(w, Epoch)
    BY NoneLemma DEF MInv, VenueOK, Known, SettledOK, Active
  <2> QED
    BY <2>1, EpochLemma, SettlesLater DEF MInv
<1> QED
  BY <1>2, <1>4, <1>5 DEF MInv

-----------------------------------------------------------------------------
(* Searches *)

LEMMA BeginKeeps ==
    ASSUME MInv, BeginSearch, UNCHANGED <<current, misled>>,
           \/ phase = "off" /\ phase' = "starting"
           \/ phase = "sleeping" /\ phase' = "searching"
    PROVE  MInv'
<1> USE DEF MInv
<1>1. /\ phase \notin Searches /\ phase' \in Searches /\ phase' \in {"starting", "searching"}
      /\ UNCHANGED <<now, market>> /\ Active' = Active
  BY DEF Searches, BeginSearch, Active, StateOf, IsExpired, Opened
<1>2. now \in Nat /\ CurrentAt(now) \in Nat
  BY CurrentLemma DEF VenueOK
<1>3. Hit => cached # None /\ cached = current
  <2>1. cached \in {None, current}
    BY <1>1 DEF CacheOK
  <2>2. Hit => cached >= -1
    BY <1>2 DEF Hit
  <2>3. ~(None >= -1)
    BY NoneLemma
  <2> QED
    BY <2>1, <2>2, <2>3
<1>4. search'.from = now /\ search'.started = None /\ search'.soon = None /\ search'.erred = FALSE
  BY DEF BeginSearch, NoSearch
<1>5. CASE Hit
  <2>1. /\ search' \in Search /\ search'.at = 0 /\ search'.listed = None /\ search'.result = current
        /\ cached' = cached
    BY <1>2, <1>3, <1>5 DEF BeginSearch, NoSearch, Search, VenueOK, Known
  <2>2. Sound(search', Active')
    BY <1>1, <2>1, NoneLemma DEF Sound, Preferred, Open, Active
  <2>3. VenueOK'
    BY <1>1, <1>2, <1>4, <2>1 DEF VenueOK, Known
  <2>4. SearchOK'
    BY <1>1, <2>1, <2>2 DEF SearchOK, Searches
  <2>5. CacheOK'
    BY <1>1, <1>3, <1>5, <2>1 DEF CacheOK
  <2>6. SettledOK'
    <3> SUFFICES ASSUME ~misled, current # None PROVE SettledOK'
      BY DEF SettledOK
    <3>1. Epoch = CurrentAt(now) /\ Epoch' = CurrentAt(now)
      BY <1>1, <1>4 DEF Epoch
    <3>2. \A w \in Active : Settles(w, Epoch)
      BY DEF SettledOK
    <3>3. Settles(current, Epoch)
      BY NoneLemma DEF Settles, VenueOK, Known
    <3> QED
      BY <1>1, <1>4, <2>1, <3>1, <3>2, <3>3 DEF SettledOK, Settles
  <2> QED
    BY <2>3, <2>4, <2>5, <2>6
<1>6. CASE ~Hit
  <2>1. /\ LastListed \in Windows /\ market[LastListed] # "unlisted" /\ Known(LastListed)
        /\ current <= LastListed
    BY ListedLemma, NoneLemma DEF VenueOK, Known
  <2>2. /\ search' \in Search /\ search'.at = 1 /\ search'.listed = LastListed /\ search'.result = None
        /\ cached' = None
    BY <1>2, <1>6, <2>1 DEF BeginSearch, NoSearch, Search
  <2>3. Swept(search', 1, Active)
    <3>1. ASSUME NEW w \in Open(search', Active) PROVE ~Passed(CurrentAt(now), w, 1)
      <4>1. w \in Int
        BY <1>2, <3>1, NoneLemma DEF Open, InReach
      <4> QED
        BY <1>2, <4>1 DEF Passed
    <3> QED
      BY <1>4, <3>1 DEF Swept
  <2>4. Sound(search', Active')
    <3>1. Len(Plan(now)) >= 1 /\ ~(1 > 5 + Ahead)
      <4>1. Len(Plan(now)) \in 5 + Ahead .. 7 + Ahead /\ Ahead \in Nat
        BY <1>2, PlanLemma, DiscoveryAssumption
      <4> QED
        BY <4>1
    <3> QED
      BY <1>1, <1>4, <2>1, <2>2, <2>3, <3>1, NoneLemma DEF Sound
  <2>5. VenueOK'
    BY <1>1, <1>2, <1>4, <2>1, <2>2 DEF VenueOK, Known
  <2>6. SearchOK'
    BY <1>1, <2>2, <2>4 DEF SearchOK, Searches
  <2>7. CacheOK'
    <3>1. /\ phase' \in {"starting"} => current = None
          /\ phase' \in {"searching"} => current # None
      BY DEF CacheOK
    <3> QED
      BY <1>1, <2>1, <2>2, <3>1, NoneLemma DEF CacheOK
  <2>8. SettledOK'
    <3>1. Epoch = CurrentAt(now) /\ Epoch' = CurrentAt(now)
      BY <1>1, <1>4 DEF Epoch
    <3> QED
      BY <1>1, <1>4, <2>2, <3>1 DEF SettledOK, Settles
  <2> QED
    BY <2>5, <2>6, <2>7, <2>8
<1> QED
  BY <1>5, <1>6

LEMMA LookupKeeps ==
    ASSUME MInv, Lookup \/ \E fatal \in BOOLEAN : LookupFails(fatal), UNCHANGED supervisor
    PROVE  MInv'
<1> USE DEF MInv, supervisor
<1>1. Outcome(search, Active)
  BY LookupOutcome, FailureOutcome DEF Outcome
<1>2. /\ UNCHANGED <<now, market, current, misled, phase>> /\ Active' = Active
      /\ search.at > 0
  BY DEF Lookup, LookupFails, Active, StateOf, IsExpired, Opened
<1>3. /\ search.result = None /\ search.listed # None /\ phase \in {"starting", "searching"} /\ phase \in Searches
      /\ cached = None
  BY <1>2 DEF SearchOK, Sound, CacheOK, Searches
<1>4. /\ search' \in Search /\ search'.from = search.from /\ search'.listed = search.listed
      /\ Sound(search', Active')
      /\ {search'.result, search'.started, search'.soon} \subseteq {None, search.started, search.soon} \cup Active
      /\ cached' = search'.result
  BY <1>1, <1>2, <1>3 DEF Outcome
<1>5. \A w \in Active : Known(w)
  BY DEF Active, StateOf, Known
<1>6. VenueOK'
  <2>1. /\ Known(search'.result) /\ Known(search'.started) /\ Known(search'.soon) /\ Known(search'.listed)
        /\ Known(current)
    BY <1>4, <1>5 DEF VenueOK, Known
  <2> QED
    BY <1>2, <1>4, <2>1 DEF VenueOK, Known
<1>7. SearchOK'
  BY <1>2, <1>3, <1>4 DEF SearchOK
<1>8. CacheOK'
  BY <1>2, <1>3, <1>4 DEF CacheOK
<1>9. SettledOK'
  <2>1. Epoch' = Epoch
    BY <1>2, <1>3, <1>4 DEF Epoch
  <2> QED
    BY <1>2, <1>3, <1>4, <2>1 DEF SettledOK, Settles
<1> QED
  BY <1>6, <1>7, <1>8, <1>9

-----------------------------------------------------------------------------
(* Transitions *)

LEMMA LeaveKeeps ==
    ASSUME MInv, Leave
    PROVE  MInv'
<1> USE DEF MInv
<1>1. /\ UNCHANGED <<now, market, cached, search, current, misled>> /\ phase \in Searches /\ phase' \in Searches
      /\ search.at = 0 /\ IsNew(search.result)
      /\ \/ phase = "starting" /\ phase' = "first"
         \/ phase = "searching" /\ phase' = "moving"
      /\ Active' = Active
  BY DEF Leave, discovery, Searches, Active, StateOf, IsExpired, Opened
<1>2. Epoch' = Epoch
  BY <1>1 DEF Epoch
<1>3. VenueOK'
  BY <1>1 DEF VenueOK, Known
<1>4. SearchOK'
  <2>1. Sound(search', Active')
    BY <1>1 DEF SearchOK
  <2>2. phase' \in {"first", "moving"}
    BY <1>1
  <2>3. search'.at > 0 => phase' \in {"starting", "searching"}
    <3>1. ~(search'.at > 0)
      BY <1>1
    <3> QED
      BY <3>1
  <2> QED
    BY <1>1, <2>1, <2>2, <2>3 DEF SearchOK, IsNew
<1>5. CacheOK'
  BY <1>1 DEF CacheOK
<1>6. SettledOK'
  BY <1>1, <1>2 DEF SettledOK, Settles
<1> QED
  BY <1>3, <1>4, <1>5, <1>6

(* The market that is entered was looked for among those of its search,    *)
(* and preferred to those that were active all along.                      *)
LEMMA EnteredLemma ==
    ASSUME MInv, phase \in {"first", "moving"}
    PROVE  /\ search.at = 0 /\ search.result # None /\ search.result # current /\ Known(search.result)
           /\ search.listed # None /\ current <= search.listed
           /\ LET c == CurrentAt(search.from) IN
              /\ c \in Nat /\ c - 3 <= search.result /\ search.result <= c + Ahead
              /\ \A w \in Active \cap InReach(c) :
                    w <= search.listed => search.erred \/ Rank(c, search.result) <= Rank(c, w)
<1> USE DEF MInv
<1>1. phase \in Searches /\ search \in Search /\ Sound(search, Active)
  BY DEF Searches, VenueOK, SearchOK
<1>2. search.at = 0 /\ search.result # None /\ search.result # current /\ Known(search.result)
  <2>1. search.at \in Nat /\ ~(search.at > 0)
    BY <1>1, SearchLemma DEF SearchOK
  <2>2. IsNew(search.result) /\ Known(search.result)
    BY DEF SearchOK, VenueOK
  <2> QED
    BY <2>1, <2>2 DEF IsNew
<1>3. search.listed # None /\ current <= search.listed
  BY <1>1, <1>2 DEF CacheOK
<1>4. CurrentAt(search.from) \in Nat
  BY <1>1, SearchLemma
<1>5. Preferred(search, Active)
  BY <1>1, <1>2 DEF Sound
<1> QED
  BY <1>2, <1>3, <1>4, <1>5 DEF Preferred, Open

(* Of two markets of which the later one is preferred, in window c.        *)
LEMMA LaterIsPreferred ==
    ASSUME NEW c \in Nat, NEW v \in Int, NEW w \in Int, w < v, w >= c - 3, Rank(c, v) <= Rank(c, w)
    PROVE  v < c \/ (v = c /\ w < c - 1)
BY DEF Rank

LEMMA EnterKeeps ==
    ASSUME MInv, NEW ok \in BOOLEAN, Enter(ok)
    PROVE  MInv'
<1> USE DEF MInv
<1>1. /\ UNCHANGED <<now, market, cached>> /\ phase \in {"first", "moving"} /\ phase \in Searches
      /\ current' = search.result /\ misled' = (search.erred \/ LastListed > search.listed)
      /\ search' = NoSearch /\ Active' = Active
      /\ phase' \in {"announcing first", "announcing", "raised", "sleeping"}
  BY DEF Enter, Searches, Active, StateOf, IsExpired, Opened
<1>2. /\ search.at = 0 /\ search.result # None /\ Known(search.result) /\ search.listed # None
      /\ LET c == CurrentAt(search.from) IN
         /\ c \in Nat /\ c - 3 <= search.result /\ search.result <= c + Ahead
         /\ \A w \in Active \cap InReach(c) :
               w <= search.listed => search.erred \/ Rank(c, search.result) <= Rank(c, w)
  BY <1>1, EnteredLemma
<1>3. VenueOK'
  <2>1. Known(None) /\ now \in Nat
    BY DEF Known, VenueOK
  <2>2. search' \in Search /\ search'.from <= now
    <3>1. search'.from = 0 /\ search' \in Search
      BY <1>1, NoSearchLemma
    <3> QED
      BY <2>1, <3>1
  <2>3. \A x \in {search'.started, search'.soon, search'.listed, search'.result} : x = None
    BY <1>1, NoSearchLemma
  <2>4. \A x : Known(x) => (x = None \/ (x \in Windows /\ market'[x] # "unlisted"))
    BY <1>1 DEF Known
  <2> QED
    BY <1>1, <1>2, <2>1, <2>2, <2>3, <2>4 DEF VenueOK, Known
<1>4. SearchOK'
  <2>1. phase' \notin Searches
    BY <1>1 DEF Searches
  <2>2. Sound(search', Active')
    BY <1>1, NoSearchLemma
  <2>3. search'.at = 0
    BY <1>1, NoSearchLemma
  <2>4. search'.at > 0 => phase' \in {"starting", "searching"}
    BY <2>3
  <2> QED
    BY <1>1, <2>1, <2>2, <2>4 DEF SearchOK, IsNew
<1>5. CacheOK'
  <2>1. cached \in {None, search.result}
    BY <1>1 DEF CacheOK
  <2>2. phase' \notin Searches
    BY <1>1 DEF Searches
  <2> QED
    BY <1>1, <1>2, <2>1, <2>2 DEF CacheOK
<1>6. SettledOK'
  <2> DEFINE c == CurrentAt(search.from)
             v == search.result
  <2>1. phase' \notin Searches
    BY <1>1 DEF Searches
  <2>2. SUFFICES ASSUME ~misled', NEW w \in Active, w < v
                 PROVE  v < CurrentAt(now) \/ w < CurrentAt(now) - 3 \/ (v = CurrentAt(now) /\ w < CurrentAt(now) - 1)
    BY <1>1, <2>1 DEF SettledOK, Settles, Epoch
  <2>3. /\ v \in Int /\ w \in Windows /\ w \in Int /\ market[w] # "unlisted" /\ ~search.erred
        /\ ~(LastListed > search.listed)
    BY <1>1, <1>2, <2>2, NoneLemma DEF Known, Active, StateOf
  <2>4. w <= LastListed /\ LastListed \in Int /\ search.listed \in Int
    BY <2>3, ListedLemma, NoneLemma DEF VenueOK, Known
  <2>5. c \in Nat /\ CurrentAt(now) \in Int /\ c <= CurrentAt(now) /\ Ahead \in Nat
    BY <1>2, EpochLemma, DiscoveryAssumption
  <2>6. CASE w >= c - 3
    <3>1. w \in InReach(c)
      BY <1>2, <2>2, <2>3, <2>5, <2>6 DEF InReach
    <3>2. Rank(c, v) <= Rank(c, w)
      BY <1>2, <2>3, <2>4, <3>1
    <3>3. v < c \/ (v = c /\ w < c - 1)
      BY <2>2, <2>3, <2>5, <2>6, <3>2, LaterIsPreferred
    <3> HIDE DEF c, v
    <3> QED
      BY <2>3, <2>5, <3>3
  <2>7. CASE ~(w >= c - 3)
    <3> HIDE DEF c, v
    <3> QED
      BY <2>3, <2>5, <2>7
  <2> QED
    BY <2>6, <2>7
<1> QED
  BY <1>3, <1>4, <1>5, <1>6

-----------------------------------------------------------------------------
(* The theorems *)

LEMMA InitOK ==
    Init => MInv
<1> SUFFICES ASSUME Init PROVE MInv
  OBVIOUS
<1>1. /\ now = 0 /\ cached = None /\ search = NoSearch /\ phase = "off" /\ current = None /\ None \in Int
      /\ \E n \in Windows : market = [w \in Windows |-> IF w <= n THEN "open" ELSE "unlisted"]
  BY NoneLemma DEF Init, DiscoveryInit
<1>2. VenueOK
  BY <1>1, NoSearchLemma DEF VenueOK, Known
<1>3. SearchOK
  <2>1. Sound(search, Active) /\ ~(search.at > 0)
    BY <1>1, NoSearchLemma
  <2> QED
    BY <1>1, <2>1 DEF SearchOK
<1>4. CacheOK /\ SettledOK
  BY <1>1 DEF CacheOK, SettledOK, Searches
<1> QED
  BY <1>2, <1>3, <1>4 DEF MInv

LEMMA NextKeeps ==
    MInv /\ [Next]_vars => MInv'
<1> SUFFICES ASSUME MInv, [Next]_vars PROVE MInv'
  OBVIOUS
<1>1. CASE Start
  BY <1>1, BeginKeeps DEF Start
<1>2. CASE StartFails
  <2>1. phase \notin {"sleeping"} /\ phase' = "raised" /\ search.result = None
    BY <1>2 DEF StartFails
  <2> QED
    BY <1>2, <2>1, RestKeeps DEF StartFails
<1>3. CASE Monitor
  BY <1>3, BeginKeeps DEF Monitor
<1>4. CASE MonitorEnds
  <2>1. phase \notin Searches /\ phase' = "ended" /\ search = NoSearch /\ UNCHANGED discovery
    BY <1>4 DEF MonitorEnds, Searches, MInv, SearchOK
  <2> QED
    BY <1>4, <2>1, RestKeeps DEF MonitorEnds, discovery
<1>5. CASE NothingNew
  <2>1. phase' = "sleeping" /\ search.result \in {None, current} /\ current # None
    BY <1>5 DEF NothingNew, IsNew, MInv, CacheOK
  <2> QED
    BY <1>5, <2>1, RestKeeps DEF NothingNew
<1>6. CASE Leave
  BY <1>6, LeaveKeeps
<1>7. CASE Enter(TRUE) \/ Enter(FALSE)
  BY <1>7, EnterKeeps
<1>8. CASE Announce
  <2>1. /\ phase \notin Searches /\ phase' = "sleeping" /\ search = NoSearch /\ UNCHANGED discovery
        /\ current # None
    BY <1>8 DEF Announce, Searches, MInv, SearchOK, CacheOK
  <2> QED
    BY <1>8, <2>1, RestKeeps DEF Announce, discovery
<1>9. CASE LookupStep
  BY <1>9, LookupKeeps DEF LookupStep
<1>10. CASE Venue
  BY <1>10, LookupKeeps, WorldKeeps DEF Venue
<1>11. CASE Expire
  BY <1>11, ExpiryKeeps DEF Expire, CacheExpires, supervisor
<1>12. CASE ObserverDies \/ Stop \/ UNCHANGED vars
  BY <1>12, ExpiryKeeps DEF ObserverDies, Stop, vars, discovery, supervisor
<1> QED
  BY <1>1, <1>2, <1>3, <1>4, <1>5, <1>6, <1>7, <1>8, <1>9, <1>10, <1>11, <1>12 DEF Next, Task

(* The inductive invariant. *)
THEOREM MarketInvariant == Spec => []MInv
BY InitOK, NextKeeps, PTL DEF Spec

(* A search without errors skips no market that was active all along, and  *)
(* prefers none to the one that trades now (get_current_market).           *)
THEOREM NoMarketIsSkipped == Spec => []NothingSkipped
<1>1. MInv => NothingSkipped
  <2> SUFFICES ASSUME MInv, search.at = 0, ~search.erred, NEW w \in Active \cap InReach(CurrentAt(search.from)),
                      w <= search.listed
               PROVE  /\ search.result # None
                      /\ Rank(CurrentAt(search.from), search.result) <= Rank(CurrentAt(search.from), w)
    BY DEF NothingSkipped
  <2>1. Preferred(search, Active) /\ w \in Open(search, Active)
    BY DEF MInv, SearchOK, Sound, Open
  <2> QED
    BY <2>1 DEF Preferred
<1> QED
  BY <1>1, MarketInvariant, PTL

(* The supervisor goes back from a market that trades only if it was       *)
(* misled (_monitor_market, _transition_to_market).                        *)
THEOREM NeverBackUnlessMisled == Spec => BackOnlyIfMisled
<1>1. ASSUME MInv, NEW ok \in BOOLEAN, Enter(ok), current' < current, current \in Active, ~misled, ~search.erred
      PROVE  FALSE
  <2> DEFINE c == CurrentAt(search.from)
             v == search.result
  <2>1. phase \in {"first", "moving"} /\ phase \in Searches /\ current' = v
    BY <1>1 DEF Enter, Searches
  <2>2. /\ v # None /\ Known(v) /\ current <= search.listed /\ c \in Nat /\ c - 3 <= v
        /\ \A w \in Active \cap InReach(c) : w <= search.listed => Rank(c, v) <= Rank(c, w)
    BY <1>1, <2>1, EnteredLemma
  <2>3. v \in Int /\ current \in Windows /\ current \in Int /\ current # None /\ v < current /\ Ahead \in Nat
    BY <1>1, <2>1, <2>2, NoneLemma, DiscoveryAssumption DEF Known, Active
  <2>4. Settles(v, c)
    BY <1>1, <2>1, <2>2, <2>3 DEF MInv, SettledOK, Epoch
  <2>5. current < c \/ (current = c /\ v < c - 1)
    <3>1. ~(v < c - 3)
      BY <2>2, <2>3
    <3> QED
      BY <2>3, <2>4, <3>1 DEF Settles
  <2>6. current \in InReach(c)
    <3>1. current >= c - 3 /\ current <= c + Ahead
      <4> HIDE DEF c, v
      <4> QED
        BY <2>2, <2>3, <2>5
    <3> QED
      BY <2>3, <3>1 DEF InReach
  <2>7. Rank(c, v) <= Rank(c, current)
    BY <1>1, <2>2, <2>6
  <2> HIDE DEF c, v
  <2> QED
    BY <2>2, <2>3, <2>5, <2>7 DEF Rank
<1>2. MInv /\ [Next]_vars => [current' < current /\ current \in Active => misled \/ search.erred]_vars
  <2> SUFFICES ASSUME MInv, Next, current' < current, current \in Active, ~misled, ~search.erred
               PROVE  FALSE
    OBVIOUS
  <2>1. current \in Int
    BY NoneLemma DEF Active
  <2>2. CASE \E ok \in BOOLEAN : Enter(ok)
    BY <1>1, <2>2
  <2>3. CASE ~\E ok \in BOOLEAN : Enter(ok)
    <3>1. current' = current
      BY <2>3 DEF Next, Task, Start, StartFails, Monitor, MonitorEnds, NothingNew, Leave, Announce,
                  LookupStep, Venue, Expire, ObserverDies, Stop, supervisor
    <3> QED
      BY <2>1, <3>1
  <2> QED
    BY <2>2, <2>3
<1> QED
  BY <1>2, MarketInvariant, PTL DEF Spec, BackOnlyIfMisled
=============================================================================
