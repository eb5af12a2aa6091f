-------------------------- MODULE SupervisorProofs --------------------------
(***************************************************************************)
(* Theorems about SystemSupervisor, for any orders, sizes, thresholds,     *)
(* failures of services and bounds: types, the order in which services     *)
(* come and go, what a trip of the breaker means and how long it holds,    *)
(* and what the boot permit says about the orders.                         *)
(***************************************************************************)
EXTENDS SystemSupervisor, SequenceTheorems, FiniteSetTheorems, TLAPS

Stages == {"off", "loading", "created", "reconstructed", "reconciling", "reconciled",
           "services", "up", "failed", "stopping"}

(* The stages of start before the services. *)
Early == {"loading", "created", "reconstructed", "reconciling", "reconciled"}

Messages == {"ack", "fill", "end"}
Stoppable == {"sink", "loop", "stream", "positions", "router", "oms", "risk", "portfolio"}

Control == [enabled : BOOLEAN, killed : BOOLEAN]
Round   == [phase : {"idle", "asked", "answered", "refused", "raised"}, snap : [Orders -> View],
            was : [Orders -> View], list : [Orders -> {"absent", "OPEN", "UNKNOWN"}]]

(* Types of the variables the properties speak of. *)
Types ==
    /\ venue \in [Orders -> View] /\ oms \in [Orders -> View] /\ log \in [Orders -> View]
    /\ before \in [Orders -> View] /\ mail \in [Orders -> Seq(Messages)]
    /\ calls \in [Orders -> {"none", "open", "cut"}]
    /\ watch \in Round
    /\ breaker \in {"none", "closed", "open"}
    /\ control \in Control
    /\ faults \in [lost : Nat, fetch : 0..MaxFetchErrors]
    /\ stage \in Stages /\ at \in Nat /\ running \subseteq Stoppable \cup {"breaker"}
    /\ IsFiniteSet(found)

(* Services are started and stopped one after the other; who reconciles    *)
(* does so while starting, or in a loop that is stopped second.            *)
StagesOK ==
    /\ stage \in Early \cup {"off"} => running \subseteq {"breaker"}
    /\ stage \in Early => at = 0
    /\ stage = "services" => at <= 8 /\ (3 <= at => "oms" \in running)
    /\ stage = "stopping" => at < 8 /\ \A i \in 1..at : StopOrder[i] \notin running
    /\ "stream" \in running => "oms" \in running
    /\ watch.phase # "idle" => \/ stage \in {"reconciling", "services", "up", "failed"}
                               \/ stage = "stopping" /\ at < 2

(* From a trip on execution is disabled, and the breaker is open until the *)
(* next start has made a new one: then no gate is evaluated any more.      *)
TripOK ==
    tripped = "yes" => /\ ~control.enabled
                       /\ breaker = "open" \/ (stage = "services" /\ at = 8)

(* How an order may change at the venue. *)
Grown(o, p) == (o.known => p.known) /\ o.filled <= p.filled /\ (o.ended => p.ended)

(* The venue's list is right about what has not changed since the OMS was  *)
(* read.                                                                   *)
ListOK ==
    /\ \A i \in Orders : watch.phase # "idle" => Grown(watch.was[i], venue[i])
    /\ watch.phase = "answered" =>
          \A i \in Orders : venue[i] = watch.was[i] => watch.list[i] = Listed(venue[i])

(* During the boot the OMS's orders stay as they are, and the venue's list *)
(* is right about what has not changed since the start.                    *)
BootOK ==
    /\ \A i \in Orders : Grown(before[i], venue[i])
    /\ stage = "reconciling" =>
          /\ watch.snap = oms
          /\ watch.phase = "answered" =>
                \A i \in Orders : venue[i] = before[i] => watch.list[i] = Listed(venue[i])
    /\ stage = "reconciled" /\ {e \in found : e.type # "none"} = {} /\ compared =>
          \A i \in Orders : venue[i] = before[i] => (Open(oms[i]) <=> Open(venue[i]))

IInv == Types /\ StagesOK /\ TripOK /\ ListOK /\ BootOK

-----------------------------------------------------------------------------
(* Lemmas about the operators of Reconciliation *)

LEMMA Constants ==
    /\ IsFiniteSet(Orders) /\ Size \in Nat /\ 0 \in 0..Size /\ Size > 0
    /\ MaxFetchErrors \in Nat /\ MaxDivergences \in Nat
    /\ Len(Services) = 8 /\ Len(StopOrder) = 8
  BY ReconciliationAssumption, SupervisorAssumption DEF Services, StopOrder

LEMMA ViewLemma ==
    ASSUME NEW k \in BOOLEAN, NEW f \in 0..Size, NEW e \in BOOLEAN,
           NEW o \in View
    PROVE  /\ [known |-> k, filled |-> f, ended |-> e] \in View
           /\ [o EXCEPT !.known = k] = [known |-> k, filled |-> o.filled, ended |-> o.ended]
           /\ [o EXCEPT !.ended = e] = [known |-> o.known, filled |-> o.filled, ended |-> e]
           /\ [known |-> k, filled |-> f, ended |-> e].known = k
           /\ [known |-> k, filled |-> f, ended |-> e].filled = f
           /\ [known |-> k, filled |-> f, ended |-> e].ended = e
           /\ o.known \in BOOLEAN /\ o.ended \in BOOLEAN /\ o.filled \in 0..Size
  BY DEF View

LEMMA ChangedLemma ==
    ASSUME NEW o \in View, NEW m \in Messages, m = "fill" => o.filled < Size
    PROVE  Changed(o, m) \in View /\ Grown(o, Changed(o, m))
<1>0. /\ Changed(o, "ack") = [o EXCEPT !.known = TRUE]
      /\ Changed(o, "fill") = [o EXCEPT !.filled = @ + 1]
      /\ Changed(o, "end") = [o EXCEPT !.ended = TRUE]
  BY DEF Changed
<1>1. o.known \in BOOLEAN /\ o.ended \in BOOLEAN /\ o.filled \in 0..Size /\ o.filled <= o.filled
  BY Constants DEF View
<1>2. CASE m = "ack"
  <2> DEFINE t == TRUE
  <2>0. t \in BOOLEAN
    OBVIOUS
  <2>1. t = TRUE /\ Changed(o, m) = [o EXCEPT !.known = t]
    BY <1>0, <1>2
  <2> HIDE DEF t
  <2>2. /\ Changed(o, m) \in View /\ Changed(o, m).known = t
        /\ Changed(o, m).ended = o.ended /\ Changed(o, m).filled = o.filled
    <3>1. Changed(o, m) = [known |-> t, filled |-> o.filled, ended |-> o.ended]
      BY <1>1, <2>0, <2>1, ViewLemma
    <3> QED
      BY <1>1, <2>0, <3>1 DEF View
  <2> QED
    BY <1>1, <2>1, <2>2, Zenon DEF Grown
<1>3. CASE m = "fill"
  <2>1. /\ Changed(o, m) \in View /\ Changed(o, m).known = o.known
        /\ Changed(o, m).ended = o.ended /\ o.filled <= Changed(o, m).filled
    BY <1>0, <1>3, Constants DEF View
  <2> QED
    BY <2>1, Zenon DEF Grown
<1>4. CASE m = "end"
  <2> DEFINE t == TRUE
  <2>0. t \in BOOLEAN
    OBVIOUS
  <2>1. t = TRUE /\ Changed(o, m) = [o EXCEPT !.ended = t]
    BY <1>0, <1>4
  <2> HIDE DEF t
  <2>2. /\ Changed(o, m) \in View /\ Changed(o, m).ended = t
        /\ Changed(o, m).known = o.known /\ Changed(o, m).filled = o.filled
    <3>1. Changed(o, m) = [known |-> o.known, filled |-> o.filled, ended |-> t]
      BY <1>1, <2>0, <2>1, ViewLemma
    <3> QED
      BY <1>1, <2>0, <3>1 DEF View
  <2> QED
    BY <1>1, <2>1, <2>2, Zenon DEF Grown
<1> QED
  BY <1>2, <1>3, <1>4 DEF Messages

LEMMA CutOffType ==
    ASSUME calls \in [Orders -> {"none", "open", "cut"}]
    PROVE  CutOff \in [Orders -> {"none", "open", "cut"}]
  BY DEF CutOff

LEMMA FaultsLemma ==
    ASSUME NEW M \in Nat, NEW f \in [lost : Nat, fetch : 0..M]
    PROVE  /\ [f EXCEPT !.lost = @ + 1] \in [lost : Nat, fetch : 0..M]
           /\ [f EXCEPT !.lost = @ + 1].fetch = f.fetch
           /\ f.fetch < M => /\ [f EXCEPT !.fetch = @ + 1] \in [lost : Nat, fetch : 0..M]
                             /\ [f EXCEPT !.fetch = @ + 1].fetch = f.fetch + 1
  OBVIOUS

LEMMA GrownLemma ==
    ASSUME NEW o \in View, NEW p \in View, Grown(o, p), Grown(p, o)
    PROVE  o = p
<1>1. o.filled = p.filled
  BY Constants DEF View, Grown
<1>2. o.known = p.known /\ o.ended = p.ended
  BY Zenon DEF View, Grown
<1> QED
  BY <1>1, <1>2 DEF View

LEMMA NothingType ==
    /\ Unknown \in View /\ NoOrders \in [Orders -> View]
    /\ Idle.phase = "idle"
    /\ Idle \in Round
  BY Constants DEF Unknown, View, NoOrders, Idle, Nothing, Round

(* What happens to an order at the venue. *)
LEMMA OrderMoves ==
    ASSUME Types, NEW i \in Orders, Order(i)
    PROVE  /\ venue' \in [Orders -> View] /\ oms' \in [Orders -> View] /\ log' \in [Orders -> View]
           /\ mail' \in [Orders -> Seq(Messages)]
           /\ calls' \in [Orders -> {"none", "open", "cut"}]
           /\ faults' \in [lost : Nat, fetch : 0..MaxFetchErrors] /\ faults'.fetch = faults.fetch
           /\ \A j \in Orders : Grown(venue[j], venue'[j])
           /\ running \subseteq {"breaker"} => oms' = oms
           /\ UNCHANGED <<guard, stage, at, running, found, compared, before, tripped, count>>
<1> USE DEF Types
<1>0. \A o \in View : Grown(o, o)
  <2> SUFFICES ASSUME NEW o \in View PROVE Grown(o, o)
    OBVIOUS
  <2>1. o.filled <= o.filled
    BY Constants DEF View
  <2> QED
    BY <2>1, Zenon DEF Grown
<1>1. UNCHANGED <<guard, stage, at, running, found, compared, before, tripped, count>>
  BY DEF Order, Submit, Place, Trade, End, Happen, Deliver, Lose, guard
<1>2. ASSUME NEW m \in Messages, NEW connected \in BOOLEAN, Happen(i, m, connected),
             m = "fill" => venue[i].filled < Size
      PROVE  /\ venue' \in [Orders -> View] /\ mail' \in [Orders -> Seq(Messages)]
             /\ \A j \in Orders : Grown(venue[j], venue'[j])
             /\ UNCHANGED <<oms, faults>>
  <2>1. Changed(venue[i], m) \in View /\ Grown(venue[i], Changed(venue[i], m))
    BY <1>2, ChangedLemma
  <2>2. /\ venue' = [venue EXCEPT ![i] = Changed(@, m)]
        /\ mail' = IF connected THEN [mail EXCEPT ![i] = Append(@, m)] ELSE mail
        /\ UNCHANGED <<oms, faults>>
    BY <1>2 DEF Happen
  <2>3. mail' \in [Orders -> Seq(Messages)]
    BY <1>2, <2>2
  <2> QED
    BY <1>0, <2>1, <2>2, <2>3
<1>3. CASE \E answered \in BOOLEAN : Place(i, Connected, answered)
  <2>1. PICK answered \in BOOLEAN : Place(i, Connected, answered)
    BY <1>3
  <2>2. Connected \in BOOLEAN /\ "ack" \in Messages /\ "ack" # "fill"
    BY DEF Messages, Connected
  <2>3. /\ Happen(i, "ack", Connected) /\ UNCHANGED calls
        /\ log' = IF answered THEN [log EXCEPT ![i].known = TRUE] ELSE log
    BY <2>1 DEF Place
  <2> HIDE DEF Connected
  <2>4. log' \in [Orders -> View]
    <3>1. log[i] \in View /\ Changed(log[i], "ack") \in View
      BY <2>2, ChangedLemma
    <3>2. log' \in {log, [log EXCEPT ![i] = Changed(@, "ack")]}
      BY <2>3 DEF Changed
    <3> QED
      BY <3>1, <3>2
  <2> QED
    BY <1>1, <1>2, <2>2, <2>3, <2>4
<1>4. CASE Trade(i, Connected)
  <2>1. Connected \in BOOLEAN /\ "fill" \in Messages /\ venue[i].filled < Size /\ Happen(i, "fill", Connected)
        /\ UNCHANGED <<calls, log>>
    BY <1>4 DEF Trade, Messages, Open, Connected
  <2> HIDE DEF Connected
  <2> QED
    BY <1>1, <1>2, <2>1
<1>5. CASE End(i, Connected)
  <2>1. Connected \in BOOLEAN /\ "end" \in Messages /\ Happen(i, "end", Connected)
        /\ UNCHANGED <<calls, log>>
    BY <1>5 DEF End, Messages, Connected
  <2> HIDE DEF Connected
  <2> QED
    BY <1>1, <1>2, <2>1
<1>6. CASE "oms" \in running /\ Deliver(i)
  <2>1. mail[i] # <<>> /\ mail[i] \in Seq(Messages) /\ oms[i] \in View
    BY <1>6 DEF Deliver
  <2>2. Head(mail[i]) \in Messages /\ Tail(mail[i]) \in Seq(Messages)
    BY <2>1, HeadTailProperties
  <2> DEFINE o == Changed(oms[i], Head(mail[i]))
  <2>3. Head(mail[i]) = "ack" \/ Open(oms[i]) => o \in View
    BY <2>1, <2>2, ChangedLemma DEF Open
  <2>4. /\ \/ UNCHANGED <<oms, log>>
           \/ /\ Head(mail[i]) = "ack" \/ Open(oms[i])
              /\ oms' = [oms EXCEPT ![i] = o] /\ log' = [log EXCEPT ![i] = o]
        /\ mail' = [mail EXCEPT ![i] = Tail(@)] /\ UNCHANGED <<venue, calls, faults>>
    BY <1>6 DEF Deliver
  <2> HIDE DEF o
  <2>5. oms' \in [Orders -> View] /\ log' \in [Orders -> View]
    <3>1. CASE UNCHANGED <<oms, log>>
      BY <3>1
    <3>2. CASE o \in View /\ oms' = [oms EXCEPT ![i] = o] /\ log' = [log EXCEPT ![i] = o]
      BY <3>2
    <3> QED
      BY <2>3, <2>4, <3>1, <3>2
  <2>6. mail' \in [Orders -> Seq(Messages)]
    BY <2>2, <2>4
  <2>7. "oms" \in running
    BY <1>6
  <2> QED
    BY <1>0, <1>1, <2>4, <2>5, <2>6, <2>7
<1>7. CASE {"oms", "router"} \subseteq running /\ Submit(i)
  BY <1>0, <1>1, <1>7 DEF Submit
<1>8. CASE Lose(i)
  <2>1. mail[i] # <<>> /\ mail[i] \in Seq(Messages)
    BY <1>8 DEF Lose
  <2>2. Tail(mail[i]) \in Seq(Messages)
    BY <2>1, HeadTailProperties
  <2>3. /\ mail' = [mail EXCEPT ![i] = Tail(@)] /\ faults' = [faults EXCEPT !.lost = @ + 1]
        /\ UNCHANGED <<venue, calls, oms, log>>
    BY <1>8 DEF Lose
  <2>4. mail' \in [Orders -> Seq(Messages)]
    BY <2>2, <2>3
  <2>5. faults' \in [lost : Nat, fetch : 0..MaxFetchErrors] /\ faults'.fetch = faults.fetch
    BY <2>3, FaultsLemma, Constants, Zenon
  <2> QED
    BY <1>0, <1>1, <2>3, <2>4, <2>5
<1> QED
  BY <1>3, <1>4, <1>5, <1>6, <1>7, <1>8 DEF Order
-----------------------------------------------------------------------------
(* The other steps, by what they do to the variables of Reconciliation. *)

LEMMA ControlLemma ==
    ASSUME NEW c \in Control, NEW b \in BOOLEAN
    PROVE  /\ [c EXCEPT !.enabled = b] \in Control
           /\ [c EXCEPT !.enabled = b].enabled = b /\ [c EXCEPT !.enabled = b].killed = c.killed
           /\ c.enabled \in BOOLEAN /\ c.killed \in BOOLEAN
  BY DEF Control

Same == /\ venue' = venue /\ calls' = calls /\ oms' = oms /\ log' = log /\ mail' = mail
        /\ breaker' = breaker /\ control' = control

LEMMA AskLemma ==
    ASSUME Types, Ask
    PROVE  /\ watch' \in Round /\ watch'.phase = "asked" /\ watch'.snap = oms /\ watch'.was = venue
           /\ watch.phase = "idle" /\ Same /\ faults' = faults
  BY NothingType DEF Ask, Types, Round, orders, Same

LEMMA AnswerLemma ==
    ASSUME Types, Answer
    PROVE  /\ watch' \in Round /\ watch'.phase = "answered"
           /\ watch'.snap = watch.snap /\ watch'.was = watch.was
           /\ \A i \in Orders : watch'.list[i] = Listed(venue[i])
           /\ watch.phase = "asked" /\ Same /\ faults' = faults
<1> DEFINE l == [i \in Orders |-> Listed(venue[i])]
<1>1. l \in [Orders -> {"absent", "OPEN", "UNKNOWN"}] /\ \A i \in Orders : l[i] = Listed(venue[i])
  BY ReconciliationAssumption DEF Listed
<1>2. watch' = [watch EXCEPT !.phase = "answered", !.list = l] /\ watch \in Round
  BY DEF Answer, Types
<1> HIDE DEF l
<1> QED
  BY <1>1, <1>2 DEF Answer, Round, orders, Same

LEMMA FetchLemma ==
    ASSUME Types, FetchError
    PROVE  /\ watch' \in Round /\ watch'.phase \in {"refused", "raised"}
           /\ watch'.snap = watch.snap /\ watch'.was = watch.was
           /\ faults' \in [lost : Nat, fetch : 0..MaxFetchErrors]
           /\ watch.phase = "asked" /\ Same
<1>1. faults' \in [lost : Nat, fetch : 0..MaxFetchErrors]
  <2>1. /\ faults \in [lost : Nat, fetch : 0..MaxFetchErrors] /\ faults.fetch < MaxFetchErrors
        /\ faults' = [faults EXCEPT !.fetch = @ + 1] /\ MaxFetchErrors \in Nat
    BY Constants DEF FetchError, Types
  <2> QED
    BY <2>1, FaultsLemma, Zenon
<1> QED
  BY <1>1 DEF FetchError, Types, Round, orders, Same

(* The end of a round of the loop, which may trip the breaker. *)
LEMMA ConcludeLemma ==
    ASSUME Types, Conclude
    PROVE  /\ watch' = Idle /\ Answered /\ UNCHANGED <<orders, faults>>
           /\ \/ UNCHANGED <<breaker, control>>
              \/ /\ breaker = "closed" /\ breaker' = "open" /\ Trips(Events)
                 /\ control' \in Control /\ ~control'.enabled
<1>1. CASE breaker = "closed" /\ Trips(Events)
  <2> DEFINE f == FALSE
  <2>0. f \in BOOLEAN
    OBVIOUS
  <2>1. control' = [control EXCEPT !.enabled = f] /\ breaker' = "open"
    BY <1>1 DEF Conclude, Check
  <2>2. ~f
    OBVIOUS
  <2> HIDE DEF f
  <2>3. control' \in Control /\ control'.enabled = f
    BY <2>0, <2>1, ControlLemma DEF Types
  <2> QED
    BY <1>1, <2>1, <2>2, <2>3 DEF Conclude
<1>2. CASE ~(breaker = "closed" /\ Trips(Events))
  BY <1>2 DEF Conclude, Check
<1> QED
  BY <1>1, <1>2

LEMMA OperatorLemma ==
    ASSUME Types, Operator
    PROVE  /\ control' \in Control /\ breaker' \in {"none", "closed", "open"}
           /\ tripped' = "yes" => /\ tripped = "yes" /\ breaker' = breaker
                                  /\ control'.enabled => control.enabled
           /\ breaker' = "open" => breaker = "open"
           /\ UNCHANGED <<orders, watch, faults, stage, at, running, found, compared, before>>
<1>1. UNCHANGED <<orders, watch, faults, stage, at, running, found, compared, before>>
  BY DEF Operator
<1>2. CASE Enable
  <2> DEFINE t == TRUE
  <2>1. t \in BOOLEAN /\ control' = [control EXCEPT !.enabled = t]
    BY <1>2 DEF Enable
  <2> HIDE DEF t
  <2>2. control' \in Control
    BY <2>1, ControlLemma DEF Types
  <2>3. tripped' = "no" /\ UNCHANGED breaker
    BY <1>2 DEF Enable
  <2> QED
    BY <1>1, <2>2, <2>3 DEF Types
<1>3. CASE Reset
  BY <1>1, <1>3 DEF Reset, Types
<1>4. ASSUME NEW active \in BOOLEAN, Kill(active)
      PROVE  /\ control' \in Control /\ (control'.enabled => control.enabled)
             /\ UNCHANGED <<breaker, tripped>>
  <2> DEFINE e == control.enabled /\ ~active
  <2>1. e \in BOOLEAN /\ (e => control.enabled)
    BY ControlLemma DEF Types
  <2>2. control' = [enabled |-> e, killed |-> active] /\ UNCHANGED <<breaker, tripped>>
    BY <1>4 DEF Kill
  <2> HIDE DEF e
  <2>3. control' \in Control /\ control'.enabled = e
    BY <2>1, <2>2 DEF Control
  <2> QED
    BY <2>1, <2>2, <2>3, Zenon
<1>5. CASE \E active \in BOOLEAN : active # control.killed /\ Kill(active)
  <2>1. /\ control' \in Control /\ (control'.enabled => control.enabled)
        /\ breaker' = breaker /\ tripped' = tripped
    BY <1>4, <1>5, Zenon
  <2>2. breaker' \in {"none", "closed", "open"}
    BY <2>1 DEF Types
  <2>3. tripped' = "yes" => tripped = "yes"
    BY <2>1
  <2> QED
    BY <1>1, <2>1, <2>2, <2>3, Zenon
<1> QED
  BY <1>2, <1>3, <1>5, Zenon DEF Operator
-----------------------------------------------------------------------------
(* Types and stages *)

LEMMA ImageFinite ==
    ASSUME NEW S \in SUBSET Orders, NEW type, NEW severity
    PROVE  IsFiniteSet({Event(type, i, severity) : i \in S})
<1> DEFINE T == {Event(type, i, severity) : i \in S}
           f == [i \in S |-> Event(type, i, severity)]
<1>1. IsFiniteSet(S)
  BY Constants, FS_Subset
<1>2. f \in Surjection(S, T)
  BY DEF Surjection
<1> HIDE DEF T, f
<1>3. IsFiniteSet(T)
  BY <1>1, <1>2, FS_Surjection
<1> QED
  BY <1>3 DEF T

LEMMA EventsFinite == Answered => IsFiniteSet(Events)
<1>1. ASSUME NEW snap, NEW list
      PROVE  IsFiniteSet(Divergences(snap, list))
  <2> DEFINE Both(status) == {i \in Orders : Open(snap[i]) /\ list[i] = status}
             A == Both("absent")
             B == {j \in Orders : list[j] # "absent" /\ ~Open(snap[j])}
             C == Both("FILLED")
             D == {j \in Both("OPEN") : snap[j].filled > 0}
             P == {Event("phantom", i, "WARNING") : i \in A}
             O == {Event("orphan", i, "WARNING") : i \in B}
             M == {Event("mismatch", i, "ERROR") : i \in C}
             W == {Event("mismatch", i, "WARNING") : i \in D}
  <2>0. A \in SUBSET Orders /\ B \in SUBSET Orders /\ C \in SUBSET Orders /\ D \in SUBSET Orders
    OBVIOUS
  <2> HIDE DEF A, B, C, D
  <2>1. IsFiniteSet(P)
    BY <2>0, ImageFinite
  <2>2. IsFiniteSet(O)
    BY <2>0, ImageFinite
  <2>3. IsFiniteSet(M)
    BY <2>0, ImageFinite
  <2>4. IsFiniteSet(W)
    BY <2>0, ImageFinite
  <2>5. Divergences(snap, list) = ((P \cup O) \cup M) \cup W
    BY DEF Divergences, A, B, C, D
  <2> HIDE DEF P, O, M, W
  <2>6. IsFiniteSet(P \cup O)
    BY <2>1, <2>2, FS_Union
  <2>7. IsFiniteSet((P \cup O) \cup M)
    BY <2>3, <2>6, FS_Union
  <2> QED
    BY <2>4, <2>5, <2>7, FS_Union
<1>2. IsFiniteSet({ [type |-> "none", severity |-> "ERROR"] }) /\ IsFiniteSet({})
  BY FS_Singleton, FS_EmptySet
<1>3. CASE watch.phase = "answered"
  BY <1>1, <1>3 DEF Events
<1>4. CASE watch.phase = "refused"
  BY <1>2, <1>4 DEF Events
<1>5. CASE watch.phase = "raised"
  BY <1>2, <1>5 DEF Events
<1> QED
  BY <1>3, <1>4, <1>5 DEF Answered

LEMMA TypesInit == Init => Types /\ StagesOK
<1> SUFFICES ASSUME Init PROVE Types /\ StagesOK
  OBVIOUS
<1> DEFINE f == FALSE
<1>1. f \in BOOLEAN /\ control = [enabled |-> f, killed |-> f]
  BY DEF Init, ReconciliationInit
<1> HIDE DEF f
<1>2. control \in Control
  BY <1>1 DEF Control
<1>3. IsFiniteSet({})
  BY FS_EmptySet
<1> QED
  BY <1>2, <1>3, NothingType, Constants
     DEF Init, ReconciliationInit, Types, StagesOK, Stages, Early, Messages

LEMMA TypesStep ==
    ASSUME Types, StagesOK, [Next]_vars
    PROVE  Types' /\ StagesOK'
<1> USE DEF Types, StagesOK
<1>1. CASE Start
  BY <1>1, NothingType, FS_EmptySet DEF Start, orders, guard, Stages, Early
<1>2. CASE Load
  BY <1>2 DEF Load, orders, guard, Stages, Early
<1>3. CASE Reconstruct
  BY <1>3, NothingType DEF Reconstruct, orders, guard, Stages, Early, NoOrders
<1>4. CASE AskAtBoot
  BY <1>4, AskLemma DEF AskAtBoot, Same, Stages, Early
<1>5. CASE ReconciledAtBoot
  BY <1>5, NothingType, EventsFinite DEF ReconciledAtBoot, orders, Stages, Early
<1>6. CASE EvaluateGates
  <2>1. control' \in Control
    <3>1. PICK fresh \in BOOLEAN : Permit(GatesPass(Status(fresh)))
      BY <1>6 DEF EvaluateGates
    <3> DEFINE b == control.enabled \/ GatesPass(Status(fresh))
    <3>2. b \in BOOLEAN /\ control' = [control EXCEPT !.enabled = b]
      BY <3>1 DEF Permit
    <3> HIDE DEF b
    <3> QED
      BY <3>2, ControlLemma
  <2>2. IsFiniteSet(found')
    BY <1>6, FS_EmptySet DEF EvaluateGates
  <2> QED
    BY <1>6, <2>1, <2>2, NothingType DEF EvaluateGates, orders, Stages, Early
<1>7. CASE StartService
  <2>1. PICK s \in Stoppable \cup {"breaker"} :
           /\ s = Services[at + 1] /\ (Started(s) \/ NotStarted(s))
           /\ at < 8 /\ (s = "oms" <=> at = 2) /\ (s = "stream" <=> at = 5)
    <3>1. at \in 0..7 /\ (Started(Services[at + 1]) \/ NotStarted(Services[at + 1]))
      BY <1>7, Constants DEF StartService
    <3>2. /\ Services[at + 1] \in Stoppable \cup {"breaker"}
          /\ (Services[at + 1] = "oms" <=> at = 2) /\ (Services[at + 1] = "stream" <=> at = 5)
      BY <3>1 DEF Services, Stoppable
    <3> QED
      BY <3>1, <3>2
  <2>2. /\ stage = "services" /\ UNCHANGED <<orders, watch, control, faults, found, compared, before, tripped, count>>
    BY <1>7 DEF StartService
  <2>3. CASE Started(s)
    BY <2>1, <2>2, <2>3 DEF Started, orders, Stages, Early
  <2>4. CASE NotStarted(s)
    BY <2>1, <2>2, <2>4 DEF NotStarted, orders, Stages, Early
  <2> QED
    BY <2>1, <2>3, <2>4
<1>8. CASE StartSink
  BY <1>8, Constants DEF StartSink, Stoppable, orders, guard, Stages, Early
<1>9. CASE Loop
  <2>1. CASE LoopAsks
    BY <1>9, <2>1, AskLemma DEF Loop, LoopAsks, Watching, Same, Stages, Early
  <2>2. CASE LoopConcludes
    BY <1>9, <2>2, ConcludeLemma, NothingType DEF Loop, LoopConcludes, Watching, orders, Stages, Early
  <2> QED
    BY <1>9, <2>1, <2>2 DEF Loop
<1>10. CASE Venue
  <2>1. UNCHANGED <<stage, at, running, found, compared, before, tripped, count>>
    BY <1>10 DEF Venue
  <2>2. CASE Answer
    BY <2>1, <2>2, AnswerLemma DEF Same, Stages, Early
  <2>3. CASE FetchError
    BY <2>1, <2>3, FetchLemma DEF Same, Stages, Early
  <2> QED
    BY <1>10, <2>2, <2>3 DEF Venue
<1>11. CASE Stop
  BY <1>11 DEF Stop, orders, guard, Stages, Early
<1>12. CASE StopService
  <2>1. /\ stage = "stopping" /\ at \in 0..7 /\ at' = at + 1
        /\ stage' = IF at' = 8 THEN "off" ELSE "stopping"
        /\ running' = running \ {StopOrder[at + 1]}
        /\ UNCHANGED <<venue, oms, log, breaker, control, faults, found, compared, before>>
    BY <1>12, Constants DEF StopService
  <2>2. /\ watch' \in Round /\ mail' \in [Orders -> Seq(Messages)]
        /\ watch' = IF at = 1 THEN Idle ELSE watch
        /\ calls' \in [Orders -> {"none", "open", "cut"}]
    <3>1. (StopOrder[at + 1] = "loop") <=> at = 1
      BY <2>1 DEF StopOrder
    <3> QED
      BY <1>12, <3>1, NothingType, CutOffType DEF StopService
  <2>3. \A i \in 1..at' : StopOrder[i] \notin running'
    BY <2>1
  <2>4. "stream" \in running' => "oms" \in running'
    <3>1. CASE at = 5
      <4>1. StopOrder[3] = "stream" /\ 3 \in 1..at
        BY <3>1 DEF StopOrder
      <4> QED
        BY <2>1, <4>1
    <3>2. CASE at # 5
      <4>1. StopOrder[at + 1] # "oms"
        BY <2>1, <3>2 DEF StopOrder
      <4> QED
        BY <2>1, <4>1
    <3> QED
      BY <3>1, <3>2
  <2>5. at' = 8 => running' \subseteq {"breaker"}
    <3> SUFFICES ASSUME at' = 8, NEW s \in running' PROVE s = "breaker"
      OBVIOUS
    <3>1. s \in Stoppable \cup {"breaker"}
      BY <2>1
    <3>2. \A t \in Stoppable : \E i \in 1..8 : t = StopOrder[i]
      BY DEF Stoppable, StopOrder
    <3>3. \A i \in 1..8 : StopOrder[i] # s
      BY <2>3
    <3> QED
      BY <3>1, <3>2, <3>3
  <2>6. watch'.phase # "idle" => at' < 2
    BY <2>1, <2>2, NothingType
  <2> QED
    BY <2>1, <2>2, <2>3, <2>4, <2>5, <2>6 DEF Stages, Early
<1>13. CASE Crash
  <2> DEFINE f == FALSE
  <2>1. f \in BOOLEAN /\ control' = [enabled |-> f, killed |-> f]
    BY <1>13 DEF Crash
  <2> HIDE DEF f
  <2>2. control' \in Control
    BY <2>1 DEF Control
  <2>3. /\ mail' = [i \in Orders |-> <<>>] /\ IsFiniteSet(found')
        /\ calls' \in [Orders -> {"none", "open", "cut"}]
    BY <1>13, FS_EmptySet, CutOffType DEF Crash
  <2>4. mail' \in [Orders -> Seq(Messages)]
    BY <2>3
  <2> QED
    BY <1>13, <2>2, <2>3, <2>4, NothingType DEF Crash, Stages, Early
<1>14. CASE Operator
  BY <1>14, OperatorLemma DEF orders, Stages, Early
<1>15. CASE \E i \in Orders : Order(i)
  BY <1>15, OrderMoves DEF guard, Stages, Early
<1>16. CASE UNCHANGED vars
  BY <1>16 DEF vars, orders, guard
<1> QED
  BY <1>1, <1>2, <1>3, <1>4, <1>5, <1>6, <1>7, <1>8, <1>9, <1>10, <1>11, <1>12, <1>13, <1>14,
     <1>15, <1>16 DEF Next, Boot
-----------------------------------------------------------------------------
(* The breaker *)

LEMMA TripStep ==
    ASSUME Types, StagesOK, TripOK, [Next]_vars
    PROVE  TripOK'
<1> SUFFICES ASSUME tripped' = "yes"
             PROVE  /\ ~control'.enabled
                    /\ breaker' = "open" \/ (stage' = "services" /\ at' = 8)
  BY DEF TripOK
<1>1. CASE Boot /\ ~EvaluateGates /\ ~StartService /\ ~StartSink
  <2>1. UNCHANGED <<breaker, control, tripped>> /\ stage # "services"
    BY <1>1 DEF Boot, Start, Load, Reconstruct, AskAtBoot, ReconciledAtBoot, Ask, guard
  <2> QED
    BY <2>1 DEF TripOK
<1>2. CASE EvaluateGates
  <2>1. tripped = "yes" /\ stage = "reconciled" /\ UNCHANGED breaker
    BY <1>2 DEF EvaluateGates
  <2>2. breaker = "open" /\ ~control.enabled
    BY <2>1 DEF TripOK
  <2>3. PICK fresh \in BOOLEAN : Permit(GatesPass(Status(fresh)))
    BY <1>2 DEF EvaluateGates
  <2>4. ~GatesPass(Status(fresh))
    BY <2>2 DEF GatesPass, Status
  <2> DEFINE b == control.enabled \/ GatesPass(Status(fresh))
  <2>5. b \in BOOLEAN /\ control' = [control EXCEPT !.enabled = b]
    BY <2>3 DEF Permit
  <2>6. ~b
    BY <2>2, <2>4
  <2> HIDE DEF b
  <2>7. control'.enabled = b
    BY <2>5, ControlLemma DEF Types
  <2> QED
    BY <2>1, <2>2, <2>6, <2>7
<1>3. CASE StartService
  <2>1. /\ stage = "services" /\ at < 8 /\ at \in Nat /\ UNCHANGED <<control, tripped>>
        /\ breaker' = breaker \/ (stage' = stage /\ at' = at + 1 /\ Services[at + 1] = "breaker")
    BY <1>3, Constants DEF StartService, Started, NotStarted, Types
  <2>2. Services[at + 1] = "breaker" => at = 7
    BY <2>1 DEF Services
  <2> QED
    BY <2>1, <2>2 DEF TripOK
<1>4. CASE StartSink
  BY <1>4 DEF StartSink
<1>5. CASE Loop
  <2>1. UNCHANGED <<stage, at>>
    BY <1>5 DEF Loop
  <2>2. CASE LoopAsks
    BY <2>1, <2>2, AskLemma DEF LoopAsks, TripOK, Same
  <2>3. CASE LoopConcludes
    BY <2>1, <2>3, ConcludeLemma DEF LoopConcludes, TripOK
  <2> QED
    BY <1>5, <2>2, <2>3 DEF Loop
<1>6. CASE Venue
  <2>1. UNCHANGED <<breaker, control, stage, at, tripped>>
    BY <1>6 DEF Venue, Answer, FetchError
  <2> QED
    BY <2>1 DEF TripOK
<1>7. CASE Stop \/ StopService
  BY <1>7 DEF Stop, StopService, TripOK, guard
<1>8. CASE Crash
  BY <1>8 DEF Crash
<1>9. CASE Operator
  <2>1. /\ tripped = "yes" /\ UNCHANGED <<breaker, stage, at>>
        /\ control'.enabled => control.enabled
    BY <1>9, OperatorLemma
  <2> QED
    BY <2>1 DEF TripOK
<1>10. CASE (\E i \in Orders : Order(i)) \/ UNCHANGED vars
  <2>1. UNCHANGED <<breaker, control, stage, at, tripped>>
    BY <1>10, OrderMoves DEF vars, guard
  <2> QED
    BY <2>1 DEF TripOK
<1> QED
  BY <1>1, <1>2, <1>3, <1>4, <1>5, <1>6, <1>7, <1>8, <1>9, <1>10 DEF Next, Boot

LEMMA GrownSelf ==
    ASSUME NEW o \in View
    PROVE  Grown(o, o) /\ Grown(Unknown, o)
<1>1. o.filled <= o.filled /\ 0 <= o.filled
  BY Constants DEF View
<1> QED
  BY <1>1, Zenon DEF Grown, Unknown

LEMMA GrownOn ==
    ASSUME NEW o \in View, NEW p \in View, NEW q \in View, Grown(o, p), Grown(p, q)
    PROVE  Grown(o, q) /\ (q = o => p = o)
<1>1. o.filled <= q.filled
  BY Constants DEF View, Grown
<1>2. Grown(o, q)
  BY <1>1, Zenon DEF Grown
<1>3. q = o => p = o
  BY GrownLemma
<1> QED
  BY <1>2, <1>3

LEMMA ListStep ==
    ASSUME Types, ListOK, [Next]_vars
    PROVE  ListOK'
<1>1. CASE UNCHANGED <<watch, venue>>
  BY <1>1 DEF ListOK, Listed, Open
<1>2. CASE Answer
  <2>1. /\ watch'.was = watch.was /\ venue' = venue /\ watch.phase = "asked"
        /\ \A i \in Orders : watch'.list[i] = Listed(venue[i])
    BY <1>2, AnswerLemma DEF Same
  <2> QED
    BY <2>1 DEF ListOK, Listed, Open
<1>3. CASE \E j \in Orders : Order(j)
  <2>1. UNCHANGED watch
    BY <1>3, OrderMoves DEF guard
  <2>2. ASSUME NEW i \in Orders, watch.phase # "idle"
        PROVE  /\ Grown(watch.was[i], venue'[i])
               /\ venue'[i] = watch.was[i] => venue[i] = watch.was[i]
    <3>1. /\ Grown(venue[i], venue'[i]) /\ venue[i] \in View /\ venue'[i] \in View
          /\ Grown(watch.was[i], venue[i]) /\ watch.was[i] \in View
      BY <1>3, <2>2, OrderMoves DEF Types, Round, ListOK
    <3> QED
      BY <3>1, GrownOn
  <2> QED
    BY <2>1, <2>2 DEF ListOK, Listed, Open
<1>4. CASE watch' = Idle
  BY <1>4, NothingType DEF ListOK
<1>5. CASE Ask
  <2>1. watch'.phase = "asked" /\ watch'.was = venue /\ UNCHANGED venue
    BY <1>5, AskLemma DEF Same
  <2> QED
    BY <2>1, GrownSelf DEF ListOK, Types
<1>6. CASE FetchError
  <2>1. /\ watch'.phase \in {"refused", "raised"} /\ watch.phase = "asked"
        /\ watch'.was = watch.was /\ UNCHANGED venue
    BY <1>6, FetchLemma DEF Same
  <2> QED
    BY <2>1 DEF ListOK
<1> QED
  BY <1>1, <1>2, <1>3, <1>4, <1>5, <1>6
     DEF Next, Boot, Start, Load, Reconstruct, AskAtBoot, ReconciledAtBoot, EvaluateGates,
         StartService, StartSink, Loop, LoopAsks, LoopConcludes, Conclude, Venue, Stop, StopService,
         Crash, Operator, orders, guard, vars

-----------------------------------------------------------------------------
(* The boot *)

LEMMA ListedLemma ==
    ASSUME NEW o
    PROVE  Open(o) <=> Listed(o) # "absent"
  BY ReconciliationAssumption DEF Listed

(* If the comparison finds nothing, it has found every order alike. *)
LEMMA NoDivergence ==
    ASSUME NEW snap, NEW list, Divergences(snap, list) = {}, NEW i \in Orders
    PROVE  Open(snap[i]) <=> list[i] # "absent"
<1>1. ASSUME Open(snap[i]), list[i] = "absent" PROVE FALSE
  <2>1. Event("phantom", i, "WARNING") \in Divergences(snap, list)
    BY <1>1 DEF Divergences
  <2> QED
    BY <2>1
<1>2. ASSUME list[i] # "absent", ~Open(snap[i]) PROVE FALSE
  <2>1. Event("orphan", i, "WARNING") \in Divergences(snap, list)
    BY <1>2 DEF Divergences
  <2> QED
    BY <2>1
<1> QED
  BY <1>1, <1>2

LEMMA DivergenceTypes ==
    ASSUME NEW snap, NEW list, NEW e \in Divergences(snap, list)
    PROVE  e.type # "none"
<1>1. \E t \in {"phantom", "orphan", "mismatch"}, i \in Orders, v \in {"WARNING", "ERROR"} : e = Event(t, i, v)
  BY DEF Divergences
<1> QED
  BY <1>1 DEF Event

LEMMA BootStep ==
    ASSUME Types, StagesOK, BootOK, [Next]_vars
    PROVE  BootOK'
<1>0. \A o \in View : Grown(o, o) /\ Grown(Unknown, o)
  BY GrownSelf
<1>1. CASE Start
  <2>1. /\ before' = venue /\ UNCHANGED <<venue, watch, faults>> /\ stage' \in {"loading", "failed"}
    BY <1>1 DEF Start, guard
  <2>2. watch.phase = "idle"
    BY <1>1 DEF Start, StagesOK
  <2> QED
    BY <1>0, <2>1, <2>2 DEF BootOK, Types
<1>2. CASE Load \/ Reconstruct
  BY <1>2 DEF Load, Reconstruct, BootOK, orders, guard
<1>3. CASE AskAtBoot
  <2>1. /\ watch'.phase = "asked" /\ watch'.snap = oms /\ UNCHANGED <<venue, oms, before>>
        /\ stage' = "reconciling"
    BY <1>3, AskLemma DEF AskAtBoot, Same
  <2> QED
    BY <2>1 DEF BootOK
<1>4. CASE ReconciledAtBoot
  <2>1. /\ stage = "reconciling" /\ stage' = "reconciled" /\ found' = Events /\ watch' = Idle
        /\ compared' = (watch.phase = "answered") /\ UNCHANGED <<venue, oms, before>>
    BY <1>4 DEF ReconciledAtBoot, orders
  <2>2. ASSUME {e \in Events : e.type # "none"} = {}, watch.phase = "answered",
               NEW i \in Orders, venue[i] = before[i]
        PROVE  Open(oms[i]) <=> Open(venue[i])
    <3>1. watch.list[i] = Listed(venue[i]) /\ watch.snap = oms
      BY <2>1, <2>2 DEF BootOK
    <3>2. Events = Divergences(watch.snap, watch.list)
      BY <2>2 DEF Events
    <3>3. Divergences(watch.snap, watch.list) = {}
      BY <2>2, <3>2, DivergenceTypes
    <3>4. Open(watch.snap[i]) <=> watch.list[i] # "absent"
      BY <3>3, NoDivergence
    <3> QED
      BY <3>1, <3>4, ListedLemma
  <2>3. watch'.phase = "idle" /\ (\A i \in Orders : Grown(before'[i], venue'[i]))
    BY <2>1, NothingType DEF BootOK
  <2> QED
    BY <2>1, <2>2, <2>3 DEF BootOK, Open
<1>5. CASE EvaluateGates
  <2>1. before' = NoOrders /\ UNCHANGED venue /\ stage' = "services"
    BY <1>5 DEF EvaluateGates, orders
  <2> QED
    BY <1>0, <2>1 DEF BootOK, Types, NoOrders
<1>13. CASE StartService \/ StartSink \/ Stop
  BY <1>13 DEF StartService, Started, NotStarted, StartSink, Stop, BootOK, orders, guard
<1>6. CASE Loop
  <2>1. /\ stage \in {"services", "up", "failed"} /\ UNCHANGED <<stage, before, venue>>
    BY <1>6 DEF Loop, LoopAsks, LoopConcludes, Ask, Conclude, Watching, orders
  <2> QED
    BY <2>1 DEF BootOK
<1>7. CASE Venue
  <2>1. /\ UNCHANGED <<venue, oms, before, found, stage>>
        /\ watch'.snap = watch.snap /\ watch.phase = "asked"
    BY <1>7, AnswerLemma, FetchLemma DEF Venue, Same
  <2>4. stage # "reconciled"
    BY <2>1 DEF StagesOK
  <2>2. CASE Answer
    <3>1. \A i \in Orders : watch'.list[i] = Listed(venue[i])
      BY <2>2, AnswerLemma
    <3> QED
      BY <2>1, <2>4, <3>1 DEF BootOK, Listed, Open
  <2>3. CASE FetchError
    <3>1. watch'.phase \in {"refused", "raised"}
      BY <2>3, FetchLemma
    <3> QED
      BY <2>1, <2>4, <3>1 DEF BootOK
  <2> QED
    BY <1>7, <2>2, <2>3 DEF Venue
<1>8. CASE StopService
  <2>1. /\ stage = "stopping" /\ stage' \in {"stopping", "off"} /\ UNCHANGED <<venue, before, faults>>
        /\ watch' \in {Idle, watch}
    BY <1>8 DEF StopService
  <2> QED
    BY <2>1, NothingType DEF BootOK
<1>9. CASE Crash
  <2>1. before' = NoOrders /\ UNCHANGED venue /\ stage' = "off"
    BY <1>9 DEF Crash
  <2> QED
    BY <1>0, <2>1 DEF BootOK, Types, NoOrders
<1>10. CASE Operator
  BY <1>10, OperatorLemma DEF BootOK, orders
<1>11. CASE \E i \in Orders : Order(i)
  <2>1. /\ \A j \in Orders : Grown(venue[j], venue'[j]) /\ venue[j] \in View /\ venue'[j] \in View
                               /\ before[j] \in View
        /\ running \subseteq {"breaker"} => oms' = oms
        /\ UNCHANGED <<watch, stage, found, compared, before>> /\ faults'.fetch = faults.fetch
    BY <1>11, OrderMoves DEF guard, Types
  <2>2. ASSUME NEW j \in Orders
        PROVE  Grown(before[j], venue'[j]) /\ (venue'[j] = before[j] => venue[j] = before[j])
    <3>1. Grown(before[j], venue[j]) /\ Grown(venue[j], venue'[j])
      BY <2>1 DEF BootOK
    <3> QED
      BY <2>1, <3>1, GrownOn
  <2>4. stage \in Early => oms' = oms
    BY <2>1 DEF StagesOK
  <2> QED
    BY <2>1, <2>2, <2>4 DEF BootOK, Early, Listed, Open
<1>12. CASE UNCHANGED vars
  BY <1>12 DEF vars, orders, guard, BootOK
<1> QED
  BY <1>1, <1>2, <1>3, <1>4, <1>5, <1>6, <1>7, <1>8, <1>9, <1>10, <1>11, <1>12, <1>13 DEF Next, Boot

-----------------------------------------------------------------------------
(* The inductive invariant. *)
THEOREM SupervisorInvariant == Spec => []IInv
<1>1. Init => IInv
  <2> SUFFICES ASSUME Init PROVE IInv
    OBVIOUS
  <2>1. Types /\ StagesOK
    BY TypesInit
  <2>2. tripped = "no" /\ watch.phase = "idle" /\ stage = "off" /\ before = venue
    BY NothingType DEF Init, ReconciliationInit
  <2>3. ASSUME NEW i \in Orders PROVE Grown(before[i], venue[i])
    <3>1. venue[i].filled <= venue[i].filled
      BY <2>1, Constants DEF Types, View
    <3> QED
      BY <2>2, <3>1, Zenon DEF Grown
  <2> QED
    BY <2>1, <2>2, <2>3 DEF IInv, TripOK, ListOK, BootOK
<1>2. IInv /\ [Next]_vars => IInv'
  BY TypesStep, TripStep, ListStep, BootStep DEF IInv
<1> QED
  BY <1>1, <1>2, PTL DEF Spec

(* Types; no reconciliation goes on while the supervisor is off or starts *)
(* up to the initial one, and no service but the breaker runs then.        *)
THEOREM SupervisorTypes == Spec => []TypeOK
<1>1. IInv => TypeOK
  <2> SUFFICES ASSUME IInv PROVE TypeOK
    OBVIOUS
  <2>1. {Services[i] : i \in DOMAIN Services} \cup {"sink"} = Stoppable \cup {"breaker"}
    BY DEF Services, Stoppable
  <2> QED
    BY <2>1 DEF IInv, Types, StagesOK, TypeOK, Early, Round
<1> QED
  BY <1>1, SupervisorInvariant, PTL

(* Who publishes the user stream's messages runs only while the OMS reads  *)
(* them, whatever service fails to start and whenever the process crashes. *)
THEOREM StreamAlwaysHeard == Spec => []StreamIsHeard
<1>1. IInv => StreamIsHeard
  BY DEF IInv, StagesOK, StreamIsHeard
<1> QED
  BY <1>1, SupervisorInvariant, PTL

(* After a trip nothing is executed until the operator resets the breaker  *)
(* or enables execution, not even in the start that follows.               *)
THEOREM TripAlwaysHolds == Spec => []TripHolds
<1>1. IInv => TripHolds
  BY DEF IInv, TripOK, TripHolds, Executing
<1> QED
  BY <1>1, SupervisorInvariant, PTL

LEMMA TripLemma ==
    ASSUME Types, [Next]_vars, breaker = "closed", breaker' = "open"
    PROVE  Trips(Events) /\ Answered
<1>1. LoopConcludes
  <2>1. CASE \E i \in Orders : Order(i)
    BY <2>1, OrderMoves DEF guard
  <2>2. CASE Operator
    BY <2>2, OperatorLemma
  <2>3. CASE Venue
    BY <2>3 DEF Venue, Answer, FetchError
  <2>4. CASE Loop
    BY <2>4 DEF Loop, LoopAsks, Ask
  <2> QED
    BY <2>1, <2>2, <2>3, <2>4
       DEF Next, Boot, Start, Load, Reconstruct, AskAtBoot, ReconciledAtBoot, EvaluateGates, Ask,
           StartService, Started, NotStarted, StartSink, Stop, StopService, Crash, guard, vars
<1> QED
  BY <1>1, ConcludeLemma DEF LoopConcludes

(* A request that fails, and a comparison that raises, count for nothing.  *)
LEMMA RefusedLemma ==
    ASSUME MaxPhantoms > 0, MaxOrphans > 0, MaxMismatches > 0, Trips(Events), Answered
    PROVE  watch.phase = "answered"
<1>1. ASSUME watch.phase = "refused" PROVE FALSE
  <2>1. Events = { [type |-> "none", severity |-> "ERROR"] }
    BY <1>1 DEF Events
  <2>2. \A t \in {"phantom", "orphan", "mismatch"} : {e \in Events : e.type = t} = {}
    BY <2>1
  <2>3. \A t \in {"phantom", "orphan", "mismatch"} : Count(Events, t) = 0
    BY <2>2, FS_EmptySet DEF Count
  <2> QED
    BY <2>3, ReconciliationAssumption DEF Trips
<1>2. ASSUME watch.phase = "raised" PROVE FALSE
  BY <1>2 DEF Events, Trips
<1> QED
  BY <1>1, <1>2 DEF Answered

(* If no threshold is zero the breaker trips only if OMS and venue         *)
(* disagreed on an open order when the OMS was read, the venue has changed *)
(* an order since, or an open order has fills.                             *)
THEOREM TripsAreGrounded ==
    ASSUME MaxPhantoms > 0, MaxOrphans > 0, MaxMismatches > 0
    PROVE  Spec => TripIsGrounded
<1> DEFINE Ground(i) == \/ Open(watch.snap[i]) # Open(watch.was[i])
                        \/ venue[i] # watch.was[i]
                        \/ Open(watch.snap[i]) /\ watch.snap[i].filled > 0
<1>1. IInv /\ [Next]_vars => [breaker = "closed" /\ breaker' = "open" => \E i \in Orders : Ground(i)]_vars
  <2> SUFFICES ASSUME IInv, [Next]_vars, breaker = "closed", breaker' = "open"
               PROVE  \E i \in Orders : Ground(i)
    OBVIOUS
  <2>1. Types /\ ListOK
    BY DEF IInv
  <2>2. Trips(Events) /\ Answered
    BY <2>1, TripLemma
  <2>3. watch.phase = "answered"
    BY <2>2, RefusedLemma
  <2>4. PICK e \in Divergences(watch.snap, watch.list) : TRUE
    BY <2>2, <2>3 DEF Trips, Events
  <2>5. ASSUME NEW i \in Orders, ~Ground(i)
        PROVE  Open(watch.snap[i]) <=> watch.list[i] # "absent"
    <3>1. watch.list[i] = Listed(venue[i]) /\ venue[i] = watch.was[i]
      BY <2>1, <2>3, <2>5 DEF ListOK
    <3> QED
      BY <2>5, <3>1, ListedLemma
  <2> HIDE DEF Ground
  <2>6. PICK i \in Orders : \/ Open(watch.snap[i]) /\ watch.list[i] = "absent"
                            \/ ~Open(watch.snap[i]) /\ watch.list[i] # "absent"
                            \/ watch.list[i] = "FILLED"
                            \/ Open(watch.snap[i]) /\ watch.snap[i].filled > 0
    BY <2>4 DEF Divergences
  <2>7. watch.list[i] # "FILLED"
    BY <2>1 DEF Types, Round
  <2> QED
    BY <2>5, <2>6, <2>7 DEF Ground
<1> QED
  BY <1>1, SupervisorInvariant, PTL DEF Spec, TripIsGrounded

(* With the default, by which only errors trip the breaker, it never trips,*)
(* whatever is lost: the venue lists open orders, and reconcile reports    *)
(* errors only for orders listed as filled.                                *)
THEOREM ErrorsOnlyNeverTrip ==
    ASSUME NeedsError, MaxPhantoms > 0, MaxOrphans > 0, MaxMismatches > 0
    PROVE  Spec => [][~(breaker = "closed" /\ breaker' = "open")]_vars
<1>1. IInv /\ [Next]_vars => [~(breaker = "closed" /\ breaker' = "open")]_vars
  <2> SUFFICES ASSUME IInv, [Next]_vars, breaker = "closed", breaker' = "open" PROVE FALSE
    OBVIOUS
  <2>1. Types
    BY DEF IInv
  <2>2. Trips(Events) /\ watch.phase = "answered"
    BY <2>1, TripLemma, RefusedLemma
  <2>3. PICK e \in Divergences(watch.snap, watch.list) : e.severity = "ERROR"
    BY <2>2 DEF Trips, Events
  <2>4. \E i \in Orders : watch.list[i] = "FILLED"
    BY <2>3 DEF Divergences, Event
  <2> QED
    BY <2>1, <2>4 DEF Types, Round
<1> QED
  BY <1>1, SupervisorInvariant, PTL DEF Spec

(* If no divergence is tolerated and the initial reconciliation did compare*)
(* the lists, the boot permit is given only if OMS and venue agree on which*)
(* orders are open, but for those that changed during the boot.            *)
THEOREM PermitsMeanAgreement ==
    ASSUME MaxDivergences = 0
    PROVE  Spec => PermitMeansAgreement
<1>1. IInv /\ [Next]_vars =>
        [stage # "services" /\ stage' = "services" /\ control'.enabled /\ ~control.enabled /\ compared
            => \A i \in Orders : venue[i] = before[i] => (Open(oms[i]) <=> Open(venue[i]))]_vars
  <2> SUFFICES ASSUME IInv, [Next]_vars, stage # "services", stage' = "services", compared,
                      control'.enabled, ~control.enabled, NEW i \in Orders, venue[i] = before[i]
               PROVE  Open(oms[i]) <=> Open(venue[i])
    OBVIOUS
  <2>1. Types /\ BootOK
    BY DEF IInv
  <2>2. EvaluateGates
    <3>1. CASE \E j \in Orders : Order(j)
      BY <2>1, <3>1, OrderMoves
    <3>2. CASE Operator
      BY <2>1, <3>2, OperatorLemma
    <3> QED
      BY <3>1, <3>2
         DEF Next, Boot, Start, Load, Reconstruct, AskAtBoot, ReconciledAtBoot, Loop, Venue,
             StartService, Started, NotStarted, StartSink, Stop, StopService, Crash, vars
  <2>3. PICK fresh \in BOOLEAN : Permit(GatesPass(Status(fresh)))
    BY <2>2 DEF EvaluateGates
  <2>4. GatesPass(Status(fresh))
    <3> DEFINE b == control.enabled \/ GatesPass(Status(fresh))
    <3>1. b \in BOOLEAN /\ control' = [control EXCEPT !.enabled = b]
      BY <2>3 DEF Permit
    <3> HIDE DEF b
    <3>2. control'.enabled = b
      BY <2>1, <3>1, ControlLemma DEF Types
    <3> QED
      BY <3>2 DEF b
  <2>5. Reconciled
    BY <2>4 DEF GatesPass, Status
  <2> DEFINE actual == {e \in found : e.type # "none"}
  <2>6. IsFiniteSet(actual)
    BY <2>1, FS_Subset DEF Types
  <2>7. Cardinality(actual) <= 0
    BY <2>5 DEF Reconciled
  <2>8. actual = {}
    BY <2>6, <2>7, FS_EmptySet, FS_CardinalityType
  <2>10. stage = "reconciled"
    BY <2>2 DEF EvaluateGates
  <2> QED
    BY <2>1, <2>8, <2>10 DEF BootOK
<1> QED
  BY <1>1, SupervisorInvariant, PTL DEF Spec, PermitMeansAgreement
=============================================================================
