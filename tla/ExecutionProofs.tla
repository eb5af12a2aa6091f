--------------------------- MODULE ExecutionProofs --------------------------
(***************************************************************************)
(* Theorems about Execution, for any set of lanes and client ids, whether  *)
(* or not an append suspends.                                              *)
(*                                                                         *)
(* Lanes share the commands and the control, nothing else: the inductive   *)
(* invariant is one statement per lane.  An order is waiting in the lane's *)
(* queue, or worked on, or done with, and each only once; while it is      *)
(* worked on, the point the handler has reached tells what the venue has   *)
(* done and what has been published.                                       *)
(***************************************************************************)
EXTENDS Execution, SequenceTheorems, TLAPS

Sub(r) == <<r, "submit">>

Working(r, o) == proc[Sub(r)] \in Work /\ proc[Sub(r)].order = o

(* Lane r has nothing of the order yet, except perhaps its command. *)
Fresh(r, o) == placed[r][o] = 0 /\ answers[r][o] = <<>> /\ ~Working(r, o)

(* The commands waiting are of different orders, none of them begun. *)
QueueOK(r) ==
    LET q == queue[Sub(r)] IN
    /\ \A i \in 1..Len(q) : q[i] \in submitted /\ Fresh(r, q[i])
    /\ \A i, j \in 1..Len(q) : q[i] = q[j] => i = j

UnsubmittedOK(r) == \A o \in Orders : o \notin submitted => Fresh(r, o)

(* What the handler has done to the order at each of its points. *)
WorkOK(r) ==
    proc[Sub(r)] \in Work =>
        LET w == proc[Sub(r)]
            n == placed[r][w.order]
            a == answers[r][w.order]
        IN /\ w.order \in submitted
           /\ w.pc \in {"request", "call", "lookup", "balance"} => n = 0 /\ a = <<>>
           /\ w.pc = "call" => r \notin Live
           /\ w.pc = "post" => n = (IF w.fate = "taken" THEN 1 ELSE 0) /\ a = <<>>
           /\ w.pc = "response" =>
                 /\ n = 1 /\ a = <<>>
                 /\ w.fate \in {"filled", "unpriced", "open"}
                 /\ w.fate = "unpriced" => r \notin Live
           /\ w.pc = "fill"  => n = 1 /\ a = <<>>
           /\ w.pc = "ack"   => n = 1 /\ a \in {<<>>, <<"fill">>}
           /\ w.pc = "error" => /\ n \in {0, 1} /\ a = <<>>
                                /\ w.fate = "fatal" => n = 0 \/ r \notin Live
           /\ w.pc = "reject" => /\ n \in {0, 1} /\ a \in {<<>>, <<"error">>}
                                 /\ n = 0 \/ r \notin Live

(* The conversations that say the order was taken, or that it was not. *)
Taken   == { <<"fill">>, <<"fill", "ack">>, <<"ack">> }
Refused == { <<"error", "reject">>, <<"reject">> }

(* What holds of every order at all times. *)
OrderOK(r, o) ==
    /\ placed[r][o] \in {0, 1}
    /\ answers[r][o] \in Conversations
    /\ answers[r][o] \in Taken => placed[r][o] = 1
    /\ answers[r][o] \in Refused => placed[r][o] = 0 \/ r \notin Live

LaneOK(r) ==
    /\ QueueOK(r) /\ UnsubmittedOK(r) /\ WorkOK(r)
    /\ \A o \in Orders : OrderOK(r, o)

(* The inductive invariant. *)
IInv == TypeOK /\ \A r \in Lanes : LaneOK(r)

-----------------------------------------------------------------------------
LEMMA TypeInit == Init => TypeOK
<1> SUFFICES ASSUME Init PROVE TypeOK
  OBVIOUS
<1> USE DEF Init, TypeOK
<1>1. submitted \subseteq Orders /\ cancels \in 0..MaxCancels
  BY ExecutionBounds
<1>2. queue \in [Procs -> Seq(Orders)] /\ proc \in [Procs -> {Idle} \cup Work]
  OBVIOUS
<1>3. window \in [Procs -> [ClientIds -> 0..MaxPerSecond]]
  BY ExecutionBounds
<1>4. /\ placed \in [Lanes -> [Orders -> Nat]] /\ late \in [Lanes -> Nat]
      /\ answers \in [Lanes -> [Orders -> Seq(Answers)]]
  OBVIOUS
<1> QED
  BY <1>1, <1>2, <1>3, <1>4

LEMMA LanesInit == Init => \A r \in Lanes : LaneOK(r)
<1> SUFFICES ASSUME Init, NEW r \in Lanes PROVE LaneOK(r)
  OBVIOUS
<1>0. Sub(r) \in Procs
  BY DEF Sub, Procs, Kinds
<1>1. queue[Sub(r)] = <<>> /\ proc[Sub(r)] = Idle
  BY <1>0 DEF Init
<1>2. Idle \notin Work
  BY DEF Idle, Work, Publishing
<1>3. \A o \in Orders : placed[r][o] = 0 /\ answers[r][o] = <<>>
  BY DEF Init
<1>4. \A o \in Orders : Fresh(r, o)
  BY <1>1, <1>2, <1>3 DEF Fresh, Working
<1>5. QueueOK(r) /\ UnsubmittedOK(r) /\ WorkOK(r)
  BY <1>1, <1>2, <1>4 DEF QueueOK, UnsubmittedOK, WorkOK
<1>6. \A o \in Orders : OrderOK(r, o)
  BY <1>3 DEF OrderOK, Conversations, Taken, Refused
<1> QED
  BY <1>5, <1>6 DEF LaneOK

-----------------------------------------------------------------------------
(* Lemmas about the helpers of Execution. *)

(* How conversations continue. *)
LEMMA Talk ==
    /\ \A a \in Answers : Append(<<>>, a) = <<a>>
    /\ Append(<<"fill">>, "ack") = <<"fill", "ack">>
    /\ Append(<<"error">>, "reject") = <<"error", "reject">>
<1>1. \A a \in Answers : Append(<<>>, a) = <<a>>
  OBVIOUS
<1>2. ASSUME NEW a \in Answers, NEW b \in Answers PROVE Append(<<a>>, b) = <<a, b>>
  <2>1. <<a>> \in Seq(Answers) /\ <<a, b>> \in Seq(Answers)
    OBVIOUS
  <2>2. Append(<<a>>, b) \in Seq(Answers) /\ Len(Append(<<a>>, b)) = 2
        /\ Append(<<a>>, b)[1] = a /\ Append(<<a>>, b)[2] = b
    BY <2>1
  <2>3. Len(<<a, b>>) = 2 /\ <<a, b>>[1] = a /\ <<a, b>>[2] = b
    OBVIOUS
  <2>4. \A i \in 1..2 : Append(<<a>>, b)[i] = <<a, b>>[i]
    BY <2>2, <2>3
  <2> QED
    BY <2>1, <2>2, <2>3, <2>4, SeqEqual
<1>3. {"fill", "ack", "error", "reject"} \subseteq Answers
  BY DEF Answers
<1> QED
  BY <1>1, <1>2, <1>3

(* What they say of the order. *)
LEMMA Sense ==
    /\ Conversations = {<<>>, <<"error">>} \cup Taken \cup Refused
    /\ \A t \in Taken : t \notin Refused
    /\ \A t \in {<<>>, <<"error">>} : t \notin Taken /\ t \notin Refused
<1>1. Conversations = {<<>>, <<"error">>} \cup Taken \cup Refused
  BY DEF Conversations, Taken, Refused
<1>2. \A t \in Taken : t[1] \in {"fill", "ack"}
  BY DEF Taken
<1>3. \A t \in Refused : t[1] \in {"error", "reject"} /\ (t[1] = "error" => Len(t) = 2)
  BY DEF Refused
<1>4. <<>> \notin Taken /\ <<>> \notin Refused
  BY DEF Taken, Refused
<1>5. <<"error">>[1] = "error" /\ Len(<<"error">>) = 1
  OBVIOUS
<1> QED
  BY <1>1, <1>2, <1>3, <1>4, <1>5

LEMMA GoLemma ==
    ASSUME TypeOK, NEW p \in Procs, NEW pc \in Publishing \cup Calling,
           NEW o \in Orders, NEW f \in Fates, Go(p, pc, o, f)
    PROVE  /\ proc' \in [Procs -> {Idle} \cup Work]
           /\ proc'[p] \in Work
           /\ proc'[p].pc = pc /\ proc'[p].order = o /\ proc'[p].fate = f
           /\ \A q \in Procs \ {p} : proc'[q] = proc[q]
<1>1. proc \in [Procs -> {Idle} \cup Work]
  BY DEF TypeOK
<1>2. [pc |-> pc, order |-> o, fate |-> f] \in Work
  BY DEF Work
<1> QED
  BY <1>1, <1>2 DEF Go

LEMMA StepLemma ==
    ASSUME TypeOK, NEW p \in Procs, proc[p].pc # "idle",
           NEW pc \in Publishing \cup Calling, NEW f \in Fates, Step(p, pc, f)
    PROVE  /\ proc' \in [Procs -> {Idle} \cup Work]
           /\ proc'[p] \in Work
           /\ proc'[p].pc = pc /\ proc'[p].order = proc[p].order /\ proc'[p].fate = f
           /\ \A q \in Procs \ {p} : proc'[q] = proc[q]
<1>1. proc[p] \in Work
  BY DEF TypeOK, Idle
<1>2. proc[p].order \in Orders
  BY <1>1 DEF Work
<1>3. Go(p, pc, proc[p].order, f)
  BY DEF Step
<1> QED
  BY <1>2, <1>3, GoLemma

LEMMA RestLemma ==
    ASSUME TypeOK, NEW p \in Procs, Rest(p)
    PROVE  /\ proc' \in [Procs -> {Idle} \cup Work]
           /\ proc'[p] = Idle
           /\ \A q \in Procs \ {p} : proc'[q] = proc[q]
BY DEF TypeOK, Rest

LEMMA TakeLemma ==
    ASSUME TypeOK, NEW p \in Procs, Take(p)
    PROVE  /\ queue' \in [Procs -> Seq(Orders)]
           /\ Head(queue[p]) \in Orders
           /\ queue'[p] = Tail(queue[p])
           /\ \A q \in Procs \ {p} : queue'[q] = queue[q]
BY DEF TypeOK, Take

LEMMA RecordLemma ==
    ASSUME TypeOK, NEW p \in Procs, NEW c \in ClientIds, ~Throttled(p, c), Record(p, c)
    PROVE  window' \in [Procs -> [ClientIds -> 0..MaxPerSecond]]
<1>1. window[p] \in [ClientIds -> 0..MaxPerSecond]
  BY DEF TypeOK
<1>2. window[p][c] + 1 \in 0..MaxPerSecond
  BY <1>1, ExecutionBounds DEF Throttled
<1>3. [window[p] EXCEPT ![c] = @ + 1] \in [ClientIds -> 0..MaxPerSecond]
  BY <1>1, <1>2
<1>4. window' = [window EXCEPT ![p] = [window[p] EXCEPT ![c] = @ + 1]]
  BY <1>1 DEF Record, TypeOK
<1> QED
  BY <1>3, <1>4 DEF TypeOK

(* A publish about the order in hand adds to what was said of it, and of   *)
(* no other order.                                                         *)
LEMMA DeliverLemma ==
    ASSUME TypeOK, NEW r \in Lanes, NEW k \in Kinds, proc[<<r, k>>] \in Work,
           NEW a \in Answers, Deliver(<<r, k>>, a)
    PROVE  LET o == proc[<<r, k>>].order IN
           /\ answers' \in [Lanes -> [Orders -> Seq(Answers)]]
           /\ answers'[r][o] = Append(answers[r][o], a)
           /\ \A x \in Orders \ {o} : answers'[r][x] = answers[r][x]
           /\ \A s \in Lanes \ {r} : answers'[s] = answers[s]
<1> DEFINE o == proc[<<r, k>>].order
<1>1. o \in Orders
  BY DEF Work
<1>2. answers \in [Lanes -> [Orders -> Seq(Answers)]]
  BY DEF TypeOK
<1>3. answers' = [answers EXCEPT ![r] = [answers[r] EXCEPT ![o] = Append(@, a)]]
  BY <1>1, <1>2 DEF Deliver
<1>4. Append(answers[r][o], a) \in Seq(Answers)
  BY <1>1, <1>2
<1>5. [answers[r] EXCEPT ![o] = Append(@, a)] \in [Orders -> Seq(Answers)]
  BY <1>1, <1>2, <1>4
<1> QED
  BY <1>1, <1>2, <1>3, <1>5

-----------------------------------------------------------------------------
(* Type correctness of the steps. *)

LEMMA TypeOms ==
    ASSUME TypeOK, NEW o \in Orders, Submit(o) \/ Cancel(o)
    PROVE  TypeOK'
<1> USE DEF TypeOK
<1>1. \A k \in Kinds : Enqueue(k, o) => queue' \in [Procs -> Seq(Orders)]
  <2> SUFFICES ASSUME NEW k \in Kinds, Enqueue(k, o) PROVE queue' \in [Procs -> Seq(Orders)]
    OBVIOUS
  <2>1. \A p \in Procs : Append(queue[p], o) \in Seq(Orders) /\ queue[p] \in Seq(Orders)
    OBVIOUS
  <2> QED
    BY <2>1 DEF Enqueue
<1>2. CASE Submit(o)
  BY <1>1, <1>2 DEF Submit, Kinds, control, venue
<1>3. CASE Cancel(o)
  <2>1. cancels' \in 0..MaxCancels
    BY <1>3, ExecutionBounds DEF Cancel
  <2> QED
    BY <1>1, <1>3, <2>1 DEF Cancel, Kinds, control, venue
<1> QED
  BY <1>2, <1>3

LEMMA TypeControl ==
    ASSUME TypeOK, NEW e \in BOOLEAN, NEW k \in BOOLEAN, Control(e, k)
    PROVE  TypeOK'
BY DEF TypeOK, Control, oms

LEMMA TypeExpire ==
    ASSUME TypeOK, NEW p \in Procs, NEW c \in ClientIds, Expire(p, c)
    PROVE  TypeOK'
<1>1. window[p] \in [ClientIds -> 0..MaxPerSecond] /\ window[p][c] - 1 \in 0..MaxPerSecond
  BY ExecutionBounds DEF TypeOK, Expire
<1>2. [window[p] EXCEPT ![c] = @ - 1] \in [ClientIds -> 0..MaxPerSecond]
  BY <1>1
<1>3. window' = [window EXCEPT ![p] = [window[p] EXCEPT ![c] = @ - 1]]
  BY <1>1 DEF Expire, TypeOK
<1>4. window' \in [Procs -> [ClientIds -> 0..MaxPerSecond]]
  BY <1>2, <1>3 DEF TypeOK
<1> QED
  BY <1>4 DEF TypeOK, Expire, oms, control, venue

(* The submit task of lane r never idles in the middle of a handler.       *)
LEMMA InHand ==
    ASSUME TypeOK, NEW p \in Procs, proc[p].pc # "idle"
    PROVE  proc[p] \in Work /\ proc[p].order \in Orders /\ proc[p].fate \in Fates
BY DEF TypeOK, Idle, Work

LEMMA SubProc == \A r \in Lanes : Sub(r) \in Procs /\ <<r, "cancel">> \in Procs
BY DEF Sub, Procs, Kinds

LEMMA TypeTakeSubmit ==
    ASSUME TypeOK, NEW r \in Lanes, TakeSubmit(r)
    PROVE  TypeOK'
<1> DEFINE p == <<r, "submit">>
<1>1. p \in Procs
  BY SubProc DEF Sub
<1>2. Take(p) /\ UNCHANGED window
  BY DEF TakeSubmit
<1>3. queue' \in [Procs -> Seq(Orders)] /\ Head(queue[p]) \in Orders
  BY <1>1, <1>2, TakeLemma
<1>4. PICK pc \in Publishing, f \in Fates : Go(p, pc, Head(queue[p]), f)
  BY DEF TakeSubmit, Publishing, Fates
<1>5. proc' \in [Procs -> {Idle} \cup Work]
  BY <1>1, <1>3, <1>4, GoLemma
<1> QED
  BY <1>2, <1>3, <1>5 DEF TypeOK, Take, oms, control, venue

LEMMA TypeCallVenue ==
    ASSUME TypeOK, NEW r \in Lanes, CallVenue(r)
    PROVE  TypeOK'
<1> DEFINE p == <<r, "submit">>
<1>1. p \in Procs /\ proc[p].pc # "idle"
  BY SubProc DEF Sub, CallVenue
<1>2. proc[p].order.client \in ClientIds
  BY <1>1, InHand DEF Orders
<1>3. PICK pc \in Publishing \cup Calling, f \in Fates : Step(p, pc, f)
  BY DEF CallVenue, Throttle, Publishing, Calling, Fates
<1>4. proc' \in [Procs -> {Idle} \cup Work]
  BY <1>1, <1>3, StepLemma
<1>5. window' \in [Procs -> [ClientIds -> 0..MaxPerSecond]]
  BY <1>1, <1>2, RecordLemma DEF CallVenue, TypeOK
<1> QED
  BY <1>4, <1>5 DEF TypeOK, CallVenue, oms, control, venue

LEMMA VenueLemma ==
    ASSUME TypeOK, NEW r \in Lanes, NEW o \in Orders, NEW n \in {0, 1}, VenueGets(r, o, n)
    PROVE  /\ placed' \in [Lanes -> [Orders -> Nat]] /\ late' \in [Lanes -> Nat]
           /\ placed'[r][o] = placed[r][o] + n
           /\ \A x \in Orders \ {o} : placed'[r][x] = placed[r][x]
           /\ late'[r] = IF enabled /\ ~kill THEN late[r] ELSE late[r] + n
           /\ \A s \in Lanes \ {r} : placed'[s] = placed[s] /\ late'[s] = late[s]
<1>1. placed' = [placed EXCEPT ![r] = [placed[r] EXCEPT ![o] = @ + n]]
  BY DEF VenueGets, TypeOK
<1>2. [placed[r] EXCEPT ![o] = @ + n] \in [Orders -> Nat]
  BY DEF TypeOK
<1>3. placed' \in [Lanes -> [Orders -> Nat]]
  BY <1>1, <1>2 DEF TypeOK
<1>4. late' \in [Lanes -> Nat]
  BY DEF VenueGets, TypeOK
<1> QED
  BY <1>1, <1>3, <1>4 DEF VenueGets, TypeOK

(* A step in which the venue of lane r may take the order in hand: of the  *)
(* adapter (AdapterAnswers) or of the venue itself.                        *)
Gets(r, pc, f, n) ==
    /\ proc[Sub(r)].pc \in Calling
    /\ Step(Sub(r), pc, f)
    /\ VenueGets(r, proc[Sub(r)].order, n)
    /\ UNCHANGED <<oms, queue, window, control, answers>>

LEMMA GetsLemma ==
    ASSUME TypeOK, NEW r \in Lanes, NEW pc \in Publishing \cup Calling, NEW f \in Fates,
           NEW n \in {0, 1}, Gets(r, pc, f, n)
    PROVE  LET o == proc[Sub(r)].order IN
           /\ TypeOK'
           /\ placed'[r][o] = placed[r][o] + n
           /\ \A x \in Orders \ {o} : placed'[r][x] = placed[r][x]
           /\ \A s \in Lanes \ {r} : placed'[s] = placed[s]
<1>1. Sub(r) \in Procs /\ proc[Sub(r)].pc # "idle"
  BY SubProc DEF Gets, Calling
<1>2. proc[Sub(r)].order \in Orders
  BY <1>1, InHand
<1>3. proc' \in [Procs -> {Idle} \cup Work]
  BY <1>1, StepLemma DEF Gets
<1>4. TypeOK'
  BY <1>2, <1>3, VenueLemma DEF TypeOK, Gets, oms, control
<1> QED
  BY <1>2, <1>4, VenueLemma DEF Gets

(* What the awaits of an adapter lead to. *)
LEMMA AdapterAnswers ==
    ASSUME TypeOK, NEW r \in Lanes, PaperAnswers(r) \/ VenueTakes(r)
    PROVE  \E pc \in Publishing \cup Calling, f \in Fates, n \in {0, 1} :
              /\ Gets(r, pc, f, n)
              /\ \/ /\ proc[Sub(r)].pc = "call"
                    /\ \/ pc = "response" /\ n = 1 /\ f \in {"open", "filled", "unpriced"}
                       \/ pc = "error" /\ f = "fatal" /\ n = 0
                 \/ /\ proc[Sub(r)].pc = "post" /\ proc[Sub(r)].fate = "new"
                    /\ pc = "post" /\ f = "taken" /\ n = 1
BY DEF PaperAnswers, Answer, VenueTakes, Gets, Publishing, Calling, Fates, Sub

(* The live adapter goes on to its next await, or is done. *)
Goes(r, pc, f) ==
    /\ Step(Sub(r), pc, f)
    /\ UNCHANGED <<oms, queue, window, control, venue, answers>>

LEMMA LiveGoes ==
    ASSUME TypeOK, NEW r \in Lanes, LookUp(r) \/ CheckBalance(r) \/ LiveAnswers(r)
    PROVE  \E pc \in Publishing \cup Calling, f \in Fates :
              /\ Goes(r, pc, f)
              /\ \/ /\ proc[Sub(r)].pc \in {"lookup", "balance"}
                    /\ \/ pc \in {"balance", "post"} /\ f = "new"
                       \/ pc = "error" /\ f = "fatal"
                 \/ /\ proc[Sub(r)].pc = "post" /\ proc[Sub(r)].fate = "taken"
                    /\ \/ pc = "response" /\ f = "open"
                       \/ pc = "error" /\ f = "retryable"
                 \/ /\ proc[Sub(r)].pc = "post" /\ proc[Sub(r)].fate # "taken"
                    /\ pc = "error" /\ f \in {"fatal", "retryable"}
BY DEF LookUp, CheckBalance, LiveAnswers, Awaited, Goes, Publishing, Calling, Fates, Sub

LEMMA TypeGoes ==
    ASSUME TypeOK, NEW r \in Lanes, LookUp(r) \/ CheckBalance(r) \/ LiveAnswers(r)
    PROVE  TypeOK'
<1>1. PICK pc \in Publishing \cup Calling, f \in Fates :
          Goes(r, pc, f) /\ proc[Sub(r)].pc \in {"lookup", "balance", "post"}
  BY LiveGoes
<1>2. proc' \in [Procs -> {Idle} \cup Work]
  BY <1>1, SubProc, StepLemma DEF Goes
<1> QED
  BY <1>1, <1>2 DEF TypeOK, Goes, oms, control, venue

LEMMA TypePublished ==
    ASSUME TypeOK, NEW r \in Lanes,
           ResponseOut(r) \/ FillOut(r) \/ AckOut(r) \/ ErrorOut(r) \/ RejectOut(r)
    PROVE  TypeOK'
<1> DEFINE p == <<r, "submit">>
<1>1. p \in Procs
  BY SubProc DEF Sub
<1>2. proc[p].pc # "idle"
  BY DEF ResponseOut, FillOut, AckOut, ErrorOut, RejectOut, Published
<1>3. proc[p] \in Work
  BY <1>1, <1>2, InHand
<1>4. (\E pc \in Publishing, f \in Fates : Step(p, pc, f)) => proc' \in [Procs -> {Idle} \cup Work]
  BY <1>1, <1>2, StepLemma
<1>5. Rest(p) => proc' \in [Procs -> {Idle} \cup Work]
  BY <1>1, RestLemma
<1>6. \A a \in Answers : Deliver(p, a) => answers' \in [Lanes -> [Orders -> Seq(Answers)]]
  BY <1>3, DeliverLemma DEF Kinds
<1>7. ASSUME NEW pc, Published(p, pc), queue' = queue,
             proc' \in [Procs -> {Idle} \cup Work],
             answers' \in [Lanes -> [Orders -> Seq(Answers)]]
      PROVE  TypeOK'
  BY <1>7 DEF TypeOK, Published, oms, control, venue
<1>8. "fill" \in Answers /\ "ack" \in Answers /\ "error" \in Answers /\ "reject" \in Answers
  BY DEF Answers
<1>a. CASE ResponseOut(r)
  <2>1. \E pc \in Publishing, f \in Fates : Step(p, pc, f)
    BY <1>a DEF ResponseOut, AfterResponse, Publishing, Fates
  <2> QED
    BY <1>a, <1>4, <1>7, <2>1 DEF ResponseOut, TypeOK
<1>b. CASE FillOut(r)
  <2>1. \E pc \in Publishing, f \in Fates : Step(p, pc, f)
    BY <1>b DEF FillOut, Publishing, Fates
  <2> QED
    BY <1>b, <1>4, <1>6, <1>7, <1>8, <2>1 DEF FillOut
<1>c. CASE AckOut(r)
  BY <1>c, <1>5, <1>6, <1>7, <1>8 DEF AckOut
<1>d. CASE ErrorOut(r)
  <2>1. Rest(p) \/ \E pc \in Publishing, f \in Fates : Step(p, pc, f)
    BY <1>d DEF ErrorOut, AfterError, Publishing, Fates
  <2> QED
    BY <1>d, <1>4, <1>5, <1>6, <1>7, <1>8, <2>1 DEF ErrorOut, AfterError
<1>e. CASE RejectOut(r)
  BY <1>e, <1>5, <1>6, <1>7, <1>8 DEF RejectOut
<1> QED
  BY <1>a, <1>b, <1>c, <1>d, <1>e

LEMMA TypeCancelTask ==
    ASSUME TypeOK, NEW r \in Lanes, CancelTask(r)
    PROVE  TypeOK'
<1> DEFINE p == <<r, "cancel">>
<1>1. p \in Procs
  BY SubProc
<1>2. CASE TakeCancel(r)
  <2>1. queue' \in [Procs -> Seq(Orders)] /\ Head(queue[p]) \in Orders
    BY <1>1, <1>2, TakeLemma DEF TakeCancel
  <2>2. PICK pc \in Publishing, f \in Fates : Go(p, pc, Head(queue[p]), f)
    BY <1>2 DEF TakeCancel, Publishing, Fates
  <2>3. proc' \in [Procs -> {Idle} \cup Work]
    BY <1>1, <2>1, <2>2, GoLemma
  <2>4. Head(queue[p]).client \in ClientIds
    BY <2>1 DEF Orders
  <2>5. window' \in [Procs -> [ClientIds -> 0..MaxPerSecond]]
    BY <1>1, <1>2, <2>4, RecordLemma DEF TakeCancel, TypeOK
  <2> QED
    BY <1>2, <2>1, <2>3, <2>5 DEF TakeCancel, Take, TypeOK, oms, control, venue
<1>3. CASE CancelStep(r)
  <2>1. proc[p].pc # "idle"
    BY <1>3 DEF CancelStep
  <2>2. Rest(p) \/ \E pc \in Publishing \cup Calling, f \in Fates : Step(p, pc, f)
    BY <1>3 DEF CancelStep, Publishing, Calling, Fates
  <2>3. proc' \in [Procs -> {Idle} \cup Work]
    BY <1>1, <2>1, <2>2, StepLemma, RestLemma
  <2> QED
    BY <1>3, <2>3 DEF CancelStep, TypeOK, oms, control, venue
<1> QED
  BY <1>2, <1>3 DEF CancelTask

LEMMA TypeStep == TypeOK /\ [Next]_vars => TypeOK'
<1> SUFFICES ASSUME TypeOK, [Next]_vars PROVE TypeOK'
  OBVIOUS
<1>1. CASE UNCHANGED vars
  BY <1>1 DEF vars, TypeOK
<1>2. CASE \E o \in Orders : Submit(o) \/ Cancel(o)
  BY <1>2, TypeOms
<1>3. CASE Enable \/ Disable \/ \E b \in BOOLEAN : SetKillSwitch(b)
  <2>1. \E e \in BOOLEAN, k \in BOOLEAN : Control(e, k)
    BY <1>3 DEF Enable, Disable, SetKillSwitch, TypeOK
  <2> QED
    BY <2>1, TypeControl
<1>4. CASE \E p \in Procs : \E c \in ClientIds : Expire(p, c)
  BY <1>4, TypeExpire
<1>5. ASSUME NEW r \in Lanes, SubmitTask(r) \/ LiveCall(r) \/ CancelTask(r) PROVE TypeOK'
  <2>1. CASE PaperAnswers(r) \/ VenueTakes(r)
    BY <2>1, AdapterAnswers, GetsLemma
  <2> QED
    BY <1>5, <2>1, TypeTakeSubmit, TypeCallVenue, TypeGoes, TypePublished, TypeCancelTask
       DEF SubmitTask, LiveCall
<1> QED
  BY <1>1, <1>2, <1>3, <1>4, <1>5 DEF Next

-----------------------------------------------------------------------------
(* What a step does to a lane. *)

(* A lane that a step leaves alone stays as it should be. *)
LEMMA Frame ==
    ASSUME NEW r \in Lanes, LaneOK(r), submitted' = submitted,
           proc'[Sub(r)] = proc[Sub(r)], queue'[Sub(r)] = queue[Sub(r)],
           placed'[r] = placed[r], answers'[r] = answers[r]
    PROVE  LaneOK(r)'
<1>1. \A o : Fresh(r, o)' = Fresh(r, o)
  BY DEF Fresh, Working
<1>2. QueueOK(r)' /\ UnsubmittedOK(r)'
  BY <1>1 DEF LaneOK, QueueOK, UnsubmittedOK
<1>3. WorkOK(r)'
  BY DEF LaneOK, WorkOK
<1>4. \A o \in Orders : OrderOK(r, o)'
  BY DEF LaneOK, OrderOK
<1> QED
  BY <1>2, <1>3, <1>4 DEF LaneOK

(* A step of the handler changes nothing but the order in hand. *)
LEMMA HandlerStep ==
    ASSUME NEW r \in Lanes, LaneOK(r), submitted' = submitted,
           proc[Sub(r)] \in Work, queue'[Sub(r)] = queue[Sub(r)],
           NEW o \in Orders, o = proc[Sub(r)].order,
           \A x \in Orders \ {o} : placed'[r][x] = placed[r][x],
           \A x \in Orders \ {o} : answers'[r][x] = answers[r][x],
           proc'[Sub(r)] \in Work => proc'[Sub(r)].order = o,
           queue \in [Procs -> Seq(Orders)], WorkOK(r)', OrderOK(r, o)'
    PROVE  LaneOK(r)'
<1>1. o \in submitted /\ ~Fresh(r, o)
  BY DEF LaneOK, WorkOK, Fresh, Working
<1>2. \A x \in Orders \ {o} : Fresh(r, x) => Fresh(r, x)'
  BY DEF Fresh, Working
<1>3. UnsubmittedOK(r)'
  BY <1>1, <1>2 DEF LaneOK, UnsubmittedOK
<1>4. QueueOK(r)'
  <2> DEFINE q == queue[Sub(r)]
  <2>1. q \in Seq(Orders)
    BY SubProc
  <2>2. \A i \in 1..Len(q) : q[i] \in Orders /\ q[i] # o /\ Fresh(r, q[i])
    BY <1>1, <2>1 DEF LaneOK, QueueOK
  <2>3. \A i \in 1..Len(q) : Fresh(r, q[i])'
    BY <1>2, <2>2 DEF Fresh, Working
  <2> QED
    BY <2>3 DEF LaneOK, QueueOK
<1>5. \A x \in Orders \ {o} : OrderOK(r, x)'
  BY DEF LaneOK, OrderOK
<1> QED
  BY <1>3, <1>4, <1>5 DEF LaneOK

LEMMA LaneSubmit ==
    ASSUME TypeOK, NEW r \in Lanes, LaneOK(r), NEW o \in Orders, Submit(o)
    PROVE  LaneOK(r)'
<1>0. queue[Sub(r)] \in Seq(Orders) /\ queue'[Sub(r)] = Append(queue[Sub(r)], o)
  BY SubProc DEF TypeOK, Submit, Enqueue, Sub
<1>1. PICK q \in Seq(Orders) : q = queue[Sub(r)] /\ queue'[Sub(r)] = Append(q, o)
  BY <1>0
<1>2. \A x \in Orders : Fresh(r, x)' = Fresh(r, x)
  BY DEF Fresh, Working, Submit, venue
<1>3. \A i \in 1..Len(q) : q[i] \in Orders /\ q[i] \in submitted /\ Fresh(r, q[i])
  BY <1>1 DEF LaneOK, QueueOK
<1>4. o \notin submitted /\ submitted' = submitted \cup {o} /\ Fresh(r, o)
  BY DEF Submit, LaneOK, UnsubmittedOK
<1>5. UnsubmittedOK(r)'
  BY <1>2, <1>4 DEF LaneOK, UnsubmittedOK
<1>6. QueueOK(r)'
  <2>0. PICK t : t = Append(q, o)
    OBVIOUS
  <2>1. Len(t) = Len(q) + 1 /\ t[Len(q) + 1] = o /\ \A i \in 1..Len(q) : t[i] = q[i]
    BY <2>0
  <2>2. Len(q) \in Nat
    BY <1>1
  <2>3. \A i \in 1..Len(t) : t[i] \in Orders /\ t[i] \in submitted' /\ Fresh(r, t[i])
    BY <1>3, <1>4, <2>1, <2>2
  <2>4. \A i \in 1..Len(t) : Fresh(r, t[i])'
    BY <1>2, <2>3
  <2>5. \A i, j \in 1..Len(q) : q[i] = q[j] => i = j
    BY <1>1 DEF LaneOK, QueueOK
  <2>6. \A i, j \in 1..Len(t) : t[i] = t[j] => i = j
    BY <1>3, <1>4, <2>1, <2>2, <2>5
  <2> QED
    BY <1>1, <2>0, <2>3, <2>4, <2>6 DEF QueueOK
<1>7. WorkOK(r)'
  BY <1>4 DEF LaneOK, WorkOK, Submit, venue
<1>8. \A x \in Orders : OrderOK(r, x)'
  BY DEF LaneOK, OrderOK, Submit, venue
<1> QED
  BY <1>5, <1>6, <1>7, <1>8 DEF LaneOK

LEMMA LaneTakeSubmit ==
    ASSUME TypeOK, NEW r \in Lanes, LaneOK(r), TakeSubmit(r)
    PROVE  LaneOK(r)'
<1>0. Sub(r) \in Procs /\ queue[Sub(r)] \in Seq(Orders) /\ queue[Sub(r)] # <<>>
  BY SubProc DEF TypeOK, TakeSubmit, Take, Sub
<1>1. PICK q \in Seq(Orders) : q = queue[Sub(r)] /\ q # <<>> /\ Sub(r) \in Procs
  BY <1>0
<1>t. queue'[Sub(r)] = Tail(q) /\ Head(q) \in Orders
  BY <1>1, TakeLemma DEF TakeSubmit, Sub
<1>2. PICK o \in Orders : o = Head(q) /\ queue'[Sub(r)] = Tail(q)
  BY <1>t
<1>3. /\ submitted' = submitted /\ placed' = placed /\ answers' = answers
      /\ proc[Sub(r)].pc = "idle"
  BY DEF TakeSubmit, Take, oms, venue, Sub
<1>4. o = q[1] /\ Len(q) \in Nat \ {0} /\ Len(Tail(q)) = Len(q) - 1
      /\ \A i \in 1..Len(Tail(q)) : Tail(q)[i] = q[i + 1]
  BY <1>1, <1>2
<1>5. o \in submitted /\ Fresh(r, o)
  BY <1>1, <1>4 DEF LaneOK, QueueOK
<1>6. /\ proc'[Sub(r)] \in Work /\ proc'[Sub(r)].order = o
      /\ proc'[Sub(r)].pc \in {"reject", "request"}
  <2>1. CASE Go(Sub(r), "reject", o, "gated")
    BY <1>1, <1>2, <2>1, GoLemma DEF Publishing, Fates
  <2>2. CASE Go(Sub(r), "request", o, "new")
    BY <1>1, <1>2, <2>2, GoLemma DEF Publishing, Fates
  <2> QED
    BY <1>1, <1>2, <2>1, <2>2 DEF TakeSubmit, Sub
<1>7. \A x \in Orders \ {o} : Fresh(r, x) => Fresh(r, x)'
  BY <1>3, <1>6 DEF Fresh, Working
<1>8. UnsubmittedOK(r)'
  BY <1>3, <1>5, <1>7 DEF LaneOK, UnsubmittedOK
<1>9. QueueOK(r)'
  <2>0. PICK t : t = Tail(q)
    OBVIOUS
  <2>1. \A i, j \in 1..Len(q) : q[i] = q[j] => i = j
    BY <1>1 DEF LaneOK, QueueOK
  <2>2. \A i \in 1..Len(q) : q[i] \in Orders /\ q[i] \in submitted /\ Fresh(r, q[i])
    BY <1>1 DEF LaneOK, QueueOK
  <2>3. \A i \in 1..Len(t) : t[i] \in Orders \ {o} /\ t[i] \in submitted /\ Fresh(r, t[i])
    BY <1>4, <2>0, <2>1, <2>2
  <2>4. \A i \in 1..Len(t) : Fresh(r, t[i])'
    BY <1>7, <2>3
  <2>5. \A i, j \in 1..Len(t) : t[i] = t[j] => i = j
    BY <1>4, <2>0, <2>1
  <2> QED
    BY <1>2, <1>3, <2>0, <2>3, <2>4, <2>5 DEF QueueOK
<1>a. placed[r][o] = 0 /\ answers[r][o] = <<>>
  BY <1>5 DEF Fresh
<1>b. WorkOK(r)'
  BY <1>3, <1>5, <1>6, <1>a DEF WorkOK
<1>c. \A x \in Orders : OrderOK(r, x)'
  BY <1>3 DEF LaneOK, OrderOK
<1> QED
  BY <1>8, <1>9, <1>b, <1>c DEF LaneOK

LEMMA LaneCallVenue ==
    ASSUME TypeOK, NEW r \in Lanes, LaneOK(r), CallVenue(r)
    PROVE  LaneOK(r)'
<1>1. /\ submitted' = submitted /\ placed' = placed /\ answers' = answers /\ queue' = queue
      /\ proc[Sub(r)].pc = "request"
  BY DEF CallVenue, oms, venue, Sub
<1>0. Sub(r) \in Procs /\ proc[Sub(r)] \in Work /\ proc[Sub(r)].order \in Orders
  BY <1>1, SubProc, InHand
<1>2. PICK o \in Orders : o = proc[Sub(r)].order /\ Sub(r) \in Procs /\ proc[Sub(r)] \in Work
  BY <1>0
<1>3. o \in submitted /\ placed[r][o] = 0 /\ answers[r][o] = <<>>
  BY <1>1, <1>2 DEF LaneOK, WorkOK
<1>4. PICK pc \in {"error", "call", "lookup"}, f \in {"throttled", "new"} :
          /\ Step(Sub(r), pc, f)
          /\ pc = "error" => f = "throttled"
          /\ pc = "call" => r \notin Live
  BY DEF CallVenue, Throttle, Sub
<1>5. /\ proc'[Sub(r)] \in Work /\ proc'[Sub(r)].order = o
      /\ proc'[Sub(r)].pc = pc /\ proc'[Sub(r)].fate = f
  BY <1>1, <1>2, <1>4, StepLemma DEF Publishing, Calling, Fates
<1>6. WorkOK(r)'
  BY <1>1, <1>3, <1>4, <1>5 DEF WorkOK
<1>7. OrderOK(r, o)'
  BY <1>1, <1>2 DEF LaneOK, OrderOK
<1> QED
  BY <1>1, <1>2, <1>5, <1>6, <1>7, HandlerStep DEF TypeOK

LEMMA LaneAnswers ==
    ASSUME TypeOK, NEW r \in Lanes, LaneOK(r), PaperAnswers(r) \/ VenueTakes(r)
    PROVE  LaneOK(r)'
<1>1. PICK pc \in Publishing \cup Calling, f \in Fates, n \in {0, 1} :
          /\ Gets(r, pc, f, n)
          /\ \/ /\ proc[Sub(r)].pc = "call"
                /\ \/ pc = "response" /\ n = 1 /\ f \in {"open", "filled", "unpriced"}
                   \/ pc = "error" /\ f = "fatal" /\ n = 0
             \/ /\ proc[Sub(r)].pc = "post" /\ proc[Sub(r)].fate = "new"
                /\ pc = "post" /\ f = "taken" /\ n = 1
  BY AdapterAnswers
<1>2. /\ submitted' = submitted /\ answers' = answers /\ queue' = queue
      /\ Step(Sub(r), pc, f)
  BY <1>1 DEF Gets, oms
<1>0. Sub(r) \in Procs /\ proc[Sub(r)] \in Work /\ proc[Sub(r)].order \in Orders
  BY <1>1, SubProc, InHand
<1>3. PICK o \in Orders : o = proc[Sub(r)].order /\ Sub(r) \in Procs /\ proc[Sub(r)] \in Work
  BY <1>0
<1>4. /\ o \in submitted /\ placed[r][o] = 0 /\ answers[r][o] = <<>>
      /\ proc[Sub(r)].pc = "call" => r \notin Live
  BY <1>1, <1>3 DEF LaneOK, WorkOK
<1>5. placed'[r][o] = n /\ \A x \in Orders \ {o} : placed'[r][x] = placed[r][x]
  BY <1>1, <1>3, <1>4, GetsLemma
<1>6. /\ proc'[Sub(r)] \in Work /\ proc'[Sub(r)].order = o
      /\ proc'[Sub(r)].pc = pc /\ proc'[Sub(r)].fate = f
  BY <1>1, <1>2, <1>3, StepLemma
<1>7. WorkOK(r)'
  BY <1>1, <1>2, <1>4, <1>5, <1>6 DEF WorkOK
<1>8. OrderOK(r, o)'
  BY <1>2, <1>4, <1>5, Sense DEF OrderOK
<1> QED
  BY <1>2, <1>3, <1>5, <1>6, <1>7, <1>8, HandlerStep DEF TypeOK

LEMMA LaneGoes ==
    ASSUME TypeOK, NEW r \in Lanes, LaneOK(r), LookUp(r) \/ CheckBalance(r) \/ LiveAnswers(r)
    PROVE  LaneOK(r)'
<1>1. PICK pc \in Publishing \cup Calling, f \in Fates :
          /\ Goes(r, pc, f)
          /\ \/ /\ proc[Sub(r)].pc \in {"lookup", "balance"}
                /\ \/ pc \in {"balance", "post"} /\ f = "new"
                   \/ pc = "error" /\ f = "fatal"
             \/ /\ proc[Sub(r)].pc = "post" /\ proc[Sub(r)].fate = "taken"
                /\ \/ pc = "response" /\ f = "open"
                   \/ pc = "error" /\ f = "retryable"
             \/ /\ proc[Sub(r)].pc = "post" /\ proc[Sub(r)].fate # "taken"
                /\ pc = "error" /\ f \in {"fatal", "retryable"}
  BY LiveGoes
<1>2. /\ submitted' = submitted /\ placed' = placed /\ answers' = answers /\ queue' = queue
      /\ Step(Sub(r), pc, f)
  BY <1>1 DEF Goes, oms, venue
<1>0. Sub(r) \in Procs /\ proc[Sub(r)] \in Work /\ proc[Sub(r)].order \in Orders
  BY <1>1, SubProc, InHand
<1>3. PICK o \in Orders : o = proc[Sub(r)].order /\ Sub(r) \in Procs /\ proc[Sub(r)] \in Work
  BY <1>0
<1>4. /\ o \in submitted /\ answers[r][o] = <<>>
      /\ placed[r][o] = (IF proc[Sub(r)].pc = "post" /\ proc[Sub(r)].fate = "taken" THEN 1 ELSE 0)
  BY <1>1, <1>3 DEF LaneOK, WorkOK
<1>6. /\ proc'[Sub(r)] \in Work /\ proc'[Sub(r)].order = o
      /\ proc'[Sub(r)].pc = pc /\ proc'[Sub(r)].fate = f
  BY <1>1, <1>2, <1>3, StepLemma
<1>7. WorkOK(r)'
  BY <1>1, <1>2, <1>4, <1>6 DEF WorkOK
<1>8. OrderOK(r, o)'
  BY <1>2, <1>3 DEF LaneOK, OrderOK
<1> QED
  BY <1>2, <1>3, <1>6, <1>7, <1>8, HandlerStep DEF TypeOK

LEMMA LanePublished ==
    ASSUME TypeOK, NEW r \in Lanes, LaneOK(r),
           ResponseOut(r) \/ FillOut(r) \/ AckOut(r) \/ ErrorOut(r) \/ RejectOut(r)
    PROVE  LaneOK(r)'
<1> DEFINE p == Sub(r)
<1> USE DEF Sub
<1>1. /\ submitted' = submitted /\ placed' = placed /\ queue' = queue
      /\ proc[p].pc \in {"response", "fill", "ack", "error", "reject"}
  BY DEF ResponseOut, FillOut, AckOut, ErrorOut, AfterError, RejectOut, Published, oms, venue
<1>0. p \in Procs /\ proc[p].pc # "idle" /\ proc[p] \in Work /\ proc[p].order \in Orders
  BY <1>1, SubProc, InHand
<1>2. PICK o \in Orders : p \in Procs /\ proc[p].pc # "idle" /\ proc[p] \in Work
                          /\ o = proc[p].order
  BY <1>0
<1>3. \A pc \in Publishing, f \in Fates : Step(p, pc, f) =>
          /\ proc'[p] \in Work /\ proc'[p].order = o
          /\ proc'[p].pc = pc /\ proc'[p].fate = f
  BY <1>2, StepLemma
<1>4. Rest(p) => proc'[p] \notin Work
  BY <1>2, RestLemma DEF Idle, Work
<1>5. \A a \in Answers : Deliver(p, a) =>
          /\ answers'[r][o] = Append(answers[r][o], a)
          /\ \A x \in Orders \ {o} : answers'[r][x] = answers[r][x]
  BY <1>2, DeliverLemma DEF Kinds
<1>6. /\ "fill" \in Answers /\ "ack" \in Answers /\ "error" \in Answers /\ "reject" \in Answers
      /\ Publishing = {"request", "response", "fill", "ack", "error", "reject"}
      /\ \A f \in {"filled", "open", "fatal"} : f \in Fates
  BY DEF Answers, Publishing, Fates
<1>7. WorkOK(r) /\ OrderOK(r, o) /\ o \in submitted
  BY <1>2 DEF LaneOK, WorkOK
<1>8. ASSUME WorkOK(r)', OrderOK(r, o)', proc'[p] \in Work => proc'[p].order = o,
             \A x \in Orders \ {o} : answers'[r][x] = answers[r][x]
      PROVE  LaneOK(r)'
  BY <1>1, <1>2, <1>8, HandlerStep DEF TypeOK
<1>a. CASE ResponseOut(r)
  <2>1. answers' = answers /\ proc[p].pc = "response" /\ AfterResponse(p)
    BY <1>a DEF ResponseOut, Published
  <2>2. placed[r][o] = 1 /\ answers[r][o] = <<>> /\ (proc[p].fate = "unpriced" => r \notin Live)
    BY <1>2, <1>7, <2>1 DEF WorkOK
  <2>3. /\ proc'[p] \in Work /\ proc'[p].order = o
        /\ \/ proc'[p].pc \in {"fill", "ack"}
           \/ proc'[p].pc = "error" /\ r \notin Live
    BY <1>3, <1>6, <2>1, <2>2 DEF AfterResponse
  <2>4. WorkOK(r)'
    BY <1>1, <1>7, <2>1, <2>2, <2>3 DEF WorkOK
  <2>5. OrderOK(r, o)'
    BY <1>1, <1>7, <2>1 DEF OrderOK
  <2> QED
    BY <1>8, <2>1, <2>3, <2>4, <2>5
<1>b. CASE FillOut(r)
  <2>1. proc[p].pc = "fill" /\ Deliver(p, "fill") /\ Step(p, "ack", "filled")
    BY <1>b DEF FillOut, Published
  <2>2. placed[r][o] = 1 /\ answers[r][o] = <<>>
    BY <1>2, <1>7, <2>1 DEF WorkOK
  <2>3. answers'[r][o] = <<"fill">>
    BY <1>5, <1>6, <2>1, <2>2, Talk
  <2>t. <<"fill">> \in Taken
    BY DEF Taken
  <2>4. proc'[p] \in Work /\ proc'[p].order = o /\ proc'[p].pc = "ack"
    BY <1>3, <1>6, <2>1
  <2>5. WorkOK(r)'
    BY <1>1, <1>7, <2>2, <2>3, <2>4 DEF WorkOK
  <2>6. OrderOK(r, o)'
    BY <1>1, <1>7, <2>2, <2>3, <2>t, Sense DEF OrderOK
  <2> QED
    BY <1>5, <1>6, <1>8, <2>1, <2>4, <2>5, <2>6
<1>c. CASE AckOut(r)
  <2>1. proc[p].pc = "ack" /\ Deliver(p, "ack") /\ Rest(p)
    BY <1>c DEF AckOut, Published
  <2>2. placed[r][o] = 1 /\ answers[r][o] \in {<<>>, <<"fill">>}
    BY <1>2, <1>7, <2>1 DEF WorkOK
  <2>3. answers'[r][o] \in {<<"ack">>, <<"fill", "ack">>}
    BY <1>5, <1>6, <2>1, <2>2, Talk
  <2>t. <<"ack">> \in Taken /\ <<"fill", "ack">> \in Taken
    BY DEF Taken
  <2>4. WorkOK(r)'
    BY <1>4, <2>1 DEF WorkOK
  <2>5. OrderOK(r, o)'
    BY <1>1, <1>7, <2>2, <2>3, <2>t, Sense DEF OrderOK
  <2> QED
    BY <1>4, <1>5, <1>6, <1>8, <2>1, <2>4, <2>5
<1>d. CASE ErrorOut(r)
  <2>1. proc[p].pc = "error" /\ Deliver(p, "error") /\ AfterError(p)
    BY <1>d DEF ErrorOut, Published
  <2>2. /\ placed[r][o] \in {0, 1} /\ answers[r][o] = <<>>
        /\ proc[p].fate = "fatal" => placed[r][o] = 0 \/ r \notin Live
    BY <1>2, <1>7, <2>1 DEF WorkOK
  <2>3. answers'[r][o] = <<"error">>
    BY <1>5, <1>6, <2>1, <2>2, Talk
  <2>4. \/ proc'[p] \notin Work
        \/ /\ proc'[p] \in Work /\ proc'[p].order = o /\ proc'[p].pc = "reject"
           /\ placed[r][o] = 0 \/ r \notin Live
    BY <1>3, <1>4, <1>6, <2>1, <2>2 DEF AfterError
  <2>5. WorkOK(r)'
    BY <1>1, <1>7, <2>2, <2>3, <2>4 DEF WorkOK
  <2>6. OrderOK(r, o)'
    BY <1>1, <1>7, <2>3, Sense DEF OrderOK
  <2> QED
    BY <1>5, <1>6, <1>8, <2>1, <2>4, <2>5, <2>6
<1>e. CASE RejectOut(r)
  <2>1. proc[p].pc = "reject" /\ Deliver(p, "reject") /\ Rest(p)
    BY <1>e DEF RejectOut, Published
  <2>2. /\ placed[r][o] = 0 \/ r \notin Live
        /\ answers[r][o] \in {<<>>, <<"error">>}
    BY <1>2, <1>7, <2>1 DEF WorkOK
  <2>3. answers'[r][o] \in {<<"reject">>, <<"error", "reject">>}
    BY <1>5, <1>6, <2>1, <2>2, Talk
  <2>t. <<"reject">> \in Refused /\ <<"error", "reject">> \in Refused
    BY DEF Refused
  <2>4. WorkOK(r)'
    BY <1>4, <2>1 DEF WorkOK
  <2>5. OrderOK(r, o)'
    BY <1>1, <1>7, <2>2, <2>3, <2>t, Sense DEF OrderOK
  <2> QED
    BY <1>4, <1>5, <1>6, <1>8, <2>1, <2>4, <2>5
<1> QED
  BY <1>a, <1>b, <1>c, <1>d, <1>e

(* Steps of the cancel task, of the throttle and of the control. *)
LEMMA LaneOther ==
    ASSUME TypeOK, NEW r \in Lanes, LaneOK(r), NEW s \in Lanes,
           \/ CancelTask(s)
           \/ \E o \in Orders : Cancel(o)
           \/ \E e \in BOOLEAN, k \in BOOLEAN : Control(e, k)
           \/ \E p \in Procs : \E c \in ClientIds : Expire(p, c)
    PROVE  LaneOK(r)'
<1>0. Sub(r) \in Procs /\ <<s, "cancel">> \in Procs /\ Sub(r) # <<s, "cancel">>
  BY SubProc DEF Sub
<1>1. submitted' = submitted /\ placed' = placed /\ answers' = answers
  BY DEF CancelTask, TakeCancel, CancelStep, Take, Cancel, Control, Expire, oms, venue
<1>2. proc'[Sub(r)] = proc[Sub(r)]
  BY <1>0 DEF CancelTask, TakeCancel, CancelStep, Take, Go, Step, Rest, Cancel, Control,
              Expire, TypeOK
<1>3. queue'[Sub(r)] = queue[Sub(r)]
  BY <1>0 DEF CancelTask, TakeCancel, CancelStep, Take, Cancel, Enqueue, Control, Expire,
              TypeOK, Sub
<1> QED
  BY <1>1, <1>2, <1>3, Frame

(* A step of one lane's submit task leaves the other lanes alone. *)
LEMMA LaneApart ==
    ASSUME TypeOK, NEW r \in Lanes, LaneOK(r), NEW s \in Lanes \ {r},
           SubmitTask(s) \/ LiveCall(s)
    PROVE  LaneOK(r)'
<1> DEFINE p == <<s, "submit">>
<1>0. Sub(r) \in Procs /\ p \in Procs /\ Sub(r) # p
  BY SubProc DEF Sub
<1>1. CASE TakeSubmit(s) \/ CallVenue(s)
  <2>1. UNCHANGED <<submitted, placed, answers>>
    BY <1>1 DEF TakeSubmit, CallVenue, Take, oms, venue
  <2>2. proc'[Sub(r)] = proc[Sub(r)] /\ queue'[Sub(r)] = queue[Sub(r)]
    BY <1>0, <1>1 DEF TakeSubmit, CallVenue, Take, Throttle, Go, Step, TypeOK
  <2> QED
    BY <2>1, <2>2, Frame
<1>2. CASE PaperAnswers(s) \/ VenueTakes(s)
  <2>1. PICK pc \in Publishing \cup Calling, f \in Fates, n \in {0, 1} : Gets(s, pc, f, n)
    BY <1>2, AdapterAnswers
  <2>2. submitted' = submitted /\ answers' = answers /\ queue' = queue
    BY <2>1 DEF Gets, oms
  <2>3. proc'[Sub(r)] = proc[Sub(r)]
    BY <1>0, <2>1 DEF Gets, Step, Go, TypeOK, Sub
  <2>4. placed'[r] = placed[r]
    BY <2>1, GetsLemma
  <2> QED
    BY <2>2, <2>3, <2>4, Frame
<1>4. CASE LookUp(s) \/ CheckBalance(s) \/ LiveAnswers(s)
  <2>1. PICK pc \in Publishing \cup Calling, f \in Fates : Goes(s, pc, f)
    BY <1>4, LiveGoes
  <2>2. submitted' = submitted /\ answers' = answers /\ queue' = queue /\ placed' = placed
    BY <2>1 DEF Goes, oms, venue
  <2>3. proc'[Sub(r)] = proc[Sub(r)]
    BY <1>0, <2>1 DEF Goes, Step, Go, TypeOK, Sub
  <2> QED
    BY <2>2, <2>3, Frame
<1>3. CASE ResponseOut(s) \/ FillOut(s) \/ AckOut(s) \/ ErrorOut(s) \/ RejectOut(s)
  <2>1. submitted' = submitted /\ placed' = placed /\ queue' = queue
    BY <1>3 DEF ResponseOut, FillOut, AckOut, ErrorOut, AfterError, RejectOut, Published, oms,
                venue
  <2>2. proc'[Sub(r)] = proc[Sub(r)]
    BY <1>0, <1>3 DEF ResponseOut, AfterResponse, FillOut, AckOut, ErrorOut, AfterError,
                      RejectOut, Step, Go, Rest, TypeOK
  <2>3. answers'[r] = answers[r]
    <3>1. proc[p].pc # "idle"
      BY <1>3 DEF ResponseOut, FillOut, AckOut, ErrorOut, RejectOut, Published
    <3>2. proc[p] \in Work
      BY <1>0, <3>1, InHand
    <3>3. answers' = answers \/ \E a \in Answers : Deliver(p, a)
      BY <1>3 DEF ResponseOut, FillOut, AckOut, ErrorOut, RejectOut, Answers
    <3> QED
      BY <3>2, <3>3, DeliverLemma DEF Kinds
  <2> QED
    BY <2>1, <2>2, <2>3, Frame
<1> QED
  BY <1>1, <1>2, <1>3, <1>4 DEF SubmitTask, LiveCall

LEMMA LaneStep ==
    ASSUME TypeOK, [Next]_vars, NEW r \in Lanes, LaneOK(r)
    PROVE  LaneOK(r)'
<1>1. CASE UNCHANGED vars
  BY <1>1, Frame DEF vars
<1>2. CASE \E o \in Orders : Submit(o) \/ Cancel(o)
  BY <1>2, LaneSubmit, LaneOther
<1>3. CASE Enable \/ Disable \/ \E b \in BOOLEAN : SetKillSwitch(b)
  <2>1. \E e \in BOOLEAN, k \in BOOLEAN : Control(e, k)
    BY <1>3 DEF Enable, Disable, SetKillSwitch, TypeOK
  <2> QED
    BY <2>1, LaneOther
<1>4. CASE \E p \in Procs : \E c \in ClientIds : Expire(p, c)
  BY <1>4, LaneOther
<1>5. ASSUME NEW s \in Lanes, SubmitTask(s) \/ LiveCall(s) \/ CancelTask(s)
      PROVE  LaneOK(r)'
  <2>1. CASE s # r
    BY <1>5, <2>1, LaneApart, LaneOther
  <2>2. CASE s = r
    BY <1>5, <2>2, LaneTakeSubmit, LaneCallVenue, LaneAnswers, LaneGoes, LanePublished,
       LaneOther DEF SubmitTask, LiveCall
  <2> QED
    BY <2>1, <2>2
<1> QED
  BY <1>1, <1>2, <1>3, <1>4, <1>5 DEF Next

-----------------------------------------------------------------------------
(* The invariant holds in every reachable state. *)
THEOREM Invariance == Spec => []IInv
<1>1. Init => IInv
  BY TypeInit, LanesInit DEF IInv
<1>2. IInv /\ [Next]_vars => IInv'
  BY TypeStep, LaneStep DEF IInv
<1> QED
  BY <1>1, <1>2, PTL DEF Spec

(* The variables of Execution keep their types. *)
THEOREM TypesAreOK == Spec => []TypeOK
<1>1. IInv => TypeOK
  BY DEF IInv
<1> QED
  BY <1>1, Invariance, PTL

(* No venue is given an order twice, whatever answers are lost. *)
THEOREM OrdersPlacedOnce == Spec => []PlacedOnce
<1>1. IInv => PlacedOnce
  BY DEF IInv, LaneOK, OrderOK, PlacedOnce
<1> QED
  BY <1>1, Invariance, PTL

(* A router gives an order at most one verdict, after the fill if any. *)
THEOREM OneVerdict == Spec => []AnswerProtocol
<1>1. IInv => AnswerProtocol
  BY DEF IInv, LaneOK, OrderOK, AnswerProtocol
<1> QED
  BY <1>1, Invariance, PTL

(* Whoever says "ack" or "fill" is in a conversation of a taken order,     *)
(* whoever says "reject" in one of a refused order.                        *)
LEMMA Meaning ==
    ASSUME NEW r \in Lanes, NEW o \in Orders, answers[r][o] \in Conversations
    PROVE  /\ Says(r, o, "ack") \/ Says(r, o, "fill") => answers[r][o] \in Taken
           /\ Says(r, o, "reject") => answers[r][o] \in Refused
<1>1. CASE answers[r][o] \in {<<>>, <<"error">>}
  <2>1. Len(<<>>) = 0 /\ Len(<<"error">>) = 1 /\ <<"error">>[1] = "error"
    OBVIOUS
  <2> QED
    BY <1>1, <2>1 DEF Says
<1>2. CASE answers[r][o] \in Taken
  <2>1. \A t \in Taken : \A i \in 1..Len(t) : t[i] \in {"fill", "ack"}
    BY DEF Taken
  <2> QED
    BY <1>2, <2>1 DEF Says
<1>3. CASE answers[r][o] \in Refused
  <2>1. \A t \in Refused : \A i \in 1..Len(t) : t[i] \in {"error", "reject"}
    BY DEF Refused
  <2> QED
    BY <1>3, <2>1 DEF Says
<1> QED
  BY <1>1, <1>2, <1>3, Sense

(* A router says what its venue did: an ack or a fill of an order the      *)
(* venue took, and the live one no reject of it.                           *)
THEOREM AnswersAreTrue == Spec => []TruthfulAnswers
<1>1. IInv => TruthfulAnswers
  <2> SUFFICES ASSUME IInv, NEW r \in Lanes, NEW o \in Orders
               PROVE  /\ Says(r, o, "ack") \/ Says(r, o, "fill") => placed[r][o] > 0
                      /\ r \in Live /\ Says(r, o, "reject") => placed[r][o] = 0
    BY DEF TruthfulAnswers
  <2>1. OrderOK(r, o)
    BY DEF IInv, LaneOK
  <2> QED
    BY <2>1, Meaning DEF OrderOK
<1> QED
  BY <1>1, Invariance, PTL

-----------------------------------------------------------------------------
(* Execution is stopped. *)

(* The order in hand is past the gate and the venue has not taken it. *)
UnderWay(r) ==
    LET w == proc[Sub(r)] IN
    /\ w \in Work
    /\ \/ w.pc \in {"request", "call", "lookup", "balance"}
       \/ w.pc = "post" /\ w.fate = "new"

(* While execution is enabled nothing is late.  The one order that may     *)
(* come late is that under way when execution was stopped: once it has     *)
(* come, the handler is elsewhere, and no other order passes the gate.     *)
LateOK(r) ==
    /\ late[r] \in {0, 1}
    /\ IsEnabled => late[r] = 0
    /\ late[r] = 1 => ~UnderWay(r)

LEMMA LateInit == Init => \A r \in Lanes : LateOK(r)
<1> SUFFICES ASSUME Init, NEW r \in Lanes PROVE LateOK(r)
  OBVIOUS
<1> QED
  BY DEF Init, LateOK

(* A step after which nothing is newly under way in the lane. *)
LEMMA LateFrame ==
    ASSUME NEW r \in Lanes, LateOK(r), late'[r] = late[r], UNCHANGED control,
           UnderWay(r)' => UnderWay(r) \/ IsEnabled
    PROVE  LateOK(r)'
BY DEF LateOK, IsEnabled, control

(* Steps of the OMSs, of the throttle, of the control, of cancel tasks.    *)
LEMMA LateOther ==
    ASSUME TypeOK, NEW r \in Lanes, LateOK(r), NEW s \in Lanes,
           \/ CancelTask(s)
           \/ \E o \in Orders : Submit(o) \/ Cancel(o)
           \/ \E e \in BOOLEAN, k \in BOOLEAN : Control(e, k)
           \/ \E p \in Procs : \E c \in ClientIds : Expire(p, c)
    PROVE  LateOK(r)'
<1>0. Sub(r) \in Procs /\ <<s, "cancel">> \in Procs /\ Sub(r) # <<s, "cancel">>
  BY SubProc DEF Sub
<1>1. proc'[Sub(r)] = proc[Sub(r)]
  BY <1>0 DEF CancelTask, TakeCancel, CancelStep, Take, Go, Step, Rest, Submit, Cancel,
              Control, Expire, TypeOK
<1>2. UnderWay(r)' = UnderWay(r)
  BY <1>1 DEF UnderWay
<1>3. CASE \E e \in BOOLEAN, k \in BOOLEAN : Control(e, k)
  BY <1>2, <1>3 DEF Control, LateOK, IsEnabled
<1>4. CASE ~\E e \in BOOLEAN, k \in BOOLEAN : Control(e, k)
  <2>1. late' = late /\ UNCHANGED control
    BY <1>4 DEF CancelTask, TakeCancel, CancelStep, Take, Submit, Cancel, Expire, venue, control
  <2> QED
    BY <1>2, <2>1, LateFrame
<1> QED
  BY <1>3, <1>4

(* A handler passes the gate only while execution is enabled. *)
LEMMA LateTakeSubmit ==
    ASSUME TypeOK, NEW r \in Controlled, LateOK(r), TakeSubmit(r)
    PROVE  LateOK(r)'
<1>0. r \in Lanes /\ Sub(r) \in Procs
  BY SubProc, LanesAssumption
<1>1. Take(Sub(r)) /\ late' = late /\ UNCHANGED control
  BY DEF TakeSubmit, Take, Sub, venue
<1>2. PICK o \in Orders : o = Head(queue[Sub(r)])
  BY <1>0, <1>1, TakeLemma
<1>3. CASE Go(Sub(r), "reject", o, "gated")
  <2>1. proc'[Sub(r)].pc = "reject"
    BY <1>0, <1>3, GoLemma DEF Publishing, Fates
  <2> QED
    BY <1>0, <1>1, <2>1, LateFrame DEF UnderWay
<1>4. CASE ~Refuses(r, o)
  BY <1>0, <1>1, <1>4, LateFrame DEF Refuses
<1> QED
  BY <1>2, <1>3, <1>4 DEF TakeSubmit, Sub

(* What was under way stays so until the venue takes it or it fails. *)
LEMMA LateGoesOn ==
    ASSUME TypeOK, NEW r \in Lanes, LateOK(r),
           \/ CallVenue(r) \/ LookUp(r) \/ CheckBalance(r) \/ LiveAnswers(r)
           \/ ResponseOut(r) \/ FillOut(r) \/ AckOut(r) \/ ErrorOut(r) \/ RejectOut(r)
    PROVE  LateOK(r)'
<1> DEFINE p == Sub(r)
<1>1. p \in Procs
  BY SubProc
<1>2. \A pc \in Publishing \cup Calling, f \in Fates :
         proc[p].pc # "idle" /\ Step(p, pc, f) => proc'[p].pc = pc /\ proc'[p].fate = f
  BY <1>1, StepLemma
<1>3. CASE CallVenue(r)
  <2>1. proc[p] \in Work /\ proc[p].pc = "request" /\ late' = late /\ UNCHANGED control
    BY <1>1, <1>3, InHand DEF CallVenue, venue, Sub
  <2> QED
    BY <2>1, LateFrame DEF UnderWay
<1>4. CASE LookUp(r) \/ CheckBalance(r) \/ LiveAnswers(r)
  <2>1. PICK pc \in Publishing \cup Calling, f \in Fates :
           /\ Goes(r, pc, f)
           /\ proc[p].pc \in {"lookup", "balance", "post"}
           /\ proc[p].pc \in {"lookup", "balance"} \/ pc \in {"response", "error"}
    BY <1>4, LiveGoes
  <2>2. late' = late /\ UNCHANGED control /\ proc'[p].pc = pc /\ proc[p] \in Work
    BY <1>1, <1>2, <2>1, InHand DEF Goes, venue
  <2> QED
    BY <2>1, <2>2, LateFrame DEF UnderWay
<1>5. CASE ResponseOut(r) \/ FillOut(r) \/ AckOut(r) \/ ErrorOut(r) \/ RejectOut(r)
  <2>1. late' = late /\ UNCHANGED control /\ proc[p].pc # "idle"
    BY <1>5 DEF ResponseOut, FillOut, AckOut, ErrorOut, RejectOut, Published, venue, Sub
  <2>2. \/ Rest(p)
        \/ \E pc \in {"fill", "error", "ack", "reject"}, f \in Fates : Step(p, pc, f)
    BY <1>5 DEF ResponseOut, AfterResponse, FillOut, AckOut, ErrorOut, AfterError, RejectOut,
                Fates, Sub
  <2>3. proc'[p].pc \in {"idle", "fill", "error", "ack", "reject"}
    BY <1>1, <1>2, <2>1, <2>2, RestLemma DEF Publishing, Idle
  <2> QED
    BY <2>1, <2>3, LateFrame DEF UnderWay
<1> QED
  BY <1>3, <1>4, <1>5

(* The venue takes what was under way, or the paper adapter fails. *)
LEMMA LateTaken ==
    ASSUME TypeOK, NEW r \in Lanes, LateOK(r), PaperAnswers(r) \/ VenueTakes(r)
    PROVE  LateOK(r)'
<1>1. PICK pc \in Publishing \cup Calling, f \in Fates, n \in {0, 1} :
          /\ Gets(r, pc, f, n)
          /\ \/ /\ proc[Sub(r)].pc = "call" /\ pc \in {"response", "error"}
             \/ /\ proc[Sub(r)].pc = "post" /\ proc[Sub(r)].fate = "new"
                /\ pc = "post" /\ f = "taken"
  BY AdapterAnswers
<1>2. Sub(r) \in Procs /\ proc[Sub(r)] \in Work /\ proc[Sub(r)].order \in Orders
  BY <1>1, SubProc, InHand
<1>3. UnderWay(r)
  BY <1>1, <1>2 DEF UnderWay
<1>4. proc'[Sub(r)].pc = pc /\ proc'[Sub(r)].fate = f
  BY <1>1, <1>2, StepLemma DEF Gets
<1>5. ~UnderWay(r)'
  BY <1>1, <1>4 DEF UnderWay
<1>6. UNCHANGED control /\ late'[r] = IF enabled /\ ~kill THEN late[r] ELSE late[r] + n
  BY <1>1, <1>2, VenueLemma DEF Gets
<1>7. late[r] = 0
  BY <1>3 DEF LateOK
<1> QED
  BY <1>5, <1>6, <1>7 DEF LateOK, IsEnabled, control

(* The submit task of another lane. *)
LEMMA LateApart ==
    ASSUME TypeOK, NEW r \in Lanes, LateOK(r), NEW s \in Lanes \ {r},
           SubmitTask(s) \/ LiveCall(s)
    PROVE  LateOK(r)'
<1>0. Sub(r) \in Procs /\ Sub(s) \in Procs /\ Sub(r) # Sub(s)
  BY SubProc DEF Sub
<1>1. CASE PaperAnswers(s) \/ VenueTakes(s)
  <2>1. PICK pc \in Publishing \cup Calling, f \in Fates, n \in {0, 1} : Gets(s, pc, f, n)
    BY <1>1, AdapterAnswers
  <2>2. proc[Sub(s)].order \in Orders
    BY <1>0, <2>1, InHand DEF Gets, Calling
  <2>3. late'[r] = late[r] /\ UNCHANGED control
    BY <2>1, <2>2, VenueLemma DEF Gets
  <2>4. proc'[Sub(r)] = proc[Sub(r)]
    BY <1>0, <2>1 DEF Gets, Step, Go, TypeOK
  <2> QED
    BY <2>3, <2>4, LateFrame DEF UnderWay
<1>2. CASE LookUp(s) \/ CheckBalance(s) \/ LiveAnswers(s)
  <2>1. PICK pc \in Publishing \cup Calling, f \in Fates : Goes(s, pc, f)
    BY <1>2, LiveGoes
  <2>2. proc'[Sub(r)] = proc[Sub(r)] /\ late' = late /\ UNCHANGED control
    BY <1>0, <2>1 DEF Goes, venue, Step, Go, TypeOK
  <2> QED
    BY <2>2, LateFrame DEF UnderWay
<1>3. CASE \/ TakeSubmit(s) \/ CallVenue(s)
           \/ ResponseOut(s) \/ FillOut(s) \/ AckOut(s) \/ ErrorOut(s) \/ RejectOut(s)
  <2>1. late' = late /\ UNCHANGED control
    BY <1>3 DEF TakeSubmit, Take, CallVenue, ResponseOut, FillOut, AckOut, ErrorOut, RejectOut,
                Published, venue
  <2>2. proc'[Sub(r)] = proc[Sub(r)]
    BY <1>0, <1>3 DEF TakeSubmit, CallVenue, Throttle, ResponseOut, AfterResponse, FillOut,
                      AckOut, ErrorOut, AfterError, RejectOut, Step, Go, Rest, TypeOK, Sub
  <2> QED
    BY <2>1, <2>2, LateFrame DEF UnderWay
<1> QED
  BY <1>1, <1>2, <1>3 DEF SubmitTask, LiveCall

LEMMA LateStep ==
    ASSUME TypeOK, [Next]_vars, NEW r \in Controlled, LateOK(r)
    PROVE  LateOK(r)'
<1>0. r \in Lanes
  BY LanesAssumption
<1>1. CASE UNCHANGED vars
  BY <1>0, <1>1, LateFrame DEF vars, control, UnderWay
<1>2. CASE \E o \in Orders : Submit(o) \/ Cancel(o)
  BY <1>0, <1>2, LateOther
<1>3. CASE Enable \/ Disable \/ \E b \in BOOLEAN : SetKillSwitch(b)
  <2>1. \E e \in BOOLEAN, k \in BOOLEAN : Control(e, k)
    BY <1>3 DEF Enable, Disable, SetKillSwitch, TypeOK
  <2> QED
    BY <1>0, <2>1, LateOther
<1>4. CASE \E p \in Procs : \E c \in ClientIds : Expire(p, c)
  BY <1>0, <1>4, LateOther
<1>5. ASSUME NEW s \in Lanes, SubmitTask(s) \/ LiveCall(s) \/ CancelTask(s)
      PROVE  LateOK(r)'
  <2>1. CASE s # r
    BY <1>0, <1>5, <2>1, LateApart, LateOther
  <2>2. CASE s = r
    BY <1>0, <1>5, <2>2, LateTakeSubmit, LateGoesOn, LateTaken, LateOther
       DEF SubmitTask, LiveCall
  <2> QED
    BY <2>1, <2>2
<1> QED
  BY <1>1, <1>2, <1>3, <1>4, <1>5 DEF Next

(* Once execution is disabled or killed, a venue takes at most one more    *)
(* order from a router, whether or not appends suspend and wherever the    *)
(* adapter is.                                                             *)
THEOREM OneOrderComesLate == Spec => []DisabledLetsOneThrough
<1> DEFINE L == \A r \in Controlled : LateOK(r)
<1>1. Init => L
  BY LateInit, LanesAssumption
<1>2. TypeOK /\ L /\ [Next]_vars => L'
  BY LateStep
<1>3. L => DisabledLetsOneThrough
  BY DEF LateOK, DisabledLetsOneThrough
<1> QED
  BY <1>1, <1>2, <1>3, TypesAreOK, PTL DEF Spec
=============================================================================
