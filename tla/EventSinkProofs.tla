--------------------------- MODULE EventSinkProofs --------------------------
(***************************************************************************)
(* Theorems about EventSink, for any topics, batch and buffer sizes and    *)
(* any number of failures: its memory is bounded, and no event of a topic  *)
(* is stored past an earlier one that is still to come.                    *)
(***************************************************************************)
EXTENDS EventSink, SequenceTheorems, TLAPS

-----------------------------------------------------------------------------
(* Memory *)

(* Where the flush stands in its batch. *)
FlushOK ==
    /\ Len(batch) <= BatchSize
    /\ batch = <<>> => written = 0
    /\ batch # <<>> => written < Len(batch)
    /\ phase \in {"new", "stopped"} => flush = "idle"

(* The inductive invariant of the memory. *)
MInv == TypeOK /\ FlushOK /\ MemoryIsBounded

(* A batch is taken off a buffer: nothing is added to the memory. *)
LEMMA TakeBatchLemma ==
    ASSUME TypeOK, TakeBatch
    PROVE  /\ batch' \in Seq(Event) /\ batch' # <<>> /\ Len(batch') <= BatchSize
           /\ buffer' \in Seq(Event)
           /\ Len(batch') + Len(buffer') = Len(buffer)
           /\ \A i \in 1..Len(batch') : batch'[i] = buffer[i]
           /\ \A i \in 1..Len(buffer') : buffer'[i] = buffer[i + Len(batch')]
           /\ written' = 0 /\ attempt' = 1 /\ flush' = "writing"
           /\ breaker' \in [state : {"closed", "open", "half_open"}, failures : 0..Threshold,
                            cooled : BOOLEAN]
<1> DEFINE n == IF Len(buffer) < BatchSize THEN Len(buffer) ELSE BatchSize
<1>1. /\ buffer # <<>> /\ buffer \in Seq(Event)
      /\ batch' = SubSeq(buffer, 1, n) /\ buffer' = SubSeq(buffer, n + 1, Len(buffer))
      /\ written' = 0 /\ attempt' = 1 /\ flush' = "writing"
      /\ breaker' = AfterRequest(breaker)
  BY DEF TakeBatch, TypeOK
<1>2. Len(buffer) \in Nat \ {0}
  BY <1>1, EmptySeq
<1>3. n \in 1..Len(buffer) /\ n <= BatchSize
  BY <1>2, SinkAssumption
<1>4. \A i \in 1..Len(buffer) : buffer[i] \in Event
  BY <1>1, ElementOfSeq
<1>5. /\ batch' \in Seq(Event) /\ Len(batch') = n
      /\ \A i \in 1..n : batch'[i] = buffer[i]
  <2>1. \A i \in 1..n : buffer[i] \in Event
    BY <1>3, <1>4
  <2>2. /\ SubSeq(buffer, 1, n) \in Seq(Event)
        /\ Len(SubSeq(buffer, 1, n)) = IF 1 <= n THEN n - 1 + 1 ELSE 0
        /\ \A i \in 1..n - 1 + 1 : SubSeq(buffer, 1, n)[i] = buffer[1 + i - 1]
    BY <2>1, <1>3, SubSeqProperties
  <2> HIDE DEF n
  <2> QED
    BY <2>2, <1>1, <1>3
<1>6. /\ buffer' \in Seq(Event) /\ Len(buffer') = Len(buffer) - n
      /\ \A i \in 1..Len(buffer) - n : buffer'[i] = buffer[i + n]
  <2>1. \A i \in (n + 1)..Len(buffer) : buffer[i] \in Event
    BY <1>3, <1>4
  <2>2. /\ SubSeq(buffer, n + 1, Len(buffer)) \in Seq(Event)
        /\ Len(SubSeq(buffer, n + 1, Len(buffer))) =
               IF n + 1 <= Len(buffer) THEN Len(buffer) - (n + 1) + 1 ELSE 0
        /\ \A i \in 1..Len(buffer) - (n + 1) + 1 :
               SubSeq(buffer, n + 1, Len(buffer))[i] = buffer[(n + 1) + i - 1]
    BY <2>1, <1>2, <1>3, SubSeqProperties
  <2> HIDE DEF n
  <2> QED
    BY <2>2, <1>1, <1>2, <1>3
<1>7. batch' # <<>>
  BY <1>5, <1>3, EmptySeq
<1>8. breaker' \in [state : {"closed", "open", "half_open"}, failures : 0..Threshold,
                    cooled : BOOLEAN]
  BY <1>1 DEF TypeOK, AfterRequest
<1>9. Len(batch') + Len(buffer') = Len(buffer)
  <2>1. n \in Nat /\ Len(buffer) \in Nat
    BY <1>2, <1>3
  <2> HIDE DEF n
  <2> QED
    BY <2>1, <1>5, <1>6
<1>10. \A i \in 1..Len(buffer') : buffer'[i] = buffer[i + Len(batch')]
  <2> HIDE DEF n
  <2> QED
    BY <1>5, <1>6
<1>11. \A i \in 1..Len(batch') : batch'[i] = buffer[i]
  <2> HIDE DEF n
  <2> QED
    BY <1>5
<1>12. Len(batch') <= BatchSize
  BY <1>5, <1>3
<1> HIDE DEF n
<1> QED
  BY <1>1, <1>5, <1>6, <1>7, <1>8, <1>9, <1>10, <1>11, <1>12

(* What the breaker becomes. *)
LEMMA BreakerLemma ==
    ASSUME TypeOK
    PROVE  /\ RecordSuccess(breaker) \in [state : {"closed", "open", "half_open"},
                                          failures : 0..Threshold, cooled : BOOLEAN]
           /\ RecordFailure(breaker) \in [state : {"closed", "open", "half_open"},
                                          failures : 0..Threshold, cooled : BOOLEAN]
BY SinkAssumption DEF TypeOK, RecordSuccess, RecordFailure, OneMore, Closed

(* The batch of a running flush: its next event is one of Event. *)
LEMMA NextOfBatch ==
    ASSUME TypeOK, FlushOK, flush # "idle"
    PROVE  /\ batch # <<>> /\ Len(batch) \in Nat \ {0}
           /\ written + 1 \in 1..Len(batch) /\ batch[written + 1] \in Event
<1>1. batch # <<>> /\ batch \in Seq(Event) /\ written \in Nat /\ written < Len(batch)
  BY DEF TypeOK, FlushOK
<1>2. Len(batch) \in Nat \ {0}
  BY <1>1, EmptySeq
<1>3. written + 1 \in 1..Len(batch)
  BY <1>1, <1>2
<1>4. batch[written + 1] \in Event
  BY <1>1, <1>3, ElementOfSeq
<1> QED
  BY <1>1, <1>2, <1>3, <1>4

THEOREM MemoryInit == SinkInit => MInv
<1> SUFFICES ASSUME SinkInit PROVE MInv
  OBVIOUS
<1>1. <<>> \in Seq(Event) /\ Len(<<>>) = 0
  BY EmptySeq
<1>2. TypeOK
  BY <1>1, SinkAssumption DEF SinkInit, TypeOK, Closed
<1>3. FlushOK /\ MemoryIsBounded
  BY <1>1, SinkAssumption DEF SinkInit, FlushOK, MemoryIsBounded
<1> QED
  BY <1>2, <1>3 DEF MInv

LEMMA PublishMemory ==
    ASSUME MInv, NEW t \in Topics, Publish(t)
    PROVE  MInv'
<1>1. published \in [Topics -> 0..MaxEvents] /\ published[t] \in 0..MaxEvents /\ MaxEvents \in Nat
  BY SinkAssumption DEF MInv, TypeOK
<1>2. published' = [published EXCEPT ![t] = @ + 1] /\ published[t] < MaxEvents
  BY DEF Publish
<1>3. published'[t] \in 1..MaxEvents /\ published' \in [Topics -> 0..MaxEvents]
  BY <1>1, <1>2
<1>4. [topic |-> t, n |-> published'[t]] \in Event
  BY <1>3 DEF Event
<1>5. queue' \in [Topics -> Seq(Event)] /\ (phase = "new" => queue' = queue)
  <2>1. queue[t] \in Seq(Event) /\ queue \in [Topics -> Seq(Event)]
    BY DEF MInv, TypeOK
  <2>2. Append(queue[t], [topic |-> t, n |-> published'[t]]) \in Seq(Event)
    BY <2>1, <1>4, AppendProperties
  <2> QED
    BY <2>1, <2>2 DEF Publish
<1>6. UNCHANGED <<phase, buffer, batch, written, attempt, flush, breaker, stored, dropped, failures>>
  BY DEF Publish, flushVars
<1>7. TypeOK'
  BY <1>3, <1>5, <1>6 DEF MInv, TypeOK
<1>8. FlushOK' /\ MemoryIsBounded'
  BY <1>5, <1>6 DEF MInv, FlushOK, MemoryIsBounded
<1> QED
  BY <1>7, <1>8 DEF MInv

LEMMA RunMemory ==
    ASSUME MInv, Run
    PROVE  MInv'
<1>1. /\ phase' = "running"
      /\ UNCHANGED <<published, queue, buffer, batch, written, attempt, flush, breaker, stored,
                     dropped, failures>>
  BY DEF Run, flushVars
<1>2. TypeOK' /\ FlushOK' /\ MemoryIsBounded'
  BY <1>1 DEF MInv, TypeOK, FlushOK, MemoryIsBounded
<1> QED
  BY <1>2 DEF MInv

(* What a consumer does to its queue and to the buffer. *)
LEMMA ConsumeEffect ==
    ASSUME TypeOK, NEW t \in Topics, Consume(t)
    PROVE  /\ Head(queue[t]) \in Event /\ Tail(queue[t]) \in Seq(Event)
           /\ queue' = [queue EXCEPT ![t] = Tail(@)]
           /\ \/ /\ IsFull(buffer) /\ buffer # <<>> /\ Len(buffer') = Len(buffer)
                 /\ Tail(buffer) \in Seq(Event) /\ buffer' \in Seq(Event)
                 /\ buffer' = Append(Tail(buffer), Head(queue[t]))
                 /\ dropped' = dropped \cup {Head(buffer)} /\ Head(buffer) \in Event
              \/ /\ ~IsFull(buffer) /\ Len(buffer') = Len(buffer) + 1
                 /\ buffer' \in Seq(Event)
                 /\ buffer' = Append(buffer, Head(queue[t])) /\ dropped' = dropped
<1>1. /\ queue[t] \in Seq(Event) /\ queue[t] # <<>> /\ buffer \in Seq(Event)
      /\ queue' = [queue EXCEPT ![t] = Tail(@)]
  BY DEF TypeOK, Consume
<1>2. Head(queue[t]) \in Event /\ Tail(queue[t]) \in Seq(Event)
  BY <1>1, HeadTailProperties
<1>3. CASE IsFull(buffer)
  <2>1. /\ buffer' = Append(Tail(buffer), Head(queue[t]))
        /\ dropped' = dropped \cup {Head(buffer)}
    BY <1>3 DEF Consume
  <2>2. buffer # <<>> /\ Len(buffer) \in Nat
    BY <1>1, <1>3, EmptySeq, LenProperties, SinkAssumption DEF IsFull
  <2>3. /\ Head(buffer) \in Event /\ Tail(buffer) \in Seq(Event)
        /\ Len(Tail(buffer)) = Len(buffer) - 1
    BY <1>1, <2>2, HeadTailProperties
  <2>4. buffer' \in Seq(Event) /\ Len(buffer') = Len(Tail(buffer)) + 1
    BY <2>1, <2>3, <1>2, AppendProperties
  <2>5. Len(buffer') = Len(buffer)
    BY <2>2, <2>3, <2>4
  <2> QED
    BY <1>1, <1>2, <1>3, <2>1, <2>2, <2>3, <2>4, <2>5
<1>4. CASE ~IsFull(buffer)
  <2>1. buffer' = Append(buffer, Head(queue[t])) /\ dropped' = dropped
    BY <1>4 DEF Consume
  <2>2. buffer' \in Seq(Event) /\ Len(buffer') = Len(buffer) + 1
    BY <2>1, <1>1, <1>2, AppendProperties
  <2> QED
    BY <1>1, <1>2, <1>4, <2>1, <2>2
<1> QED
  BY <1>3, <1>4

LEMMA ConsumeMemory ==
    ASSUME MInv, NEW t \in Topics, Consume(t)
    PROVE  MInv'
<1>1. TypeOK
  BY DEF MInv
<1>2. /\ Tail(queue[t]) \in Seq(Event) /\ queue' = [queue EXCEPT ![t] = Tail(@)]
      /\ buffer' \in Seq(Event)
      /\ \/ IsFull(buffer) /\ Len(buffer') = Len(buffer)
         \/ ~IsFull(buffer) /\ Len(buffer') = Len(buffer) + 1
      /\ dropped' \subseteq Event
  BY <1>1, ConsumeEffect DEF TypeOK
<1>3. /\ phase = "running"
      /\ UNCHANGED <<published, phase, batch, written, attempt, flush, breaker, stored, failures>>
  BY DEF Consume, flushVars
<1>4. queue' \in [Topics -> Seq(Event)]
  BY <1>1, <1>2 DEF TypeOK
<1>5. TypeOK'
  BY <1>1, <1>2, <1>3, <1>4 DEF TypeOK
<1>6. FlushOK'
  BY <1>3 DEF MInv, FlushOK
<1>7. MemoryIsBounded'
  <2>1. Len(buffer) \in Nat /\ Len(batch) \in Nat /\ Len(batch) <= BatchSize
    BY <1>1, LenProperties DEF MInv, TypeOK, FlushOK
  <2>2. Len(buffer) + Len(batch) <= MaxBuffer + BatchSize
    BY DEF MInv, MemoryIsBounded
  <2>3. Len(buffer') + Len(batch') <= MaxBuffer + BatchSize
    BY <1>2, <1>3, <2>1, <2>2, SinkAssumption DEF IsFull
  <2> QED
    BY <2>3 DEF MemoryIsBounded
<1> QED
  BY <1>5, <1>6, <1>7 DEF MInv

LEMMA BeginFlushMemory ==
    ASSUME MInv, BeginFlush
    PROVE  MInv'
<1>1. TypeOK /\ TakeBatch /\ phase = "running" /\ flush = "idle" /\ batch = <<>>
  BY DEF MInv, TypeOK, BeginFlush
<1>2. UNCHANGED <<published, phase, queue, stored, dropped, failures>>
  BY DEF BeginFlush
<1>3. /\ batch' \in Seq(Event) /\ batch' # <<>> /\ Len(batch') <= BatchSize
      /\ buffer' \in Seq(Event)
      /\ Len(batch') + Len(buffer') = Len(buffer)
      /\ written' = 0 /\ attempt' = 1 /\ flush' = "writing"
      /\ breaker' \in [state : {"closed", "open", "half_open"}, failures : 0..Threshold,
                       cooled : BOOLEAN]
  BY <1>1, TakeBatchLemma
<1>4. Len(batch') \in Nat \ {0} /\ Len(buffer') \in Nat /\ Len(batch) = 0
  BY <1>1, <1>3, EmptySeq, LenProperties
<1>5. TypeOK'
  BY <1>1, <1>2, <1>3, SinkAssumption DEF TypeOK
<1>6. FlushOK'
  BY <1>1, <1>2, <1>3, <1>4 DEF FlushOK
<1>7. Len(buffer) + Len(batch) <= MaxBuffer + BatchSize
  BY DEF MInv, MemoryIsBounded
<1>8. Len(buffer) \in Nat
  BY <1>1, LenProperties DEF TypeOK
<1>9. MemoryIsBounded'
  BY <1>3, <1>4, <1>7, <1>8, SinkAssumption DEF MemoryIsBounded
<1> QED
  BY <1>5, <1>6, <1>9 DEF MInv

(* The end of a batch keeps the types and the bound, whatever became of    *)
(* the buffer meanwhile.                                                   *)
LEMMA EndFlushMemory ==
    ASSUME MInv, phase \in {"running", "stopping"}, EndFlush,
           buffer' \in Seq(Event), Len(buffer') <= MaxBuffer + BatchSize,
           breaker' \in [state : {"closed", "open", "half_open"}, failures : 0..Threshold,
                         cooled : BOOLEAN],
           stored' \subseteq Event, failures' \in 0..MaxFailures,
           UNCHANGED <<published, queue, dropped>>
    PROVE  MInv'
<1>1. batch' = <<>> /\ written' = 0 /\ attempt' = 1 /\ flush' = "idle"
  BY DEF EndFlush
<1>2. phase' \in {"running", "stopped"}
  BY DEF EndFlush
<1>3. batch' \in Seq(Event) /\ Len(batch') = 0
  BY <1>1, EmptySeq
<1>4. TypeOK'
  BY <1>1, <1>2, <1>3, SinkAssumption DEF MInv, TypeOK
<1>5. FlushOK'
  BY <1>1, <1>2, <1>3, SinkAssumption DEF FlushOK
<1>6. Len(buffer') \in Nat
  BY LenProperties
<1>7. MemoryIsBounded'
  BY <1>3, <1>6, SinkAssumption DEF MemoryIsBounded
<1> QED
  BY <1>4, <1>5, <1>7 DEF MInv

LEMMA AppendEventMemory ==
    ASSUME MInv, AppendEvent
    PROVE  MInv'
<1>1. TypeOK /\ FlushOK /\ flush = "writing" /\ phase \in {"running", "stopping"}
  BY DEF MInv, TypeOK, FlushOK, AppendEvent
<1>2. /\ Len(batch) \in Nat \ {0} /\ written + 1 \in 1..Len(batch)
      /\ batch # <<>> /\ batch[written + 1] \in Event
  BY <1>1, NextOfBatch
<1>3. /\ stored' = stored \cup {batch[written + 1]}
      /\ UNCHANGED <<published, queue, buffer, dropped, failures>>
  BY DEF AppendEvent
<1>4. stored' \subseteq Event
  BY <1>1, <1>2, <1>3 DEF TypeOK
<1>5. CASE written + 1 < Len(batch)
  <2>1. written' = written + 1 /\ UNCHANGED <<phase, batch, attempt, flush, breaker>>
    BY <1>5 DEF AppendEvent
  <2>2. written \in Nat /\ Len(batch) <= BatchSize
    BY <1>1 DEF TypeOK, FlushOK
  <2>3. TypeOK'
    BY <1>1, <1>2, <1>3, <1>4, <1>5, <2>1, <2>2, SinkAssumption DEF TypeOK
  <2>4. FlushOK' /\ MemoryIsBounded'
    BY <1>1, <1>2, <1>3, <1>5, <2>1 DEF MInv, FlushOK, MemoryIsBounded
  <2> QED
    BY <2>3, <2>4 DEF MInv
<1>6. CASE ~(written + 1 < Len(batch))
  <2>1. EndFlush /\ breaker' = RecordSuccess(breaker)
    BY <1>6 DEF AppendEvent
  <2>2. breaker' \in [state : {"closed", "open", "half_open"}, failures : 0..Threshold,
                      cooled : BOOLEAN]
    BY <1>1, <2>1, BreakerLemma
  <2>3. buffer' \in Seq(Event) /\ Len(buffer') <= MaxBuffer + BatchSize
    <3>1. Len(buffer) \in Nat /\ Len(buffer) + Len(batch) <= MaxBuffer + BatchSize
      BY <1>1, LenProperties DEF MInv, TypeOK, MemoryIsBounded
    <3> QED
      BY <1>1, <1>2, <1>3, <3>1, SinkAssumption DEF TypeOK
  <2>4. failures' \in 0..MaxFailures
    BY <1>1, <1>3 DEF TypeOK
  <2> QED
    BY <1>1, <1>3, <1>4, <2>1, <2>2, <2>3, <2>4, EndFlushMemory
<1> QED
  BY <1>5, <1>6

LEMMA AppendFailsMemory ==
    ASSUME MInv, AppendFails
    PROVE  MInv'
<1>1. TypeOK /\ FlushOK /\ flush = "writing" /\ phase \in {"running", "stopping"}
  BY DEF MInv, TypeOK, FlushOK, AppendFails
<1>2. /\ Len(batch) \in Nat \ {0} /\ batch # <<>> /\ batch[written + 1] \in Event
  BY <1>1, NextOfBatch
<1>3. /\ stored' \in {stored, stored \cup {batch[written + 1]}}
      /\ failures' = failures + 1 /\ failures < MaxFailures
      /\ UNCHANGED <<published, queue, dropped>>
  BY DEF AppendFails
<1>4. stored' \subseteq Event /\ failures' \in 0..MaxFailures
  BY <1>1, <1>2, <1>3, SinkAssumption DEF TypeOK
<1>5. CASE attempt < MaxRetries
  <2>1. /\ flush' = "waiting" /\ attempt' = attempt + 1 /\ written' = 0
        /\ UNCHANGED <<phase, batch, buffer, breaker>>
    BY <1>5 DEF AppendFails
  <2>2. TypeOK'
    BY <1>1, <1>2, <1>3, <1>4, <1>5, <2>1, SinkAssumption DEF TypeOK
  <2>3. FlushOK' /\ MemoryIsBounded'
    BY <1>1, <1>2, <1>3, <2>1 DEF MInv, FlushOK, MemoryIsBounded
  <2> QED
    BY <2>2, <2>3 DEF MInv
<1>6. CASE ~(attempt < MaxRetries)
  <2>1. EndFlush /\ buffer' = batch \o buffer /\ breaker' = RecordFailure(breaker)
    BY <1>6 DEF AppendFails, PutBack
  <2>2. breaker' \in [state : {"closed", "open", "half_open"}, failures : 0..Threshold,
                      cooled : BOOLEAN]
    BY <1>1, <2>1, BreakerLemma
  <2>3. buffer' \in Seq(Event) /\ Len(buffer') = Len(batch) + Len(buffer)
    BY <1>1, <2>1, ConcatProperties DEF TypeOK
  <2>4. Len(buffer') <= MaxBuffer + BatchSize
    <3>1. Len(buffer) \in Nat /\ Len(buffer) + Len(batch) <= MaxBuffer + BatchSize
      BY <1>1, LenProperties DEF MInv, TypeOK, MemoryIsBounded
    <3> QED
      BY <1>2, <2>3, <3>1
  <2> QED
    BY <1>1, <1>3, <1>4, <2>1, <2>2, <2>3, <2>4, EndFlushMemory
<1> QED
  BY <1>5, <1>6

LEMMA RetryMemory ==
    ASSUME MInv, Retry
    PROVE  MInv'
<1>1. /\ flush = "waiting" /\ flush' = "writing"
      /\ UNCHANGED <<published, phase, queue, buffer, batch, written, attempt, breaker, stored,
                     dropped, failures>>
  BY DEF Retry
<1>2. TypeOK' /\ FlushOK' /\ MemoryIsBounded'
  BY <1>1 DEF MInv, TypeOK, FlushOK, MemoryIsBounded
<1> QED
  BY <1>2 DEF MInv

LEMMA CoolDownMemory ==
    ASSUME MInv, CoolDown
    PROVE  MInv'
<1>1. /\ breaker' = [breaker EXCEPT !.cooled = TRUE]
      /\ UNCHANGED <<published, phase, queue, buffer, batch, written, attempt, flush, stored,
                     dropped, failures>>
  BY DEF CoolDown, flushVars
<1>2. breaker' \in [state : {"closed", "open", "half_open"}, failures : 0..Threshold,
                    cooled : BOOLEAN]
  BY <1>1 DEF MInv, TypeOK
<1>3. TypeOK' /\ FlushOK' /\ MemoryIsBounded'
  BY <1>1, <1>2 DEF MInv, TypeOK, FlushOK, MemoryIsBounded
<1> QED
  BY <1>3 DEF MInv

LEMMA StopMemory ==
    ASSUME MInv, Stop
    PROVE  MInv'
<1>1. TypeOK /\ FlushOK /\ phase = "running"
  BY DEF MInv, Stop
<1>2. UNCHANGED <<published, queue, dropped, failures>>
  BY DEF Stop
<1>3. stored' \subseteq Event
  <2>1. CASE flush = "writing"
    BY <1>1, <2>1, NextOfBatch DEF TypeOK, Stop
  <2>2. CASE flush # "writing"
    BY <1>1, <2>2 DEF TypeOK, Stop
  <2> QED
    BY <2>1, <2>2
<1>4. Len(buffer) \in Nat /\ Len(batch) \in Nat /\ Len(buffer) + Len(batch) <= MaxBuffer + BatchSize
  BY <1>1, LenProperties DEF MInv, TypeOK, MemoryIsBounded
<1>5. CASE buffer # <<>> /\ Allows(breaker)
  <2>1. TakeBatch /\ phase' = "stopping"
    BY <1>5 DEF Stop
  <2>2. /\ batch' \in Seq(Event) /\ batch' # <<>> /\ Len(batch') <= BatchSize
        /\ buffer' \in Seq(Event)
        /\ Len(batch') + Len(buffer') = Len(buffer)
        /\ written' = 0 /\ attempt' = 1 /\ flush' = "writing"
        /\ breaker' \in [state : {"closed", "open", "half_open"}, failures : 0..Threshold,
                         cooled : BOOLEAN]
    BY <1>1, <2>1, TakeBatchLemma
  <2>3. Len(batch') \in Nat \ {0} /\ Len(buffer') \in Nat
    BY <2>2, EmptySeq, LenProperties
  <2>4. TypeOK'
    BY <1>1, <1>2, <1>3, <2>1, <2>2, SinkAssumption DEF TypeOK
  <2>5. FlushOK'
    BY <2>1, <2>2, <2>3 DEF FlushOK
  <2>6. MemoryIsBounded'
    BY <1>4, <2>2, <2>3, SinkAssumption DEF MemoryIsBounded
  <2> QED
    BY <2>4, <2>5, <2>6 DEF MInv
<1>6. CASE ~(buffer # <<>> /\ Allows(breaker))
  <2>1. /\ batch' = <<>> /\ written' = 0 /\ attempt' = 1 /\ flush' = "idle"
        /\ phase' = "stopped" /\ UNCHANGED <<buffer, breaker>>
    BY <1>6 DEF Stop
  <2>2. batch' \in Seq(Event) /\ Len(batch') = 0
    BY <2>1, EmptySeq
  <2>3. TypeOK'
    BY <1>1, <1>2, <1>3, <2>1, <2>2, SinkAssumption DEF TypeOK
  <2>4. FlushOK'
    BY <2>1, <2>2, SinkAssumption DEF FlushOK
  <2>5. MemoryIsBounded'
    BY <1>4, <2>1, <2>2, SinkAssumption DEF MemoryIsBounded
  <2> QED
    BY <2>3, <2>4, <2>5 DEF MInv
<1> QED
  BY <1>5, <1>6

THEOREM MemoryIsInductive ==
    MInv /\ [SinkStep]_sinkVars => MInv'
<1> SUFFICES ASSUME MInv, [SinkStep]_sinkVars PROVE MInv'
  OBVIOUS
<1>1. CASE Run
  BY <1>1, RunMemory
<1>2. ASSUME NEW t \in Topics, Publish(t) PROVE MInv'
  BY <1>2, PublishMemory
<1>3. ASSUME NEW t \in Topics, Consume(t) PROVE MInv'
  BY <1>3, ConsumeMemory
<1>4. CASE BeginFlush
  BY <1>4, BeginFlushMemory
<1>5. CASE AppendEvent
  BY <1>5, AppendEventMemory
<1>6. CASE AppendFails
  BY <1>6, AppendFailsMemory
<1>7. CASE Retry
  BY <1>7, RetryMemory
<1>8. CASE CoolDown
  BY <1>8, CoolDownMemory
<1>9. CASE Stop
  BY <1>9, StopMemory
<1>10. CASE UNCHANGED sinkVars
  BY <1>10 DEF sinkVars, flushVars, MInv, TypeOK, FlushOK, MemoryIsBounded
<1> QED
  BY <1>1, <1>2, <1>3, <1>4, <1>5, <1>6, <1>7, <1>8, <1>9, <1>10 DEF SinkStep, Flush

(* The variables keep their types. *)
THEOREM SinkTypes == SinkSpec => []TypeOK
<1>1. MInv => TypeOK
  BY DEF MInv
<1> QED
  BY <1>1, MemoryInit, MemoryIsInductive, PTL DEF SinkSpec

(* Buffer and batch together never exceed max_buffer_size and one batch,   *)
(* for any sizes and however long the database does not answer.            *)
THEOREM MemoryStaysBounded == SinkSpec => []MemoryIsBounded
<1>1. MInv => MemoryIsBounded
  BY DEF MInv
<1> QED
  BY <1>1, MemoryInit, MemoryIsInductive, PTL DEF SinkSpec

-----------------------------------------------------------------------------
(* Order *)

(* Events of one topic are told apart by their numbers. *)
Before(d, e)   == d.topic = e.topic => d.n < e.n
Ordered(s)     == \A i, j \in 1..Len(s) : i < j => Before(s[i], s[j])
Ahead(s, r)    == \A i \in 1..Len(s), j \in 1..Len(r) : Before(s[i], r[j])
Numbered(s, p) == \A i \in 1..Len(s) : s[i].n <= p[s[i].topic]

(* A piece of a sequence inherits what is said of the whole. *)
LEMMA PieceLemma ==
    ASSUME NEW s \in Seq(Event), NEW r \in Seq(Event), NEW k \in Nat,
           Len(r) + k <= Len(s), \A i \in 1..Len(r) : r[i] = s[i + k]
    PROVE  /\ Ordered(s) => Ordered(r)
           /\ \A q \in Seq(Event) : Ahead(q, s) => Ahead(q, r)
           /\ \A q \in Seq(Event) : Ahead(s, q) => Ahead(r, q)
           /\ \A p : Numbered(s, p) => Numbered(r, p)
           /\ Elements(r) \subseteq Elements(s)
<1>1. Len(s) \in Nat /\ Len(r) \in Nat
  BY LenProperties
<1>2. \A i \in 1..Len(r) : i + k \in 1..Len(s) /\ r[i] = s[i + k]
  BY <1>1
<1>3. \A i, j \in 1..Len(r) : i < j => i + k < j + k
  BY <1>1
<1>4. Ordered(s) => Ordered(r)
  BY <1>2, <1>3 DEF Ordered
<1>5. \A q \in Seq(Event) : (Ahead(q, s) => Ahead(q, r)) /\ (Ahead(s, q) => Ahead(r, q))
  BY <1>2 DEF Ahead
<1>6. \A p : Numbered(s, p) => Numbered(r, p)
  BY <1>2 DEF Numbered
<1>7. Elements(r) \subseteq Elements(s)
  BY <1>2 DEF Elements
<1> QED
  BY <1>4, <1>5, <1>6, <1>7

LEMMA TailLemma ==
    ASSUME NEW s \in Seq(Event), s # <<>>
    PROVE  /\ Tail(s) \in Seq(Event)
           /\ \A i \in 1..Len(Tail(s)) : i + 1 \in 1..Len(s) /\ Tail(s)[i] = s[i + 1]
           /\ Ordered(s) => Ordered(Tail(s))
           /\ \A q \in Seq(Event) : Ahead(q, s) => Ahead(q, Tail(s))
           /\ \A q \in Seq(Event) : Ahead(s, q) => Ahead(Tail(s), q)
           /\ \A p : Numbered(s, p) => Numbered(Tail(s), p)
           /\ Elements(Tail(s)) \subseteq Elements(s)
<1>1. /\ Tail(s) \in Seq(Event) /\ Len(Tail(s)) = Len(s) - 1 /\ Len(s) \in Nat \ {0}
      /\ \A i \in 1..Len(Tail(s)) : Tail(s)[i] = s[i + 1]
  BY HeadTailProperties, EmptySeq
<1>2. Len(Tail(s)) + 1 <= Len(s) /\ \A i \in 1..Len(Tail(s)) : i + 1 \in 1..Len(s)
  BY <1>1
<1> QED
  BY <1>1, <1>2, PieceLemma

(* An event added at the end. *)
LEMMA AppendLemma ==
    ASSUME NEW s \in Seq(Event), NEW e \in Event
    PROVE  /\ Ordered(s) /\ (\A i \in 1..Len(s) : Before(s[i], e)) => Ordered(Append(s, e))
           /\ \A q \in Seq(Event) :
                /\ Ahead(q, s) /\ (\A i \in 1..Len(q) : Before(q[i], e)) => Ahead(q, Append(s, e))
                /\ Ahead(s, q) /\ (\A i \in 1..Len(q) : Before(e, q[i])) => Ahead(Append(s, e), q)
           /\ \A p : Numbered(s, p) /\ e.n <= p[e.topic] => Numbered(Append(s, e), p)
           /\ Elements(Append(s, e)) = Elements(s) \cup {e}
<1> DEFINE a == Append(s, e)
<1>1. /\ Len(s) \in Nat /\ Len(a) = Len(s) + 1
      /\ \A i \in 1..Len(s) : a[i] = s[i]
      /\ a[Len(s) + 1] = e
  BY AppendProperties, LenProperties
<1> HIDE DEF a
<1>2. \A i \in 1..Len(a) : (i \in 1..Len(s) /\ a[i] = s[i]) \/ (i = Len(s) + 1 /\ a[i] = e)
  BY <1>1
<1>3. \A i \in 1..Len(s) : i \in 1..Len(a) /\ a[i] = s[i]
  BY <1>1
<1>4. Len(s) + 1 \in 1..Len(a)
  BY <1>1
<1>5. Ordered(s) /\ (\A i \in 1..Len(s) : Before(s[i], e)) => Ordered(a)
  <2> SUFFICES ASSUME Ordered(s), \A i \in 1..Len(s) : Before(s[i], e),
                      NEW i \in 1..Len(a), NEW j \in 1..Len(a), i < j
               PROVE  Before(a[i], a[j])
    BY DEF Ordered
  <2>1. i \in 1..Len(s) /\ a[i] = s[i]
    BY <1>1
  <2> QED
    BY <2>1, <1>2 DEF Ordered
<1>6. \A q \in Seq(Event) :
         /\ Ahead(q, s) /\ (\A i \in 1..Len(q) : Before(q[i], e)) => Ahead(q, a)
         /\ Ahead(s, q) /\ (\A i \in 1..Len(q) : Before(e, q[i])) => Ahead(a, q)
  BY <1>2 DEF Ahead
<1>7. \A p : Numbered(s, p) /\ e.n <= p[e.topic] => Numbered(a, p)
  BY <1>2 DEF Numbered
<1>8. Elements(a) = Elements(s) \cup {e}
  BY <1>1, <1>2, <1>3, <1>4 DEF Elements
<1> QED
  BY <1>5, <1>6, <1>7, <1>8 DEF a

(* One sequence put before another. *)
LEMMA ConcatLemma ==
    ASSUME NEW s \in Seq(Event), NEW r \in Seq(Event)
    PROVE  /\ Ordered(s) /\ Ordered(r) /\ Ahead(s, r) => Ordered(s \o r)
           /\ \A q \in Seq(Event) : Ahead(s, q) /\ Ahead(r, q) => Ahead(s \o r, q)
           /\ \A p : Numbered(s, p) /\ Numbered(r, p) => Numbered(s \o r, p)
           /\ Elements(s \o r) \subseteq Elements(s) \cup Elements(r)
<1> DEFINE c == s \o r
<1>1. /\ Len(s) \in Nat /\ Len(r) \in Nat /\ Len(c) = Len(s) + Len(r)
      /\ \A i \in 1..Len(s) + Len(r) : c[i] = IF i <= Len(s) THEN s[i] ELSE r[i - Len(s)]
  BY ConcatProperties, LenProperties
<1> HIDE DEF c
<1>2. \A i \in 1..Len(c) :
         \/ i \in 1..Len(s) /\ c[i] = s[i]
         \/ i > Len(s) /\ i - Len(s) \in 1..Len(r) /\ c[i] = r[i - Len(s)]
  BY <1>1
<1>3. Ordered(s) /\ Ordered(r) /\ Ahead(s, r) => Ordered(c)
  <2> SUFFICES ASSUME Ordered(s), Ordered(r), Ahead(s, r),
                      NEW i \in 1..Len(c), NEW j \in 1..Len(c), i < j
               PROVE  Before(c[i], c[j])
    BY DEF Ordered
  <2>1. CASE j \in 1..Len(s)
    <3>1. i \in 1..Len(s) /\ c[i] = s[i] /\ c[j] = s[j]
      BY <2>1, <1>1
    <3> QED
      BY <3>1, <2>1 DEF Ordered
  <2>2. CASE j \notin 1..Len(s)
    <3>1. j - Len(s) \in 1..Len(r) /\ c[j] = r[j - Len(s)]
      BY <2>2, <1>2
    <3>2. CASE i \in 1..Len(s)
      <4>1. c[i] = s[i]
        BY <3>2, <1>1
      <4> QED
        BY <3>1, <3>2, <4>1 DEF Ahead
    <3>3. CASE i \notin 1..Len(s)
      <4>1. i - Len(s) \in 1..Len(r) /\ c[i] = r[i - Len(s)]
        BY <3>3, <1>2
      <4>2. i - Len(s) < j - Len(s)
        BY <1>1
      <4> QED
        BY <3>1, <4>1, <4>2 DEF Ordered
    <3> QED
      BY <3>2, <3>3
  <2> QED
    BY <2>1, <2>2
<1>4. \A q \in Seq(Event) : Ahead(s, q) /\ Ahead(r, q) => Ahead(c, q)
  BY <1>2 DEF Ahead
<1>5. \A p : Numbered(s, p) /\ Numbered(r, p) => Numbered(c, p)
  BY <1>2 DEF Numbered
<1>6. Elements(c) \subseteq Elements(s) \cup Elements(r)
  BY <1>2 DEF Elements
<1> QED
  BY <1>3, <1>4, <1>5, <1>6 DEF c

(* What the sink has not stored or lost yet. *)
Pending == {w \in Event : w \in Elements(batch) \cup Elements(buffer) \cup Elements(queue[w.topic])}

(* The batch is older than the buffer and the buffer older than a queue;   *)
(* what was appended in this attempt is stored; and what is stored is      *)
(* older than what is pending or comes after it.                           *)
LineOK ==
    /\ Ordered(batch) /\ Ordered(buffer) /\ Ahead(batch, buffer)
    /\ Numbered(batch, published) /\ Numbered(buffer, published)

QueueOK(t) ==
    /\ Ordered(queue[t]) /\ Ahead(batch, queue[t]) /\ Ahead(buffer, queue[t])
    /\ Numbered(queue[t], published)
    /\ \A i \in 1..Len(queue[t]) : queue[t][i].topic = t

Settled(S) == \A e \in S, w \in Pending : w.topic = e.topic /\ w.n < e.n => w \in S

StoredOK ==
    /\ \A e \in stored : e.n <= published[e.topic]
    /\ \A i \in 1..written : batch[i] \in stored
    /\ Settled(stored)

OInv == LineOK /\ (\A t \in Topics : QueueOK(t)) /\ StoredOK

LEMMA OrderInit ==
    ASSUME SinkInit
    PROVE  OInv
<1>1. <<>> \in Seq(Event) /\ Len(<<>>) = 0
  BY EmptySeq
<1>2. LineOK /\ \A t \in Topics : QueueOK(t)
  BY <1>1 DEF SinkInit, LineOK, QueueOK, Ordered, Ahead, Numbered
<1>3. StoredOK
  BY DEF SinkInit, StoredOK, Settled
<1> QED
  BY <1>2, <1>3 DEF OInv

(* Published events are in their queue behind everything of their topic. *)
LEMMA PublishOrder ==
    ASSUME MInv, OInv, NEW t \in Topics, Publish(t)
    PROVE  OInv'
<1> DEFINE e == [topic |-> t, n |-> published[t] + 1]
<1>1. /\ published \in [Topics -> 0..MaxEvents] /\ published[t] \in Nat /\ published[t] < MaxEvents
      /\ published' = [published EXCEPT ![t] = @ + 1] /\ published'[t] = published[t] + 1
      /\ batch \in Seq(Event) /\ buffer \in Seq(Event) /\ queue \in [Topics -> Seq(Event)]
      /\ stored \subseteq Event
  BY SinkAssumption DEF MInv, TypeOK, Publish
<1>2. UNCHANGED <<batch, buffer, written, stored>>
  BY DEF Publish, flushVars
<1>3. e \in Event /\ e.topic = t /\ e.n = published[t] + 1
  BY <1>1, SinkAssumption DEF Event
<1>4. \A u \in Topics : published[u] \in Nat /\ published'[u] \in Nat /\ published[u] <= published'[u]
  BY <1>1
<1>5. queue' = queue \/ queue' = [queue EXCEPT ![t] = Append(@, e)]
  BY <1>1 DEF Publish
<1> HIDE DEF e
<1>6. ASSUME NEW s \in Seq(Event), Numbered(s, published)
      PROVE  Numbered(s, published') /\ \A i \in 1..Len(s) : Before(s[i], e)
  <2>1. \A i \in 1..Len(s) : s[i] \in Event
    BY ElementOfSeq
  <2>2. \A i \in 1..Len(s) : s[i].topic \in Topics /\ s[i].n \in Nat
    BY <2>1 DEF Event
  <2>3. \A i \in 1..Len(s) : s[i].n <= published[s[i].topic]
    BY <1>6 DEF Numbered
  <2>4. ASSUME NEW i \in 1..Len(s)
        PROVE  s[i].n <= published'[s[i].topic] /\ (s[i].topic = e.topic => s[i].n < e.n)
    <3>1. s[i].topic \in Topics /\ s[i].n \in Nat /\ s[i].n <= published[s[i].topic]
      BY <2>2, <2>3
    <3>2. s[i].n <= published'[s[i].topic]
      BY <3>1, <1>4
    <3>3. s[i].topic = t => s[i].n < published[t] + 1
      BY <3>1, <1>1
    <3> QED
      BY <3>2, <3>3, <1>3
  <2> QED
    BY <2>4 DEF Numbered, Before
<1>7. LineOK'
  BY <1>1, <1>2, <1>6 DEF OInv, LineOK
<1>8. ASSUME NEW u \in Topics PROVE QueueOK(u)'
  <2>1. QueueOK(u) /\ queue[u] \in Seq(Event)
    BY <1>1 DEF OInv
  <2>2. Numbered(queue[u], published')
    BY <2>1, <1>6 DEF QueueOK
  <2>3. CASE queue'[u] = queue[u]
    BY <1>2, <2>1, <2>2, <2>3 DEF QueueOK
  <2>4. CASE queue'[u] # queue[u]
    <3>1. u = t /\ queue'[t] = Append(queue[t], e)
      BY <1>1, <1>5, <2>4
    <3>2. /\ \A i \in 1..Len(queue[t]) : Before(queue[t][i], e)
          /\ \A i \in 1..Len(batch) : Before(batch[i], e)
          /\ \A i \in 1..Len(buffer) : Before(buffer[i], e)
      BY <1>1, <1>6, <2>1, <3>1 DEF QueueOK, OInv, LineOK
    <3>3. e.n <= published'[e.topic]
      BY <1>1, <1>3
    <3>4. /\ Ordered(Append(queue[t], e)) /\ Ahead(batch, Append(queue[t], e))
          /\ Ahead(buffer, Append(queue[t], e)) /\ Numbered(Append(queue[t], e), published')
      <4>1. queue[t] \in Seq(Event) /\ QueueOK(t) /\ Numbered(queue[t], published')
        BY <2>1, <2>2, <3>1
      <4>2. Ordered(Append(queue[t], e))
        BY <1>3, <3>2, <4>1, AppendLemma DEF QueueOK
      <4>3. Ahead(batch, Append(queue[t], e)) /\ Ahead(buffer, Append(queue[t], e))
        BY <1>1, <1>3, <3>2, <4>1, AppendLemma DEF QueueOK
      <4>4. Numbered(Append(queue[t], e), published')
        BY <1>3, <3>3, <4>1, AppendLemma
      <4> QED
        BY <4>2, <4>3, <4>4
    <3>5. \A i \in 1..Len(queue'[t]) : queue'[t][i].topic = t
      <4>1. /\ Len(queue'[t]) = Len(queue[t]) + 1 /\ Len(queue[t]) \in Nat
            /\ \A i \in 1..Len(queue[t]) : queue'[t][i] = queue[t][i]
            /\ queue'[t][Len(queue[t]) + 1] = e
        BY <1>1, <1>3, <3>1, AppendProperties, LenProperties
      <4>2. \A i \in 1..Len(queue'[t]) : i \in 1..Len(queue[t]) \/ i = Len(queue[t]) + 1
        BY <4>1
      <4> QED
        BY <1>3, <2>1, <3>1, <4>1, <4>2 DEF QueueOK
    <3> QED
      BY <1>2, <3>1, <3>4, <3>5 DEF QueueOK
  <2> QED
    BY <2>3, <2>4
<1>9. StoredOK'
  <2>1. \A d \in stored : d.topic \in Topics /\ d.n \in Nat /\ d.n <= published[d.topic]
    BY <1>1 DEF OInv, StoredOK, Event
  <2>2. \A d \in stored : d.n <= published'[d.topic]
    BY <1>4, <2>1
  <2>3. ASSUME NEW d \in stored, NEW w \in Pending', w.topic = d.topic, w.n < d.n PROVE w \in stored
    <3>1. w \in Event /\ w.topic \in Topics /\ w.n \in Nat
      BY DEF Pending, Event
    <3>2. Elements(queue'[w.topic]) \subseteq Elements(queue[w.topic]) \cup {e}
      <4>1. CASE queue'[w.topic] = queue[w.topic]
        BY <4>1
      <4>2. CASE queue'[w.topic] # queue[w.topic]
        <5>1. w.topic = t /\ queue'[t] = Append(queue[t], e)
          BY <1>1, <1>5, <3>1, <4>2
        <5> QED
          BY <1>1, <1>3, <5>1, AppendLemma
      <4> QED
        BY <4>1, <4>2
    <3>3. w # e
      BY <1>1, <1>3, <2>1, <2>3
    <3>4. w \in Pending
      BY <1>2, <3>1, <3>2, <3>3 DEF Pending
    <3> QED
      BY <2>3, <3>4 DEF OInv, StoredOK, Settled
  <2> QED
    BY <1>2, <2>2, <2>3 DEF OInv, StoredOK, Settled
<1> QED
  BY <1>7, <1>8, <1>9 DEF OInv

(* A step that stores nothing and adds nothing to what is pending. *)
LEMMA StoredStays ==
    ASSUME OInv, Pending' \subseteq Pending, UNCHANGED <<published, stored>>,
           \A i \in 1..written' : batch'[i] \in stored
    PROVE  StoredOK'
BY DEF OInv, StoredOK, Settled

(* An event moves from its queue to the end of the buffer. *)
LEMMA ConsumeOrder ==
    ASSUME MInv, OInv, NEW t \in Topics, Consume(t)
    PROVE  OInv'
<1> DEFINE h == Head(queue[t])
           q == Tail(queue[t])
<1>1. /\ TypeOK /\ batch \in Seq(Event) /\ buffer \in Seq(Event) /\ queue \in [Topics -> Seq(Event)]
      /\ queue[t] # <<>>
  BY DEF MInv, TypeOK, Consume
<1>2. UNCHANGED <<published, batch, written, stored>>
  BY DEF Consume, flushVars
<1>3. /\ h \in Event /\ q \in Seq(Event) /\ queue' = [queue EXCEPT ![t] = q]
      /\ \/ buffer # <<>> /\ Tail(buffer) \in Seq(Event) /\ buffer' = Append(Tail(buffer), h)
         \/ buffer' = Append(buffer, h)
  BY <1>1, ConsumeEffect
<1>4. /\ Len(queue[t]) \in Nat \ {0} /\ h = queue[t][1] /\ Len(q) = Len(queue[t]) - 1
      /\ \A i \in 1..Len(q) : q[i] = queue[t][i + 1]
  BY <1>1, EmptySeq, HeadTailProperties
<1> HIDE DEF h, q
<1>5. QueueOK(t) /\ queue[t] \in Seq(Event) /\ LineOK
  BY <1>1 DEF OInv
<1>6. Len(q) \in Nat
  BY <1>3, LenProperties
<1>7. /\ Ordered(q) /\ Ahead(batch, q) /\ Ahead(buffer, q) /\ Numbered(q, published)
      /\ Elements(q) \subseteq Elements(queue[t])
  <2>1. queue[t] \in Seq(Event) /\ queue[t] # <<>> /\ q = Tail(queue[t])
    BY <1>1, <1>5 DEF q
  <2>2. /\ Ordered(queue[t]) => Ordered(q)
        /\ \A r \in Seq(Event) : Ahead(r, queue[t]) => Ahead(r, q)
        /\ \A p : Numbered(queue[t], p) => Numbered(q, p)
        /\ Elements(q) \subseteq Elements(queue[t])
    BY <2>1, TailLemma
  <2> QED
    BY <1>1, <1>5, <2>2 DEF QueueOK
<1>8. h.topic = t /\ h.n <= published[h.topic] /\ h \in Elements(queue[t])
  BY <1>4, <1>5 DEF QueueOK, Numbered, Elements
<1>9. /\ \A i \in 1..Len(batch) : Before(batch[i], h)
      /\ \A i \in 1..Len(buffer) : Before(buffer[i], h)
  BY <1>4, <1>5 DEF QueueOK, Ahead
<1>10. \A i \in 1..Len(q) : Before(h, q[i])
  <2>1. \A i \in 1..Len(q) : 1 \in 1..Len(queue[t]) /\ i + 1 \in 1..Len(queue[t]) /\ 1 < i + 1
    BY <1>4, <1>6
  <2> QED
    BY <1>4, <1>5, <2>1 DEF QueueOK, Ordered
<1>11. PICK b \in Seq(Event) :
         /\ buffer' = Append(b, h)
         /\ Ordered(b) /\ Ahead(batch, b) /\ Numbered(b, published)
         /\ \A u \in Topics : Ahead(b, queue[u])
         /\ Ahead(b, q)
         /\ \A i \in 1..Len(b) : Before(b[i], h)
         /\ Elements(b) \subseteq Elements(buffer)
  <2>1. CASE buffer' = Append(buffer, h)
    BY <1>1, <1>5, <1>7, <1>9, <2>1 DEF OInv, LineOK, QueueOK
  <2>2. CASE buffer # <<>> /\ Tail(buffer) \in Seq(Event) /\ buffer' = Append(Tail(buffer), h)
    <3>3. /\ Ordered(buffer) => Ordered(Tail(buffer))
          /\ \A r \in Seq(Event) : Ahead(r, buffer) => Ahead(r, Tail(buffer))
          /\ \A r \in Seq(Event) : Ahead(buffer, r) => Ahead(Tail(buffer), r)
          /\ Numbered(buffer, published) => Numbered(Tail(buffer), published)
          /\ Elements(Tail(buffer)) \subseteq Elements(buffer)
      BY <1>1, <2>2, TailLemma
    <3>4. \A i \in 1..Len(Tail(buffer)) : i + 1 \in 1..Len(buffer) /\ Tail(buffer)[i] = buffer[i + 1]
      BY <1>1, <2>2, TailLemma
    <3>5. \A i \in 1..Len(Tail(buffer)) : Before(Tail(buffer)[i], h)
      BY <1>9, <3>4
    <3>6. \A u \in Topics : Ahead(buffer, queue[u]) /\ queue[u] \in Seq(Event)
      BY <1>1 DEF OInv, QueueOK
    <3>7. /\ Ordered(Tail(buffer)) /\ Ahead(batch, Tail(buffer)) /\ Numbered(Tail(buffer), published)
          /\ \A u \in Topics : Ahead(Tail(buffer), queue[u])
          /\ Ahead(Tail(buffer), q)
      BY <1>1, <1>3, <1>5, <1>7, <3>3, <3>6 DEF LineOK
    <3> QED
      BY <2>2, <3>3, <3>5, <3>7
  <2> QED
    BY <1>3, <2>1, <2>2
<1>12. LineOK'
  <2>1. Ordered(Append(b, h)) /\ Ahead(batch, Append(b, h)) /\ Numbered(Append(b, h), published)
    BY <1>1, <1>3, <1>8, <1>9, <1>11, AppendLemma
  <2> QED
    BY <1>2, <1>5, <1>11, <2>1 DEF LineOK
<1>13. ASSUME NEW u \in Topics PROVE QueueOK(u)'
  <2>1. QueueOK(u) /\ queue[u] \in Seq(Event)
    BY <1>1 DEF OInv
  <2>2. CASE u = t
    <3>1. queue'[u] = q
      BY <1>1, <1>3, <2>2
    <3>2. Ahead(Append(b, h), q)
      BY <1>3, <1>10, <1>11, AppendLemma
    <3>3. \A i \in 1..Len(q) : q[i].topic = t
      <4>1. \A i \in 1..Len(q) : i + 1 \in 1..Len(queue[t]) /\ q[i] = queue[t][i + 1]
        BY <1>4, <1>6
      <4> QED
        BY <1>5, <4>1 DEF QueueOK
    <3> QED
      BY <1>2, <1>7, <1>11, <2>2, <3>1, <3>2, <3>3 DEF QueueOK
  <2>3. CASE u # t
    <3>1. queue'[u] = queue[u]
      BY <1>1, <1>3, <2>3
    <3>2. \A i \in 1..Len(queue[u]) : Before(h, queue[u][i])
      BY <1>8, <2>1, <2>3 DEF QueueOK, Before
    <3>3. Ahead(Append(b, h), queue[u])
      BY <1>3, <1>11, <2>1, <3>2, AppendLemma
    <3> QED
      BY <1>2, <1>11, <2>1, <3>1, <3>3 DEF QueueOK
  <2> QED
    BY <2>2, <2>3
<1>14. StoredOK'
  <2>1. Elements(buffer') \subseteq Elements(buffer) \cup {h}
    BY <1>3, <1>11, AppendLemma
  <2>2. \A u \in Topics : Elements(queue'[u]) \subseteq Elements(queue[u])
    <3> TAKE u \in Topics
    <3>1. CASE u = t
      BY <1>1, <1>3, <1>7, <3>1
    <3>2. CASE u # t
      BY <1>1, <1>3, <3>2
    <3> QED
      BY <3>1, <3>2
  <2>3. Pending' \subseteq Pending
    <3> SUFFICES ASSUME NEW w \in Event,
                        w \in Elements(batch') \cup Elements(buffer') \cup Elements(queue'[w.topic])
                 PROVE  w \in Elements(batch) \cup Elements(buffer) \cup Elements(queue[w.topic])
      BY DEF Pending
    <3>1. w.topic \in Topics
      BY DEF Event
    <3> QED
      BY <1>2, <1>8, <2>1, <2>2, <3>1
  <2> QED
    BY <1>2, <2>3, StoredStays DEF OInv, StoredOK
<1> QED
  BY <1>12, <1>13, <1>14 DEF OInv

(* The next event of the batch may be stored: everything pending of its    *)
(* topic and older than it stands before it in the batch, and is stored.   *)
LEMMA NextIsSettled ==
    ASSUME MInv, OInv, flush # "idle", NEW S \in {stored, stored \cup {batch[written + 1]}}
    PROVE  Settled(S) /\ \A e \in S : e.n <= published[e.topic]
<1> DEFINE x == batch[written + 1]
<1>1. /\ batch \in Seq(Event) /\ Len(batch) \in Nat \ {0} /\ written \in Nat
      /\ written + 1 \in 1..Len(batch) /\ x \in Event
      /\ buffer \in Seq(Event) /\ queue \in [Topics -> Seq(Event)]
  BY NextOfBatch DEF MInv, TypeOK
<1>2. x.n <= published[x.topic]
  BY <1>1 DEF OInv, LineOK, Numbered
<1>3. ASSUME NEW w \in Pending, w.topic = x.topic, w.n < x.n PROVE w \in stored
  <2>1. w.topic \in Topics /\ w.n \in Nat /\ x.n \in Nat /\ ~(x.n < w.n)
    BY <1>1, <1>3 DEF Pending, Event
  <2>2. w \notin Elements(buffer)
    BY <1>1, <1>3, <2>1 DEF OInv, LineOK, Ahead, Before, Elements
  <2>3. w \notin Elements(queue[w.topic])
    <3>1. Ahead(batch, queue[w.topic])
      BY <2>1 DEF OInv, QueueOK
    <3>2. \A j \in 1..Len(queue[w.topic]) : Before(x, queue[w.topic][j])
      BY <1>1, <3>1 DEF Ahead
    <3>3. ~Before(x, w)
      BY <1>3, <2>1 DEF Before
    <3> QED
      BY <3>2, <3>3 DEF Elements
  <2>4. PICK i \in 1..Len(batch) : w = batch[i]
    BY <2>2, <2>3 DEF Pending, Elements
  <2>5. i # written + 1
    BY <1>3, <2>1, <2>4
  <2>6. ~(written + 1 < i)
    BY <1>1, <1>3, <2>1, <2>4 DEF OInv, LineOK, Ordered, Before
  <2>7. i \in 1..written
    BY <1>1, <2>5, <2>6
  <2> QED
    BY <2>4, <2>7 DEF OInv, StoredOK
<1> HIDE DEF x
<1>4. Settled(stored) /\ \A e \in stored : e.n <= published[e.topic]
  BY DEF OInv, StoredOK
<1>5. Settled(stored \cup {x})
  BY <1>3, <1>4 DEF Settled
<1> QED
  BY <1>2, <1>4, <1>5 DEF x

(* A batch is a piece of the buffer's front. *)
LEMMA TakeBatchOrder ==
    ASSUME MInv, OInv, TakeBatch, UNCHANGED <<published, queue>>
    PROVE  /\ LineOK' /\ \A t \in Topics : QueueOK(t)'
           /\ Pending' \subseteq Pending
<1>1. /\ batch' \in Seq(Event) /\ buffer' \in Seq(Event) /\ buffer \in Seq(Event)
      /\ Len(batch') + Len(buffer') = Len(buffer)
      /\ \A i \in 1..Len(batch') : batch'[i] = buffer[i]
      /\ \A i \in 1..Len(buffer') : buffer'[i] = buffer[i + Len(batch')]
      /\ queue \in [Topics -> Seq(Event)]
  BY TakeBatchLemma DEF MInv, TypeOK
<1>2. Len(batch') \in Nat /\ Len(buffer') \in Nat /\ Len(buffer) \in Nat
  BY <1>1, LenProperties
<1>3. /\ Ordered(buffer) => Ordered(batch')
      /\ \A r \in Seq(Event) : Ahead(buffer, r) => Ahead(batch', r)
      /\ Numbered(buffer, published) => Numbered(batch', published)
      /\ Elements(batch') \subseteq Elements(buffer)
  <2>1. Len(batch') + 0 <= Len(buffer) /\ \A i \in 1..Len(batch') : batch'[i] = buffer[i + 0]
    BY <1>1, <1>2
  <2> QED
    BY <1>1, <2>1, PieceLemma
<1>4. /\ Ordered(buffer) => Ordered(buffer')
      /\ \A r \in Seq(Event) : Ahead(buffer, r) => Ahead(buffer', r)
      /\ Numbered(buffer, published) => Numbered(buffer', published)
      /\ Elements(buffer') \subseteq Elements(buffer)
  <2>1. Len(buffer') + Len(batch') <= Len(buffer)
    BY <1>1, <1>2
  <2> QED
    BY <1>1, <1>2, <2>1, PieceLemma
<1>5. LineOK /\ \A t \in Topics : QueueOK(t) /\ queue[t] \in Seq(Event)
  BY <1>1 DEF OInv
<1>6. Ahead(batch', buffer')
  <2> SUFFICES ASSUME NEW i \in 1..Len(batch'), NEW j \in 1..Len(buffer')
               PROVE  Before(batch'[i], buffer'[j])
    BY DEF Ahead
  <2>1. i \in 1..Len(buffer) /\ j + Len(batch') \in 1..Len(buffer) /\ i < j + Len(batch')
    BY <1>1, <1>2
  <2> QED
    BY <1>1, <1>5, <2>1 DEF LineOK, Ordered
<1>7. LineOK'
  BY <1>3, <1>4, <1>5, <1>6 DEF LineOK
<1>8. \A t \in Topics : QueueOK(t)'
  BY <1>3, <1>4, <1>5 DEF QueueOK
<1>9. Pending' \subseteq Pending
  BY <1>3, <1>4 DEF Pending
<1> QED
  BY <1>7, <1>8, <1>9

(* A batch that leaves the line: it is written, or lost with its task.     *)
LEMMA BatchGone ==
    ASSUME MInv, OInv, batch' = <<>>, written' = 0, UNCHANGED <<published, queue, buffer>>,
           stored' \in {stored, stored \cup {batch[written + 1]}},
           stored' # stored => flush # "idle"
    PROVE  OInv'
<1>1. Len(batch') = 0 /\ batch' \in Seq(Event)
  BY EmptySeq
<1>2. LineOK' /\ \A t \in Topics : QueueOK(t)'
  BY <1>1 DEF OInv, LineOK, QueueOK, Ordered, Ahead, Numbered
<1>3. Pending' \subseteq Pending
  BY <1>1 DEF Pending, Elements
<1>4. Settled(stored') /\ \A e \in stored' : e.n <= published[e.topic]
  BY NextIsSettled DEF OInv, StoredOK
<1>5. StoredOK'
  BY <1>3, <1>4 DEF StoredOK, Settled
<1> QED
  BY <1>2, <1>5 DEF OInv

LEMMA BeginFlushOrder ==
    ASSUME MInv, OInv, BeginFlush
    PROVE  OInv'
<1>1. TakeBatch /\ UNCHANGED <<published, queue, stored>> /\ written' = 0
  BY DEF BeginFlush, TakeBatch
<1>2. LineOK' /\ (\A t \in Topics : QueueOK(t)') /\ Pending' \subseteq Pending
  BY <1>1, TakeBatchOrder
<1>3. StoredOK'
  BY <1>1, <1>2, StoredStays
<1> QED
  BY <1>2, <1>3 DEF OInv

LEMMA AppendEventOrder ==
    ASSUME MInv, OInv, AppendEvent
    PROVE  OInv'
<1>1. /\ flush = "writing" /\ stored' = stored \cup {batch[written + 1]}
      /\ UNCHANGED <<published, queue, buffer>>
  BY DEF AppendEvent
<1>2. CASE written + 1 < Len(batch)
  <2>1. written' = written + 1 /\ batch' = batch
    BY <1>2 DEF AppendEvent
  <2>2. LineOK' /\ (\A t \in Topics : QueueOK(t)') /\ Pending' = Pending
    BY <1>1, <2>1 DEF OInv, LineOK, QueueOK, Pending
  <2>3. Settled(stored') /\ \A e \in stored' : e.n <= published[e.topic]
    BY <1>1, NextIsSettled
  <2>4. \A i \in 1..written' : batch'[i] \in stored'
    <3>1. \A i \in 1..written' : i \in 1..written \/ i = written + 1
      BY <2>1 DEF MInv, TypeOK
    <3> QED
      BY <1>1, <2>1, <3>1 DEF OInv, StoredOK
  <2>5. StoredOK'
    BY <1>1, <2>2, <2>3, <2>4 DEF StoredOK, Settled
  <2> QED
    BY <2>2, <2>5 DEF OInv
<1>3. CASE ~(written + 1 < Len(batch))
  <2>1. batch' = <<>> /\ written' = 0
    BY <1>3 DEF AppendEvent, EndFlush
  <2> QED
    BY <1>1, <2>1, BatchGone
<1> QED
  BY <1>2, <1>3

LEMMA AppendFailsOrder ==
    ASSUME MInv, OInv, AppendFails
    PROVE  OInv'
<1>1. /\ flush = "writing" /\ stored' \in {stored, stored \cup {batch[written + 1]}}
      /\ UNCHANGED <<published, queue>> /\ written' = 0
  BY DEF AppendFails, EndFlush
<1>2. Settled(stored') /\ \A e \in stored' : e.n <= published[e.topic]
  BY <1>1, NextIsSettled
<1>3. CASE attempt < MaxRetries
  <2>1. batch' = batch /\ buffer' = buffer
    BY <1>3 DEF AppendFails
  <2>2. LineOK' /\ (\A t \in Topics : QueueOK(t)') /\ Pending' = Pending
    BY <1>1, <2>1 DEF OInv, LineOK, QueueOK, Pending
  <2>3. StoredOK'
    BY <1>1, <1>2, <2>2 DEF StoredOK, Settled
  <2> QED
    BY <2>2, <2>3 DEF OInv
<1>4. CASE ~(attempt < MaxRetries)
  <2>1. batch' = <<>> /\ buffer' = batch \o buffer
    BY <1>4 DEF AppendFails, EndFlush, PutBack
  <2>2. Len(batch') = 0
    BY <2>1, EmptySeq
  <2>3. /\ batch \in Seq(Event) /\ buffer \in Seq(Event) /\ LineOK
        /\ \A t \in Topics : QueueOK(t) /\ queue[t] \in Seq(Event)
    BY DEF MInv, TypeOK, OInv
  <2>4. /\ Ordered(batch \o buffer) /\ Numbered(batch \o buffer, published)
        /\ \A t \in Topics : Ahead(batch \o buffer, queue[t])
        /\ Elements(batch \o buffer) \subseteq Elements(batch) \cup Elements(buffer)
    BY <2>3, ConcatLemma DEF LineOK, QueueOK
  <2>5. LineOK'
    BY <1>1, <2>1, <2>2, <2>4 DEF LineOK, Ordered, Ahead, Numbered
  <2>6. \A t \in Topics : QueueOK(t)'
    BY <1>1, <2>1, <2>2, <2>3, <2>4 DEF QueueOK, Ahead
  <2>7. Pending' \subseteq Pending
    BY <1>1, <2>1, <2>2, <2>4 DEF Pending, Elements
  <2>8. StoredOK'
    BY <1>1, <1>2, <2>7 DEF StoredOK, Settled
  <2> QED
    BY <2>5, <2>6, <2>8 DEF OInv
<1> QED
  BY <1>3, <1>4

(* What was under way is gone, and the next batch comes off the buffer. *)
LEMMA StopOrder ==
    ASSUME MInv, OInv, Stop
    PROVE  OInv'
<1>1. /\ UNCHANGED <<published, queue>> /\ written' = 0
      /\ stored' \in {stored, stored \cup {batch[written + 1]}}
      /\ stored' # stored => flush # "idle"
  BY DEF Stop, TakeBatch
<1>2. CASE buffer # <<>> /\ Allows(breaker)
  <2>1. TakeBatch
    BY <1>2 DEF Stop
  <2>2. LineOK' /\ (\A t \in Topics : QueueOK(t)') /\ Pending' \subseteq Pending
    BY <1>1, <2>1, TakeBatchOrder
  <2>3. Settled(stored') /\ \A e \in stored' : e.n <= published[e.topic]
    BY <1>1, NextIsSettled DEF OInv, StoredOK
  <2>4. StoredOK'
    BY <1>1, <2>2, <2>3 DEF StoredOK, Settled
  <2> QED
    BY <2>2, <2>4 DEF OInv
<1>3. CASE ~(buffer # <<>> /\ Allows(breaker))
  <2>1. batch' = <<>> /\ buffer' = buffer
    BY <1>3 DEF Stop
  <2> QED
    BY <1>1, <2>1, BatchGone
<1> QED
  BY <1>2, <1>3

THEOREM OrderIsInductive ==
    MInv /\ OInv /\ [SinkStep]_sinkVars => OInv'
<1> SUFFICES ASSUME MInv, OInv, [SinkStep]_sinkVars PROVE OInv'
  OBVIOUS
<1>1. ASSUME NEW t \in Topics, Publish(t) PROVE OInv'
  BY <1>1, PublishOrder
<1>2. ASSUME NEW t \in Topics, Consume(t) PROVE OInv'
  BY <1>2, ConsumeOrder
<1>3. CASE BeginFlush
  BY <1>3, BeginFlushOrder
<1>4. CASE AppendEvent
  BY <1>4, AppendEventOrder
<1>5. CASE AppendFails
  BY <1>5, AppendFailsOrder
<1>6. CASE Stop
  BY <1>6, StopOrder
<1>7. CASE Run \/ Retry \/ CoolDown \/ UNCHANGED sinkVars
  <2>1. UNCHANGED <<published, queue, buffer, batch, stored, written>>
    BY <1>7 DEF Run, Retry, CoolDown, flushVars, sinkVars
  <2> QED
    BY <2>1 DEF OInv, LineOK, QueueOK, StoredOK, Settled, Pending
<1> QED
  BY <1>1, <1>2, <1>3, <1>4, <1>5, <1>6, <1>7 DEF SinkStep, Flush

(* No event of a topic is stored past an earlier one that is still to      *)
(* come, whatever fails, overflows or is stopped: what replays the table   *)
(* meets the events of a topic in the order of their publication.          *)
THEOREM StoredInOrder == SinkSpec => []InOrder
<1>1. MInv /\ OInv => InOrder
  <2> SUFFICES ASSUME MInv, OInv, NEW e \in stored, NEW w \in Waiting(e.topic),
                      w.topic = e.topic, w.n < e.n
               PROVE  w \in stored
    BY DEF InOrder
  <2>1. /\ e \in Event /\ e.topic \in Topics
        /\ batch \in Seq(Event) /\ buffer \in Seq(Event) /\ queue[e.topic] \in Seq(Event)
    BY DEF MInv, TypeOK, Event
  <2>2. \A s \in Seq(Event) : Elements(s) \subseteq Event
    BY ElementOfSeq DEF Elements
  <2>3. w \in Pending
    BY <2>1, <2>2 DEF Waiting, Pending
  <2> QED
    BY <2>3 DEF OInv, StoredOK, Settled
<1> QED
  BY <1>1, MemoryInit, MemoryIsInductive, OrderInit, OrderIsInductive, PTL DEF SinkSpec
=============================================================================
