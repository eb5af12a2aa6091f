----------------------------- MODULE EventSink ------------------------------
(***************************************************************************)
(* EventSink (events/sink.py) writes every event of the bus to PostgreSQL: *)
(* one consumer task per topic moves events from the bus's queue into a    *)
(* buffer, one flush task takes batches off the buffer's front and appends *)
(* them one event after another, retrying a batch that fails and, when     *)
(* batches keep failing, leaving the database alone for a while            *)
(* (SimpleCircuitBreaker).                                                 *)
(*                                                                         *)
(* An event is named by its topic and its number there.  An append is      *)
(* idempotent (ON CONFLICT DO NOTHING), so that the table is a set.        *)
(***************************************************************************)
EXTENDS Naturals, Sequences, FiniteSets

CONSTANTS
    Topics,      \* the topics the sink subscribes to
    MaxEvents,   \* bound: events published on each topic
    BatchSize,   \* batch_size
    MaxBuffer,   \* max_buffer_size
    MaxRetries,  \* max_retries of _write_batch_with_retry
    Threshold,   \* failure_threshold of the breaker
    MaxFailures  \* bound: appends that fail

ASSUME SinkAssumption ==
    /\ MaxEvents \in Nat /\ MaxFailures \in Nat
    /\ BatchSize \in Nat \ {0} /\ MaxBuffer \in Nat \ {0}
    /\ MaxRetries \in Nat \ {0} /\ Threshold \in Nat \ {0}

VARIABLES
    published, \* topic -> how many events were published on it
    phase,     \* of the sink: "new", "running", "stopping", "stopped"
    queue,     \* topic -> events in the queue of its consumer
    buffer,    \* _buffer
    batch,     \* what _flush_batch has taken off it ...
    written,   \* ... how much of it was appended in this attempt ...
    attempt,   \* ... and the attempt, from 1
    flush,     \* the flush: "idle", "writing", "waiting" for another attempt
    breaker,   \* _circuit_breaker: [state, failures, cooled]
    stored,    \* external: the events table
    dropped,   \* events _add_to_buffer has dropped
    failures   \* appends that have failed

sinkVars == <<published, phase, queue, buffer, batch, written, attempt, flush,
              breaker, stored, dropped, failures>>
flushVars == <<batch, written, attempt, flush>>

Event == [topic : Topics, n : 1..MaxEvents]
Elements(s) == {s[i] : i \in 1..Len(s)}

-----------------------------------------------------------------------------
(* SimpleCircuitBreaker.  `failures` counts no further than the threshold; *)
(* `cooled` says that cooldown_seconds have passed since the last failure. *)
Closed == [state |-> "closed", failures |-> 0, cooled |-> FALSE]

RecordSuccess(b) == IF b.state = "open" THEN b ELSE Closed

OneMore(b) == IF b.failures < Threshold THEN b.failures + 1 ELSE Threshold

RecordFailure(b) ==
    [state |-> IF b.state = "half_open" \/ OneMore(b) >= Threshold THEN "open" ELSE b.state,
     failures |-> OneMore(b), cooled |-> FALSE]

(* allow_request with is_open: an open breaker whose cooldown has passed   *)
(* becomes half open and lets a batch through.                             *)
Allows_Closed(b) == b.state = "closed"

Allows(b)       == b.state \in {"closed", "half_open"} \/ (b.state = "open" /\ b.cooled)
AfterRequest(b) == IF b.state = "open" THEN [b EXCEPT !.state = "half_open"] ELSE b

CoolDown ==
    /\ breaker.state = "open" /\ ~breaker.cooled
    /\ breaker' = [breaker EXCEPT !.cooled = TRUE]
    /\ UNCHANGED <<published, phase, queue, buffer, flushVars, stored, dropped, failures>>

-----------------------------------------------------------------------------
SinkInit ==
    /\ published = [t \in Topics |-> 0]
    /\ phase = "new"
    /\ queue = [t \in Topics |-> <<>>]
    /\ buffer = <<>> /\ batch = <<>> /\ written = 0 /\ attempt = 1 /\ flush = "idle"
    /\ breaker = Closed
    /\ stored = {} /\ dropped = {} /\ failures = 0

(* EventBus.publish: into the queues there are.  The sink has one per      *)
(* topic once run() has subscribed; stop() does not take it away again.    *)
Publish(t) ==
    /\ published[t] < MaxEvents
    /\ published' = [published EXCEPT ![t] = @ + 1]
    /\ queue' = IF phase = "new" THEN queue
                ELSE [queue EXCEPT ![t] = Append(@, [topic |-> t, n |-> published'[t]])]
    /\ UNCHANGED <<phase, buffer, flushVars, breaker, stored, dropped, failures>>

(* run(): subscribes and starts the consumers and the flush task. *)
Run ==
    /\ phase = "new"
    /\ phase' = "running"
    /\ UNCHANGED <<published, queue, buffer, flushVars, breaker, stored, dropped, failures>>

(* _consume_queue and _add_to_buffer: a full buffer loses its oldest. *)
IsFull_Later(b) == Len(b) > MaxBuffer + 1
IsFull(b)       == Len(b) >= MaxBuffer

Consume(t) ==
    /\ phase = "running" /\ queue[t] # <<>>
    /\ queue' = [queue EXCEPT ![t] = Tail(@)]
    /\ IF IsFull(buffer)
         THEN /\ dropped' = dropped \cup {Head(buffer)}
              /\ buffer' = Append(Tail(buffer), Head(queue[t]))
         ELSE /\ buffer' = Append(buffer, Head(queue[t]))
              /\ UNCHANGED dropped
    /\ UNCHANGED <<published, phase, flushVars, breaker, stored, failures>>

(* _flush_batch up to the first append: nothing to do, not allowed, or a   *)
(* batch is taken off the buffer.                                          *)
TakeBatch ==
    LET n == IF Len(buffer) < BatchSize THEN Len(buffer) ELSE BatchSize IN
    /\ buffer # <<>> /\ Allows(breaker)
    /\ batch' = SubSeq(buffer, 1, n) /\ buffer' = SubSeq(buffer, n + 1, Len(buffer))
    /\ written' = 0 /\ attempt' = 1 /\ flush' = "writing"
    /\ breaker' = AfterRequest(breaker)

(* _flush_loop, when its interval has passed. *)
BeginFlush ==
    /\ phase = "running" /\ flush = "idle"
    /\ TakeBatch
    /\ UNCHANGED <<published, phase, queue, stored, dropped, failures>>

(* _flush_batch ends; if stop() called it, so does the sink. *)
EndFlush ==
    /\ batch' = <<>> /\ written' = 0 /\ attempt' = 1 /\ flush' = "idle"
    /\ phase' = IF phase = "stopping" THEN "stopped" ELSE phase

(* PostgreSQLEventStore.append and EventRepository.create_event of the     *)
(* next event of the batch; the last one ends the batch.                   *)
AppendEvent ==
    /\ flush = "writing"
    /\ stored' = stored \cup {batch[written + 1]}
    /\ IF written + 1 < Len(batch)
         THEN /\ written' = written + 1
              /\ UNCHANGED <<phase, batch, attempt, flush, breaker>>
         ELSE EndFlush /\ breaker' = RecordSuccess(breaker)
    /\ UNCHANGED <<published, queue, buffer, dropped, failures>>

(* The batch failed for good: it goes back to the front of the buffer. *)
PutBack_Behind == buffer \o batch
PutBack        == batch \o buffer

(* The append raises; it may have been committed nevertheless.  The batch  *)
(* is tried again from its first event, or given up for this time.         *)
AppendFails ==
    /\ flush = "writing" /\ failures < MaxFailures
    /\ failures' = failures + 1
    /\ stored' \in {stored, stored \cup {batch[written + 1]}}
    /\ IF attempt < MaxRetries
         THEN /\ flush' = "waiting" /\ attempt' = attempt + 1 /\ written' = 0
              /\ UNCHANGED <<phase, batch, buffer, breaker>>
         ELSE EndFlush /\ buffer' = PutBack /\ breaker' = RecordFailure(breaker)
    /\ UNCHANGED <<published, queue, dropped>>

(* The backoff is over. *)
Retry ==
    /\ flush = "waiting"
    /\ flush' = "writing"
    /\ UNCHANGED <<published, phase, queue, buffer, batch, written, attempt, breaker,
                   stored, dropped, failures>>

(* stop(): the consumers and the flush task are cancelled, in the append   *)
(* or the backoff if they are in one, and with the task goes its batch;    *)
(* then one batch of what is left is flushed.                              *)
Stop ==
    /\ phase = "running"
    /\ stored' \in {stored} \cup
            (IF flush = "writing" THEN {stored \cup {batch[written + 1]}} ELSE {})
    /\ IF buffer # <<>> /\ Allows(breaker)
         THEN TakeBatch /\ phase' = "stopping"
         ELSE /\ batch' = <<>> /\ written' = 0 /\ attempt' = 1 /\ flush' = "idle"
              /\ phase' = "stopped"
              /\ UNCHANGED <<buffer, breaker>>
    /\ UNCHANGED <<published, queue, dropped, failures>>

Flush    == BeginFlush \/ AppendEvent \/ AppendFails \/ Retry
SinkStep == Run \/ (\E t \in Topics : Publish(t) \/ Consume(t)) \/ Flush \/ CoolDown \/ Stop

(* asyncio runs every task that is ready and time passes: the interval,    *)
(* the backoffs and the cooldown end.  Nobody has to publish or to stop    *)
(* the sink, and an append owes an answer, be it an error.                 *)
SinkFairness == /\ WF_sinkVars(Run) /\ WF_sinkVars(Flush) /\ WF_sinkVars(CoolDown)
                /\ \A t \in Topics : WF_sinkVars(Consume(t))

SinkSpec == SinkInit /\ [][SinkStep]_sinkVars /\ SinkFairness

-----------------------------------------------------------------------------
(* Properties *)

(* Types. *)
TypeOK ==
    /\ published \in [Topics -> 0..MaxEvents]
    /\ phase \in {"new", "running", "stopping", "stopped"}
    /\ queue \in [Topics -> Seq(Event)]
    /\ buffer \in Seq(Event) /\ batch \in Seq(Event)
    /\ written \in 0..BatchSize /\ attempt \in 1..MaxRetries
    /\ flush \in {"idle", "writing", "waiting"}
    /\ breaker \in [state : {"closed", "open", "half_open"}, failures : 0..Threshold,
                    cooled : BOOLEAN]
    /\ stored \subseteq Event /\ dropped \subseteq Event
    /\ failures \in 0..MaxFailures
    /\ (flush = "idle") = (batch = <<>>)

(* No retry, no breaker, no overflow and no stop lets an event of a topic  *)
(* into the table past an earlier one that is still to come: what is       *)
(* missing before it was dropped, or was published before the sink had     *)
(* subscribed.  (A rebuild from the table replays what it finds.)          *)
Waiting(t) == Elements(batch) \cup Elements(buffer) \cup Elements(queue[t])
InOrder ==
    \A e \in stored : \A w \in Waiting(e.topic) :
        w.topic = e.topic /\ w.n < e.n => w \in stored

(* While the database does not answer, memory stays bounded although a     *)
(* batch that failed is put back into a buffer that was filled up          *)
(* meanwhile (events/sink.py:177 "Buffer overflow protection").            *)
MemoryIsBounded == Len(buffer) + Len(batch) <= MaxBuffer + BatchSize

(* Every event that was queued is stored or dropped in the end, through    *)
(* every failure that ends: the breaker finds its way back, and no batch   *)
(* is forgotten.  Unless the sink is stopped.                              *)
Drains ==
    \A e \in Event :
        (phase = "running" /\ e \in Waiting(e.topic)) ~> (e \in stored \cup dropped \/ phase # "running")

-----------------------------------------------------------------------------
(* What the comments say of the sink; each fails.                          *)

(* events/sink.py:428 "Stop event sink (flush remaining events)": if no    *)
(* append has failed, all that was queued is stored or was dropped.        *)
StopKeepsAll ==
    phase = "stopped" /\ failures = 0 =>
        \A t \in Topics : Waiting(t) \subseteq stored

(* tasks/platform.py:143, of the SystemStartedEvent that is published      *)
(* right after the task of the sink was created: "will be persisted if     *)
(* EventSink is running".  The task has not run yet and not subscribed.    *)
FirstIsKept ==
    \A e \in Event :
        e.n <= published[e.topic] /\ phase # "stopped" =>
            e \in Waiting(e.topic) \cup stored \cup dropped
=============================================================================
