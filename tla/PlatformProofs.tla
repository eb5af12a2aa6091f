--------------------------- MODULE PlatformProofs ---------------------------
(***************************************************************************)
(* Theorems about Platform, for any requests, clients, strategies and      *)
(* patterns, any interleaving of API, service and orchestrator, and any    *)
(* number of crashes and database errors.  Of the control commands: a      *)
(* request makes one command, a version is used once, and effects keep     *)
(* the order of the requests.  Of the orchestrator: what its tables, calls *)
(* and registry are made of, and that the supervisor of a running strategy *)
(* runs, because the registry counts everyone who uses it.                 *)
(***************************************************************************)
EXTENDS Platform, SequenceTheorems, FiniteSetTheorems, TLAPS

CommandRecord ==
    [request : Requests, at : Nat, stored : Nat, status : {"pending", "applied", "failed"}]

(* What the service and the tables are made of. *)
ControlTypes ==
    /\ clock \in Nat /\ commands \in Seq(CommandRecord)
    /\ http \in [Clients -> {NoRequest} \cup [request : Requests, at : 1..clock]]
    /\ table.version \in Nat \ {0}
    /\ batch \in Seq(Nat) /\ effects \in Seq(Nat)
    /\ doing \in {"poll", "take", "strategy", "mark"}

(* A command is stored after its request began. *)
TimesOK ==
    \A i \in 1..Len(commands) :
        commands[i].at <= commands[i].stored /\ commands[i].stored <= clock

(* The batch holds pending commands in order, and what is pending and not  *)
(* in it was stored after all of the batch was asked for.                  *)
BatchOK ==
    /\ \A k \in 1..Len(batch) : batch[k] \in Pending
    /\ InOrder(batch)
    /\ doing # "poll" => batch # <<>>
    /\ doing = "strategy" => Command.type \in {"add", "remove"}
    /\ \A i \in Pending, k \in 1..Len(batch) :
          (\E l \in 1..Len(batch) : batch[l] = i) \/ commands[batch[k]].at < commands[i].stored

(* A version that a command took effect under is over, and no command that *)
(* is still pending should have come before one that took effect.          *)
EffectsOK ==
    /\ \A i \in 1..Len(effects) :
          /\ effects[i] \in 1..Len(commands)
          /\ commands[effects[i]].request.expected < table.version
    /\ \A j \in 1..Len(effects), i \in Pending :
          ~(commands[i].stored < commands[effects[j]].at)

(* The inductive invariant. *)
CInv ==
    /\ ControlTypes /\ TimesOK /\ BatchOK /\ EffectsOK
    /\ OneCommandEach /\ OnceAVersion /\ EffectsInOrder

-----------------------------------------------------------------------------
(* Sequences of commands *)

LEMMA DomainsLemma ==
    ASSUME ControlTypes
    PROVE  /\ Len(commands) \in Nat /\ DOMAIN commands = 1..Len(commands)
           /\ Len(batch) \in Nat /\ DOMAIN batch = 1..Len(batch)
           /\ Len(effects) \in Nat /\ DOMAIN effects = 1..Len(effects)
           /\ \A i \in 1..Len(commands) : commands[i] \in CommandRecord
           /\ Pending \subseteq 1..Len(commands)
<1>1. /\ Len(commands) \in Nat /\ DOMAIN commands = 1..Len(commands)
      /\ Len(batch) \in Nat /\ DOMAIN batch = 1..Len(batch)
      /\ Len(effects) \in Nat /\ DOMAIN effects = 1..Len(effects)
  BY LenProperties DEF ControlTypes
<1>2. \A i \in 1..Len(commands) : commands[i] \in CommandRecord
  BY ElementOfSeq DEF ControlTypes
<1> QED
  BY <1>1, <1>2 DEF Pending

(* The head of a batch that is being processed is a pending command, asked *)
(* for before the others of the batch.                                     *)
LEMMA HeadLemma ==
    ASSUME ControlTypes, BatchOK, doing # "poll"
    PROVE  /\ Head(batch) = batch[1] /\ 1 \in 1..Len(batch)
           /\ Head(batch) \in Pending /\ Head(batch) \in 1..Len(commands)
           /\ Command = commands[Head(batch)].request /\ Command \in Requests
           /\ Tail(batch) \in Seq(Nat) /\ Len(Tail(batch)) = Len(batch) - 1
           /\ \A k \in 1..Len(Tail(batch)) : Tail(batch)[k] = batch[k + 1]
<1>1. batch # <<>> /\ batch \in Seq(Nat)
  BY DEF BatchOK, ControlTypes
<1>2. /\ Len(batch) \in Nat \ {0} /\ Head(batch) = batch[1]
      /\ Tail(batch) \in Seq(Nat) /\ Len(Tail(batch)) = Len(batch) - 1
      /\ \A k \in 1..Len(Tail(batch)) : Tail(batch)[k] = batch[k + 1]
  BY <1>1, EmptySeq, HeadTailProperties
<1>3. Head(batch) \in Pending /\ 1 \in 1..Len(batch)
  BY <1>2 DEF BatchOK
<1>4. Head(batch) \in 1..Len(commands) /\ commands[Head(batch)] \in CommandRecord
  BY <1>3, DomainsLemma
<1> QED
  BY <1>2, <1>3, <1>4 DEF Command, CommandRecord

LEMMA CInit ==
    ASSUME Init
    PROVE  CInv
<1>1. /\ commands = <<>> /\ batch = <<>> /\ effects = <<>> /\ clock = 0 /\ table.version = 1
      /\ http = [c \in Clients |-> NoRequest] /\ doing = "poll"
  BY DEF Init, ControlInit
<1>2. Len(<<>>) = 0 /\ DOMAIN <<>> = {} /\ <<>> \in Seq(Nat) /\ <<>> \in Seq(CommandRecord)
  BY EmptySeq
<1>3. ControlTypes
  BY <1>1, <1>2 DEF ControlTypes
<1>4. TimesOK /\ BatchOK /\ EffectsOK
  BY <1>1, <1>2 DEF TimesOK, BatchOK, EffectsOK, InOrder
<1>5. OneCommandEach /\ OnceAVersion /\ EffectsInOrder
  BY <1>1, <1>2 DEF OneCommandEach, OnceAVersion, EffectsInOrder
<1> QED
  BY <1>3, <1>4, <1>5 DEF CInv

-----------------------------------------------------------------------------
(* Requests *)

LEMMA AskKeeps ==
    ASSUME CInv, NEW c \in Clients, NEW r \in Requests, Ask(c, r)
    PROVE  CInv'
<1>1. /\ clock' = clock + 1 /\ http' = [http EXCEPT ![c] = [request |-> r, at |-> clock + 1]]
      /\ UNCHANGED <<commands, table, batch, doing, effects>>
  BY DEF Ask
<1>2. ControlTypes /\ clock \in Nat
  BY DEF CInv, ControlTypes
<1>3. http' \in [Clients -> {NoRequest} \cup [request : Requests, at : 1..clock']]
  <2>1. \A d \in Clients : http[d] \in {NoRequest} \cup [request : Requests, at : 1..clock + 1]
    BY <1>2 DEF ControlTypes
  <2>2. [request |-> r, at |-> clock + 1] \in [request : Requests, at : 1..clock + 1]
    BY <1>2
  <2> QED
    BY <1>1, <1>2, <2>1, <2>2 DEF ControlTypes
<1>4. ControlTypes'
  BY <1>1, <1>2, <1>3 DEF ControlTypes
<1>5. TimesOK'
  <2>1. \A i \in 1..Len(commands) : commands[i].stored \in Nat
    BY <1>2, DomainsLemma DEF CommandRecord
  <2> QED
    BY <1>1, <1>2, <2>1 DEF CInv, TimesOK
<1>6. BatchOK' /\ EffectsOK' /\ OneCommandEach' /\ OnceAVersion' /\ EffectsInOrder'
  BY <1>1 DEF CInv, BatchOK, EffectsOK, Pending, InOrder, Command, OneCommandEach, OnceAVersion,
              EffectsInOrder
<1> QED
  BY <1>4, <1>5, <1>6 DEF CInv

(* A command that is stored is the last one, and all that the invariant    *)
(* says of the others stays.                                               *)
LEMMA NewCommandKeeps ==
    ASSUME CInv, NEW e \in CommandRecord, e.status = "pending", e.at <= clock, e.stored = clock + 1,
           ~Stored(e.request),
           commands' = Append(commands, e), clock' = clock + 1,
           http' \in [Clients -> {NoRequest} \cup [request : Requests, at : 1..clock']],
           UNCHANGED <<table, batch, doing, effects>>
    PROVE  CInv'
<1> DEFINE n == Len(commands) + 1
<1>1. /\ ControlTypes /\ TimesOK /\ BatchOK /\ EffectsOK
      /\ clock \in Nat /\ commands \in Seq(CommandRecord) /\ e.at \in Nat /\ e.stored \in Nat
  BY DEF CInv, ControlTypes, CommandRecord
<1>2. /\ Len(commands) \in Nat /\ DOMAIN commands = 1..Len(commands)
      /\ DOMAIN batch = 1..Len(batch) /\ DOMAIN effects = 1..Len(effects)
      /\ \A i \in 1..Len(commands) : commands[i] \in CommandRecord
      /\ Pending \subseteq 1..Len(commands)
  BY <1>1, DomainsLemma
<1>3. /\ commands' \in Seq(CommandRecord) /\ Len(commands') = n
      /\ \A i \in 1..Len(commands) : commands'[i] = commands[i]
      /\ commands'[n] = e
  BY <1>1, AppendProperties
<1>4. DOMAIN commands' = 1..n /\ n \in 1..n /\ \A i \in 1..n : i \in 1..Len(commands) \/ i = n
  BY <1>2, <1>3, LenProperties
<1>5. n \notin 1..Len(commands)
  BY <1>2
<1> HIDE DEF n
<1>6. Pending' = Pending \cup {n}
  BY <1>2, <1>3, <1>4, <1>5 DEF Pending
<1>7. \A i \in 1..Len(commands) :
         /\ commands[i].at \in Nat /\ commands[i].stored \in Nat
         /\ commands[i].at <= clock /\ commands[i].stored <= clock
  <2> TAKE i \in 1..Len(commands)
  <2>1. commands[i].at \in Nat /\ commands[i].stored \in Nat
    BY <1>2 DEF CommandRecord
  <2> QED
    BY <2>1, <1>1 DEF TimesOK
<1>8. ControlTypes'
  BY <1>1, <1>3 DEF ControlTypes
<1>9. TimesOK'
  <2> SUFFICES ASSUME NEW i \in 1..n
               PROVE  commands'[i].at <= commands'[i].stored /\ commands'[i].stored <= clock + 1
    BY <1>3 DEF TimesOK
  <2>1. CASE i \in 1..Len(commands)
    BY <1>1, <1>3, <1>7, <2>1 DEF TimesOK
  <2>2. CASE i = n
    BY <1>1, <1>3, <2>2
  <2> QED
    BY <1>4, <2>1, <2>2
<1>10. \A k \in 1..Len(batch) : batch[k] \in Pending /\ batch[k] \in 1..Len(commands)
  BY <1>1, <1>2 DEF BatchOK
<1>11. BatchOK'
  <2>1. InOrder(batch)'
    BY <1>1, <1>2, <1>3, <1>10 DEF BatchOK, InOrder
  <2>2. \A k \in 1..Len(batch) : batch[k] \in Pending'
    BY <1>6, <1>10
  <2>3. doing = "strategy" => Command'.type \in {"add", "remove"}
    <3> SUFFICES ASSUME doing = "strategy" PROVE Command'.type \in {"add", "remove"}
      OBVIOUS
    <3>1. Head(batch) \in 1..Len(commands)
      BY <1>1, HeadLemma
    <3> QED
      BY <3>1, <1>1, <1>3 DEF BatchOK, Command
  <2>4. ASSUME NEW i \in Pending', NEW k \in 1..Len(batch)
        PROVE  (\E l \in 1..Len(batch) : batch[l] = i) \/ commands'[batch[k]].at < commands'[i].stored
    <3>1. CASE i \in Pending
      BY <1>1, <1>2, <1>3, <1>10, <3>1 DEF BatchOK
    <3>2. CASE i = n
      BY <1>1, <1>3, <1>7, <1>10, <3>2
    <3> QED
      BY <1>6, <3>1, <3>2
  <2> QED
    BY <1>1, <2>1, <2>2, <2>3, <2>4 DEF BatchOK
<1>12. \A j \in 1..Len(effects) : effects[j] \in 1..Len(commands)
  BY <1>1 DEF EffectsOK
<1>13. EffectsOK'
  <2>1. \A j \in 1..Len(effects) : effects[j] \in 1..n
    BY <1>2, <1>12 DEF n
  <2>2. \A j \in 1..Len(effects) : commands'[effects[j]].request.expected < table.version
    BY <1>1, <1>3, <1>12 DEF EffectsOK
  <2>3. ASSUME NEW j \in 1..Len(effects), NEW i \in Pending'
        PROVE  ~(commands'[i].stored < commands'[effects[j]].at)
    <3>1. CASE i \in Pending
      BY <1>1, <1>2, <1>3, <1>12, <3>1 DEF EffectsOK
    <3>2. CASE i = n
      BY <1>1, <1>3, <1>7, <1>12, <3>2
    <3> QED
      BY <1>6, <3>1, <3>2
  <2> QED
    BY <1>3, <2>1, <2>2, <2>3 DEF EffectsOK
<1>14. OneCommandEach'
  <2> SUFFICES ASSUME NEW i \in 1..n, NEW j \in 1..n, Same(commands'[i].request, commands'[j].request)
               PROVE  i = j
    BY <1>4 DEF OneCommandEach, Same
  <2>1. \A k \in 1..Len(commands) :
           ~Same(commands[k].request, e.request) /\ ~Same(e.request, commands[k].request)
    BY <1>2 DEF Stored, Same
  <2>2. \A k, l \in 1..Len(commands) : Same(commands[k].request, commands[l].request) => k = l
    BY <1>2 DEF CInv, OneCommandEach
  <2> QED
    BY <1>3, <1>4, <2>1, <2>2
<1>15. OnceAVersion' /\ EffectsInOrder'
  BY <1>2, <1>3, <1>12 DEF CInv, OnceAVersion, EffectsInOrder
<1> QED
  BY <1>8, <1>9, <1>11, <1>13, <1>14, <1>15 DEF CInv

LEMMA StoreKeeps ==
    ASSUME CInv, NEW c \in Clients, Store(c)
    PROVE  CInv'
<1> DEFINE r == http[c].request
           e == [request |-> r, at |-> http[c].at, stored |-> clock + 1, status |-> "pending"]
<1>1. /\ ControlTypes /\ clock \in Nat /\ http[c].at # 0
      /\ http \in [Clients -> {NoRequest} \cup [request : Requests, at : 1..clock]]
  BY DEF CInv, ControlTypes, Store
<1>2. /\ http' = [http EXCEPT ![c] = NoRequest] /\ clock' = clock + 1
      /\ commands' = IF Refused(r) THEN commands ELSE Append(commands, e)
      /\ UNCHANGED <<table, batch, doing, effects>>
  BY DEF Store
<1>3. http[c] \in [request : Requests, at : 1..clock]
  BY <1>1 DEF NoRequest
<1>4. e \in CommandRecord /\ e.status = "pending" /\ e.at <= clock /\ e.stored = clock + 1 /\ e.request = r
  BY <1>1, <1>3 DEF CommandRecord
<1>5. http' \in [Clients -> {NoRequest} \cup [request : Requests, at : 1..clock']]
  <2>1. \A d \in Clients : http[d] \in {NoRequest} \cup [request : Requests, at : 1..clock + 1]
    BY <1>1
  <2> QED
    BY <1>1, <1>2, <2>1
<1>6. CASE ~Refused(r)
  <2>1. commands' = Append(commands, e) /\ ~Stored(e.request)
    BY <1>2, <1>4, <1>6 DEF Refused
  <2> HIDE DEF r, e
  <2> QED
    BY <1>2, <1>4, <1>5, <2>1, NewCommandKeeps
<1>7. CASE Refused(r)
  <2>1. UNCHANGED <<commands, table, batch, doing, effects>>
    BY <1>2, <1>7
  <2>2. ControlTypes'
    BY <1>1, <1>2, <1>5, <2>1 DEF ControlTypes
  <2>3. TimesOK'
    <3>1. \A i \in 1..Len(commands) : commands[i].stored \in Nat
      BY <1>1, DomainsLemma DEF CommandRecord
    <3> QED
      BY <1>1, <1>2, <2>1, <3>1 DEF CInv, TimesOK
  <2>4. BatchOK' /\ EffectsOK' /\ OneCommandEach' /\ OnceAVersion' /\ EffectsInOrder'
    BY <2>1 DEF CInv, BatchOK, EffectsOK, Pending, InOrder, Command, OneCommandEach, OnceAVersion,
                EffectsInOrder
  <2> QED
    BY <2>2, <2>3, <2>4 DEF CInv
<1> QED
  BY <1>6, <1>7

-----------------------------------------------------------------------------
(* The service *)

LEMMA PollKeeps ==
    ASSUME CInv, Poll
    PROVE  CInv'
<1>1. /\ ControlTypes /\ TimesOK /\ EffectsOK /\ Pending # {}
      /\ UNCHANGED <<http, clock, commands, table, effects>> /\ doing' = "take"
  BY DEF CInv, Poll
<1>2. PICK b \in [1..Cardinality(Pending) -> Pending] :
         ToSet(b) = Pending /\ InOrder(b) /\ batch' = b
  BY DEF Poll
<1>3. Cardinality(Pending) \in Nat
  <2>1. Len(commands) \in Nat /\ Pending \subseteq 1..Len(commands)
    BY <1>1, DomainsLemma
  <2>2. IsFiniteSet(1..Len(commands))
    BY <2>1, FS_Interval
  <2>3. IsFiniteSet(Pending)
    BY <2>1, <2>2, FS_Subset
  <2> QED
    BY <2>3, FS_CardinalityType
<1>4. batch' \in Seq(Pending) /\ batch' \in Seq(Nat) /\ DOMAIN batch' = 1..Len(batch')
  <2>1. Pending \subseteq Nat
    BY <1>1, DomainsLemma
  <2>2. batch' \in Seq(Pending)
    BY <1>2, <1>3, SeqDef
  <2>3. batch' \in Seq(Nat)
    BY <2>1, <2>2, SeqMonotonic
  <2> QED
    BY <2>2, <2>3, LenProperties
<1>5. \A i \in Pending : \E l \in 1..Len(batch') : batch'[l] = i
  BY <1>2, <1>4 DEF ToSet
<1>6. batch' # <<>>
  BY <1>1, <1>4, <1>5
<1>7. \A k \in 1..Len(batch') : batch'[k] \in Pending
  BY <1>4, ElementOfSeq
<1>8. ControlTypes'
  BY <1>1, <1>4 DEF ControlTypes
<1>9. BatchOK'
  BY <1>1, <1>2, <1>5, <1>6, <1>7 DEF BatchOK, Pending, InOrder
<1>10. TimesOK' /\ EffectsOK' /\ OneCommandEach' /\ OnceAVersion' /\ EffectsInOrder'
  BY <1>1 DEF CInv, TimesOK, EffectsOK, Pending, OneCommandEach, OnceAVersion, EffectsInOrder
<1> QED
  BY <1>8, <1>9, <1>10 DEF CInv

(* A command is marked, applied or failed, and the service goes on.        *)
LEMMA MarkKeeps ==
    ASSUME CInv, doing # "poll", NEW st \in {"applied", "failed"}, Mark(Head(batch), st), Advance,
           UNCHANGED <<http, clock, table, effects>>
    PROVE  CInv'
<1> DEFINE h == Head(batch)
<1>1. /\ ControlTypes /\ TimesOK /\ BatchOK /\ EffectsOK /\ commands \in Seq(CommandRecord)
  BY DEF CInv, ControlTypes
<1>2. /\ h = batch[1] /\ 1 \in 1..Len(batch) /\ h \in Pending /\ h \in 1..Len(commands)
      /\ Tail(batch) \in Seq(Nat) /\ Len(Tail(batch)) = Len(batch) - 1
      /\ \A k \in 1..Len(Tail(batch)) : Tail(batch)[k] = batch[k + 1]
  BY <1>1, HeadLemma
<1>3. /\ Len(commands) \in Nat /\ DOMAIN commands = 1..Len(commands)
      /\ Len(batch) \in Nat /\ DOMAIN batch = 1..Len(batch)
      /\ DOMAIN effects = 1..Len(effects)
      /\ \A i \in 1..Len(commands) : commands[i] \in CommandRecord
      /\ Pending \subseteq 1..Len(commands)
  BY <1>1, DomainsLemma
<1>4. /\ batch' = Tail(batch) /\ doing' = (IF Len(batch) = 1 THEN "poll" ELSE "take")
      /\ commands' = [commands EXCEPT ![h].status = st]
  BY DEF Advance, Mark
<1> HIDE DEF h
<1>5. /\ commands' \in Seq(CommandRecord) /\ Len(commands') = Len(commands)
      /\ \A i \in 1..Len(commands) :
            /\ commands'[i].request = commands[i].request
            /\ commands'[i].at = commands[i].at /\ commands'[i].stored = commands[i].stored
            /\ commands'[i].status = IF i = h THEN st ELSE commands[i].status
  <2> DEFINE e == [commands[h] EXCEPT !.status = st]
  <2>1. e \in CommandRecord
    BY <1>2, <1>3 DEF CommandRecord
  <2>2. /\ e.request = commands[h].request /\ e.at = commands[h].at
        /\ e.stored = commands[h].stored /\ e.status = st
    BY <1>2, <1>3 DEF CommandRecord
  <2>3. commands' = [commands EXCEPT ![h] = e]
    BY <1>4
  <2> HIDE DEF e
  <2>4. /\ commands' \in Seq(CommandRecord) /\ Len(commands') = Len(commands)
        /\ \A i \in 1..Len(commands) : commands'[i] = IF i = h THEN e ELSE commands[i]
    BY <1>1, <1>2, <2>1, <2>3, ExceptSeq
  <2> QED
    BY <2>2, <2>4
<1>6. DOMAIN commands' = 1..Len(commands)
  BY <1>5, LenProperties
<1>7. Pending' = Pending \ {h}
  BY <1>3, <1>5, <1>6 DEF Pending
<1>8. ControlTypes'
  BY <1>1, <1>2, <1>4, <1>5 DEF ControlTypes
<1>9. TimesOK'
  BY <1>1, <1>5 DEF TimesOK
<1>10. BatchOK'
  <2>1. Len(batch') = Len(batch) - 1 /\ DOMAIN batch' = 1..Len(batch')
    BY <1>2, <1>4, LenProperties
  <2>2. \A k \in 1..Len(batch') : k + 1 \in 1..Len(batch) /\ 1 < k + 1 /\ batch'[k] = batch[k + 1]
    BY <1>2, <1>3, <1>4, <2>1
  <2>3. \A k \in 1..Len(batch) : batch[k] \in Pending /\ batch[k] \in 1..Len(commands)
    BY <1>1, <1>3 DEF BatchOK
  <2>4. \A k \in 1..Len(batch') : commands[h].at < commands[batch'[k]].at
    BY <1>1, <1>2, <1>3, <2>2 DEF BatchOK, InOrder
  <2>5. commands[h].at \in Nat
    BY <1>2, <1>3 DEF CommandRecord
  <2>6. \A k \in 1..Len(batch') : batch'[k] \in Pending' /\ batch'[k] \in 1..Len(commands)
    BY <1>7, <2>2, <2>3, <2>4, <2>5
  <2>7. InOrder(batch)'
    <3> SUFFICES ASSUME NEW i \in 1..Len(batch'), NEW j \in 1..Len(batch'), i < j
                 PROVE  commands'[batch'[i]].at < commands'[batch'[j]].at
      BY <2>1 DEF InOrder
    <3>1. i + 1 \in 1..Len(batch) /\ j + 1 \in 1..Len(batch) /\ i + 1 < j + 1
      BY <2>1, <2>2
    <3>2. commands[batch[i + 1]].at < commands[batch[j + 1]].at
      BY <1>1, <1>3, <3>1 DEF BatchOK, InOrder
    <3> QED
      BY <1>5, <2>2, <2>6, <3>2
  <2>8. doing' # "strategy" /\ (doing' # "poll" => batch' # <<>>)
    <3>1. doing' # "poll" => Len(batch') # 0
      BY <1>3, <1>4, <2>1
    <3> QED
      BY <1>4, <3>1, EmptySeq
  <2>9. ASSUME NEW i \in Pending', NEW k \in 1..Len(batch')
        PROVE  (\E l \in 1..Len(batch') : batch'[l] = i) \/ commands'[batch'[k]].at < commands'[i].stored
    <3>1. i \in Pending /\ i # h /\ i \in 1..Len(commands)
      BY <1>3, <1>7
    <3>2. CASE \E l \in 1..Len(batch) : batch[l] = i
      <4>1. PICK l \in 1..Len(batch) : batch[l] = i
        BY <3>2
      <4>2. l # 1
        BY <1>2, <3>1, <4>1
      <4>3. l - 1 \in 1..Len(batch') /\ batch[(l - 1) + 1] = i
        BY <1>3, <2>1, <4>1, <4>2
      <4> QED
        BY <2>2, <4>3
    <3>3. CASE ~ \E l \in 1..Len(batch) : batch[l] = i
      <4>1. commands[batch[k + 1]].at < commands[i].stored
        BY <1>1, <2>2, <3>1, <3>3 DEF BatchOK
      <4> QED
        BY <1>5, <2>2, <2>6, <3>1, <4>1
    <3> QED
      BY <3>2, <3>3
  <2> QED
    BY <2>6, <2>7, <2>8, <2>9 DEF BatchOK
<1>11. EffectsOK'
  <2>1. \A j \in 1..Len(effects) :
           effects[j] \in 1..Len(commands) /\ commands[effects[j]].request.expected < table.version
    BY <1>1 DEF EffectsOK
  <2>2. \A j \in 1..Len(effects), i \in Pending' : ~(commands'[i].stored < commands'[effects[j]].at)
    BY <1>1, <1>3, <1>5, <1>7, <2>1 DEF EffectsOK
  <2>3. \A j \in 1..Len(effects) : commands'[effects[j]].request.expected < table.version
    BY <1>5, <2>1
  <2> QED
    BY <1>5, <2>1, <2>2, <2>3 DEF EffectsOK
<1>12. OneCommandEach'
  BY <1>3, <1>5, <1>6 DEF CInv, OneCommandEach, Same
<1>13. OnceAVersion' /\ EffectsInOrder'
  <2>1. \A j \in 1..Len(effects) : effects[j] \in 1..Len(commands)
    BY <1>1 DEF EffectsOK
  <2>2. effects' = effects /\ DOMAIN effects = 1..Len(effects)
    BY <1>3
  <2>3. OnceAVersion'
    BY <1>5, <2>1, <2>2 DEF CInv, OnceAVersion
  <2>4. EffectsInOrder'
    BY <1>5, <2>1, <2>2 DEF CInv, EffectsInOrder
  <2> QED
    BY <2>3, <2>4
<1> QED
  BY <1>8, <1>9, <1>10, <1>11, <1>12, <1>13 DEF CInv

(* A command takes effect: it had no version, or the current one, which is *)
(* then over.                                                              *)
LEMMA EffectKeeps ==
    ASSUME CInv, doing # "poll", doing' = "mark", effects' = Append(effects, Head(batch)),
           Command.expected \in {NoVersion, table.version},
           table'.version \in {table.version, table.version + 1}, Command.expected < table'.version,
           UNCHANGED <<http, clock, commands, batch>>
    PROVE  CInv'
<1> DEFINE h == Head(batch)
           n == Len(effects) + 1
<1>1. /\ ControlTypes /\ TimesOK /\ BatchOK /\ EffectsOK
      /\ effects \in Seq(Nat) /\ table.version \in Nat \ {0}
  BY DEF CInv, ControlTypes
<1>2. /\ h = batch[1] /\ 1 \in 1..Len(batch) /\ h \in Pending /\ h \in 1..Len(commands)
      /\ Command = commands[h].request /\ Command \in Requests
  BY <1>1, HeadLemma
<1>3. /\ Len(effects) \in Nat /\ DOMAIN effects = 1..Len(effects)
      /\ Len(batch) \in Nat /\ DOMAIN batch = 1..Len(batch) /\ Len(commands) \in Nat
      /\ \A i \in 1..Len(commands) : commands[i] \in CommandRecord
      /\ Pending \subseteq 1..Len(commands)
  BY <1>1, DomainsLemma
<1>4. /\ \A i \in 1..Len(commands) : commands[i].at \in Nat /\ commands[i].stored \in Nat
      /\ \A i \in 1..Len(commands) : commands[i].request \in Requests
  BY <1>3 DEF CommandRecord
<1>5. \A r \in Requests : r.expected \in Nat
  BY RequestsAssumption
<1> HIDE DEF h
<1>6. h \in Nat
  BY <1>2, <1>3
<1>7. /\ effects' = Append(effects, h) /\ effects' \in Seq(Nat) /\ Len(effects') = n
      /\ \A i \in 1..Len(effects) : effects'[i] = effects[i]
      /\ effects'[n] = h
  BY <1>1, <1>6, AppendProperties DEF h
<1>8. /\ DOMAIN effects' = 1..n
      /\ \A i \in 1..n : (i \in 1..Len(effects) /\ effects'[i] = effects[i]) \/ (i = n /\ effects'[i] = h)
      /\ \A i \in 1..Len(effects) : i < n
  BY <1>3, <1>7, LenProperties
<1> HIDE DEF n
<1>9. UNCHANGED commands /\ UNCHANGED batch /\ UNCHANGED clock /\ Pending' = Pending
  BY DEF Pending
<1>10. ControlTypes'
  BY <1>1, <1>7 DEF ControlTypes
<1>11. TimesOK' /\ BatchOK' /\ OneCommandEach'
  BY <1>1, <1>9 DEF CInv, TimesOK, BatchOK, InOrder, OneCommandEach
<1>12. \A j \in 1..Len(effects) :
         /\ effects[j] \in 1..Len(commands)
         /\ commands[effects[j]].request.expected < table.version
         /\ commands[effects[j]].request.expected \in Nat
  BY <1>1, <1>4, <1>5 DEF EffectsOK
<1>13. ASSUME NEW i \in Pending PROVE ~(commands[i].stored < commands[h].at)
  <2>1. i \in 1..Len(commands) /\ commands[i].at <= commands[i].stored
    BY <1>1, <1>3 DEF TimesOK
  <2>2. ASSUME NEW l \in 1..Len(batch), batch[l] = i PROVE commands[h].at <= commands[i].stored
    <3>1. CASE l = 1
      BY <1>2, <2>1, <2>2, <3>1
    <3>2. CASE l # 1
      <4>1. 1 < l
        BY <1>3, <3>2
      <4>2. commands[h].at < commands[i].at
        BY <1>1, <1>2, <1>3, <2>2, <4>1 DEF BatchOK, InOrder
      <4> QED
        BY <1>2, <1>4, <2>1, <4>2
    <3> QED
      BY <3>1, <3>2
  <2>3. (\E l \in 1..Len(batch) : batch[l] = i) \/ commands[h].at < commands[i].stored
    BY <1>1, <1>2 DEF BatchOK
  <2>4. commands[h].at \in Nat /\ commands[i].stored \in Nat
    BY <1>2, <1>4, <2>1
  <2> QED
    BY <2>2, <2>3, <2>4
<1>14. EffectsOK'
  <2>1. ASSUME NEW i \in 1..n
        PROVE  /\ effects'[i] \in 1..Len(commands)
               /\ commands[effects'[i]].request.expected < table'.version
    <3>1. CASE i \in 1..Len(effects) /\ effects'[i] = effects[i]
      <4>1. table.version <= table'.version /\ table'.version \in Nat
        BY <1>1
      <4> QED
        BY <1>1, <1>12, <3>1, <4>1
    <3>2. CASE i = n /\ effects'[i] = h
      BY <1>2, <3>2
    <3> QED
      BY <1>8, <3>1, <3>2
  <2>2. \A j \in 1..n, i \in Pending : ~(commands[i].stored < commands[effects'[j]].at)
    BY <1>1, <1>8, <1>13 DEF EffectsOK
  <2> QED
    BY <1>7, <1>9, <2>1, <2>2 DEF EffectsOK
<1>15. OnceAVersion'
  <2>0. commands' = commands /\ NoVersion' = NoVersion
    BY <1>9 DEF NoVersion
  <2> SUFFICES ASSUME NEW i \in DOMAIN effects', NEW j \in DOMAIN effects',
                      commands'[effects'[i]].request.expected # NoVersion,
                      commands'[effects'[j]].request.expected = commands'[effects'[i]].request.expected
               PROVE  i = j
    BY Zenon DEF OnceAVersion, NoVersion
  <2>5. i \in 1..n /\ j \in 1..n
    BY <1>8
  <2>1. CASE i \in 1..Len(effects) /\ j \in 1..Len(effects)
    BY <1>3, <1>7, <2>0, <2>1 DEF CInv, OnceAVersion
  <2>2. \A k \in 1..Len(effects) :
           commands[effects[k]].request.expected = Command.expected => Command.expected = NoVersion
    <3> SUFFICES ASSUME NEW k \in 1..Len(effects),
                        commands[effects[k]].request.expected = Command.expected,
                        Command.expected = table.version
                 PROVE  FALSE
      OBVIOUS
    <3>1. table.version \in Nat /\ commands[effects[k]].request.expected < table.version
      BY <1>1, <1>12
    <3> QED
      BY <3>1
  <2>3. CASE i = n /\ effects'[i] = h
    BY <1>2, <1>8, <2>0, <2>2, <2>3, <2>5
  <2>4. CASE j = n /\ effects'[j] = h
    BY <1>2, <1>8, <2>0, <2>2, <2>4, <2>5
  <2> QED
    BY <1>8, <2>1, <2>3, <2>4, <2>5
<1>16. EffectsInOrder'
  <2> SUFFICES ASSUME NEW i \in 1..n, NEW j \in 1..n,
                      commands[effects'[i]].stored < commands[effects'[j]].at
               PROVE  i < j
    BY <1>8, <1>9 DEF EffectsInOrder
  <2>1. CASE i \in 1..Len(effects) /\ j \in 1..Len(effects)
    BY <1>3, <1>7, <2>1 DEF CInv, EffectsInOrder
  <2>2. CASE i \in 1..Len(effects) /\ j = n
    BY <1>8, <2>2
  <2>3. CASE i = n /\ effects'[i] = h /\ j \in 1..Len(effects)
    BY <1>1, <1>2, <1>7, <2>3 DEF EffectsOK
  <2>4. CASE i = n /\ j = n
    BY <1>2, <1>7, <1>13, <2>4
  <2> QED
    BY <1>8, <2>1, <2>2, <2>3, <2>4
<1> QED
  BY <1>10, <1>11, <1>14, <1>15, <1>16 DEF CInv

LEMMA TakeKeeps ==
    ASSUME CInv, Take
    PROVE  CInv'
<1>1. /\ ControlTypes /\ BatchOK /\ doing = "take" /\ table.version \in Nat \ {0}
      /\ UNCHANGED <<http, clock>>
  BY DEF CInv, ControlTypes, Take
<1>2. Command \in Requests /\ Command.expected \in Nat
  BY <1>1, HeadLemma, RequestsAssumption
<1>3. CASE ~Current(Command) /\ Mark(Head(batch), "failed") /\ Advance /\ UNCHANGED <<table, effects>>
  BY <1>1, <1>3, MarkKeeps
<1>4. CASE Current(Command) /\ Execute /\ UNCHANGED <<commands, batch>>
  <2>1. Command.expected \in {NoVersion, table.version}
    BY <1>4 DEF Current
  <2>2. /\ table'.version = table.version + 1 /\ effects' = Append(effects, Head(batch))
        /\ doing' = "mark"
    BY <1>4 DEF Execute
  <2>3. Command.expected < table'.version
    BY <1>1, <1>2, <2>1, <2>2 DEF NoVersion
  <2> QED
    BY <1>1, <1>4, <2>1, <2>2, <2>3, EffectKeeps
<1>5. CASE Current(Command) /\ Activate /\ UNCHANGED <<commands, batch>>
  <2>1. /\ Command.type \in {"add", "remove"} /\ doing' = "strategy"
        /\ UNCHANGED <<http, clock, commands, table, batch, effects>>
    BY <1>1, <1>5 DEF Activate
  <2>2. ControlTypes' /\ TimesOK' /\ EffectsOK'
    BY <1>1, <2>1 DEF CInv, ControlTypes, TimesOK, EffectsOK, Pending
  <2>3. BatchOK'
    BY <1>1, <2>1 DEF BatchOK, Pending, InOrder, Command
  <2>4. OneCommandEach' /\ OnceAVersion' /\ EffectsInOrder'
    BY <2>1 DEF CInv, OneCommandEach, OnceAVersion, EffectsInOrder
  <2> QED
    BY <2>2, <2>3, <2>4 DEF CInv
<1> QED
  BY <1>3, <1>4, <1>5 DEF Take

LEMMA SwitchKeeps ==
    ASSUME CInv, Switch
    PROVE  CInv'
<1>1. /\ ControlTypes /\ BatchOK /\ doing = "strategy" /\ table.version \in Nat \ {0}
      /\ effects' = Append(effects, Head(batch)) /\ doing' = "mark"
      /\ UNCHANGED <<http, clock, commands, table, batch>>
  BY DEF CInv, ControlTypes, Switch
<1>2. Command \in Requests /\ Command.type \in {"add", "remove"}
  BY <1>1, HeadLemma DEF BatchOK
<1>3. Command.expected = NoVersion /\ Command.expected < table.version
  BY <1>1, <1>2, RequestsAssumption DEF NoVersion
<1> QED
  BY <1>1, <1>3, EffectKeeps

(* Nothing of what the invariant speaks of changes, but for a batch that   *)
(* is given up.                                                            *)
LEMMA QuietKeeps ==
    ASSUME CInv, UNCHANGED <<clock, commands, table, effects>>,
           \/ UNCHANGED <<http, batch, doing>>
           \/ http' = [c \in Clients |-> NoRequest] /\ batch' = <<>> /\ doing' = "poll"
    PROVE  CInv'
<1>1. CASE UNCHANGED <<http, batch, doing>>
  BY <1>1 DEF CInv, ControlTypes, TimesOK, BatchOK, EffectsOK, Pending, InOrder, Command,
              OneCommandEach, OnceAVersion, EffectsInOrder
<1>2. CASE http' = [c \in Clients |-> NoRequest] /\ batch' = <<>> /\ doing' = "poll"
  <2>1. Len(<<>>) = 0 /\ DOMAIN <<>> = {} /\ <<>> \in Seq(Nat)
    BY EmptySeq
  <2>2. ControlTypes'
    BY <1>2, <2>1 DEF CInv, ControlTypes
  <2>3. BatchOK'
    BY <1>2, <2>1 DEF BatchOK, InOrder
  <2>4. TimesOK' /\ EffectsOK' /\ OneCommandEach' /\ OnceAVersion' /\ EffectsInOrder'
    BY <1>2 DEF CInv, TimesOK, EffectsOK, Pending, OneCommandEach, OnceAVersion, EffectsInOrder
  <2> QED
    BY <2>2, <2>3, <2>4 DEF CInv
<1> QED
  BY <1>1, <1>2

LEMMA NextKeeps == CInv /\ [Next]_vars => CInv'
<1> SUFFICES ASSUME CInv, [Next]_vars PROVE CInv'
  OBVIOUS
<1>1. CASE Api
  <2>1. ASSUME NEW c \in Clients, Store(c) PROVE CInv'
    BY <2>1, StoreKeeps
  <2>2. ASSUME NEW c \in Clients, NEW r \in Requests, Ask(c, r) PROVE CInv'
    BY <2>2, AskKeeps
  <2>3. CASE Kept
    BY <2>3, QuietKeeps DEF Kept, control
  <2> QED
    BY <1>1, <2>1, <2>2, <2>3 DEF Api
<1>2. CASE Orchestrate \/ UNCHANGED vars
  BY <1>2, QuietKeeps DEF Orchestrate, Kept, vars, control
<1>3. CASE Poll
  BY <1>3, PollKeeps
<1>4. CASE Take
  BY <1>4, TakeKeeps
<1>5. CASE Switch
  BY <1>5, SwitchKeeps
<1>6. CASE MarkApplied
  <2>1. /\ doing # "poll" /\ Mark(Head(batch), "applied") /\ Advance
        /\ UNCHANGED <<http, clock, table, effects>>
    BY <1>6 DEF MarkApplied
  <2> QED
    BY <2>1, MarkKeeps
<1>7. CASE Serve
  BY <1>7, QuietKeeps DEF Serve
<1>8. CASE DatabaseError
  <2>1. UNCHANGED <<http, clock, table, effects>>
    BY <1>8 DEF DatabaseError
  <2>2. CASE UNCHANGED <<commands, batch, doing>>
    BY <2>1, <2>2, QuietKeeps
  <2>3. CASE doing = "mark" /\ Mark(Head(batch), "failed") /\ Advance
    BY <2>1, <2>3, MarkKeeps
  <2> QED
    BY <1>8, <2>2, <2>3 DEF DatabaseError
<1>9. CASE Crash
  BY <1>9, QuietKeeps DEF Crash, Lost
<1> QED
  BY <1>1, <1>2, <1>3, <1>4, <1>5, <1>6, <1>7, <1>8, <1>9 DEF Next, Service, Process, Fault

-----------------------------------------------------------------------------
(* The inductive invariant of the control commands. *)
THEOREM ControlInvariant == Spec => []CInv
BY CInit, NextKeeps, PTL DEF Spec

(* A request that is repeated, in sequence or at once, makes one command.  *)
THEOREM RequestsMakeOneCommand == Spec => []OneCommandEach
<1>1. CInv => OneCommandEach
  BY DEF CInv
<1> QED
  BY <1>1, ControlInvariant, PTL

(* Of the commands issued against one version at most one takes effect,    *)
(* and once, whatever crashes come before it is marked.                    *)
THEOREM VersionsAreUsedOnce == Spec => []OnceAVersion
<1>1. CInv => OnceAVersion
  BY DEF CInv
<1> QED
  BY <1>1, ControlInvariant, PTL

(* No command takes effect after one that was asked for when it was stored *)
(* already, crash or not.                                                  *)
THEOREM EffectsKeepOrder == Spec => []EffectsInOrder
<1>1. CInv => EffectsInOrder
  BY DEF CInv
<1> QED
  BY <1>1, ControlInvariant, PTL
-----------------------------------------------------------------------------
(* The registry of supervisors *)

Rows   == [desired : States, actual : States, pattern : Patterns]
Feed   == [pattern : Patterns, running : BOOLEAN]
Runner == [sup : Nat, running : BOOLEAN, evaluating : BOOLEAN]
Registry == [all : Seq(Feed), of : [Patterns -> Nat], refs : [Patterns -> Nat]]

(* A supervisor of the registry is one of its pattern, and is counted.     *)
RegistryOK(f) ==
    /\ f \in Registry
    /\ \A p \in Patterns : f.of[p] # 0 <=> f.refs[p] > 0
    /\ \A p \in Patterns : f.of[p] # 0 => f.of[p] \in 1..Len(f.all) /\ f.all[f.of[p]].pattern = p

(* Supervisors keep their index and pattern. *)
Later(f, g) ==
    /\ Len(f.all) <= Len(g.all)
    /\ \A i \in 1..Len(f.all) : g.all[i].pattern = f.all[i].pattern

LEMMA EnteredLemma ==
    ASSUME NEW f, RegistryOK(f), NEW p \in Patterns
    PROVE  /\ RegistryOK(Entered(f, p)) /\ Later(f, Entered(f, p))
           /\ Len(f.all) \in Nat /\ Len(Entered(f, p).all) = Len(f.all) + 1
           /\ \A i \in 1..Len(f.all) : Entered(f, p).all[i] = f.all[i]
           /\ Entered(f, p).all[Len(f.all) + 1] = [pattern |-> p, running |-> TRUE]
           /\ \A q \in Patterns :
                 /\ Entered(f, p).of[q] = IF q = p THEN Len(f.all) + 1 ELSE f.of[q]
                 /\ Entered(f, p).refs[q] = IF q = p THEN 1 ELSE f.refs[q]
<1> DEFINE e == [pattern |-> p, running |-> TRUE]
           n == Len(f.all)
           a == Append(f.all, e)
           g == Entered(f, p)
<1>1. /\ f.all \in Seq(Feed) /\ f.of \in [Patterns -> Nat] /\ f.refs \in [Patterns -> Nat]
      /\ e \in Feed
  BY DEF RegistryOK, Registry, Feed
<1> HIDE DEF e
<1>2. /\ a \in Seq(Feed) /\ n \in Nat /\ Len(a) = n + 1
      /\ \A i \in 1..n : a[i] = f.all[i]
      /\ a[n + 1] = e
  BY <1>1, AppendProperties
<1>3. /\ g.all = a /\ g.of = [f.of EXCEPT ![p] = n + 1] /\ g.refs = [f.refs EXCEPT ![p] = 1]
      /\ g = [all |-> g.all, of |-> g.of, refs |-> g.refs]
  BY DEF Entered, e
<1> HIDE DEF n, a, g
<1>4. \A q \in Patterns :
         /\ g.of[q] = IF q = p THEN n + 1 ELSE f.of[q]
         /\ g.refs[q] = IF q = p THEN 1 ELSE f.refs[q]
  BY <1>1, <1>3
<1>5. g \in Registry
  <2>1. g.of \in [Patterns -> Nat] /\ g.refs \in [Patterns -> Nat]
    BY <1>1, <1>2, <1>3
  <2> QED
    BY <1>2, <1>3, <2>1 DEF Registry
<1>6. e.pattern = p
  BY DEF e
<1>7. RegistryOK(g)
  <2>1. ASSUME NEW q \in Patterns
        PROVE  /\ g.of[q] # 0 <=> g.refs[q] > 0
               /\ g.of[q] # 0 => g.of[q] \in 1..Len(g.all) /\ g.all[g.of[q]].pattern = q
    <3>1. CASE q = p
      BY <1>2, <1>3, <1>4, <1>6, <3>1
    <3>2. CASE q # p
      <4>1. g.of[q] = f.of[q] /\ g.refs[q] = f.refs[q]
        BY <1>4, <3>2
      <4>2. f.of[q] # 0 => f.of[q] \in 1..n /\ f.all[f.of[q]].pattern = q
        BY DEF RegistryOK, n
      <4>3. f.of[q] \in 1..n => f.of[q] \in 1..Len(g.all) /\ g.all[f.of[q]] = f.all[f.of[q]]
        BY <1>2, <1>3
      <4>4. f.of[q] # 0 <=> f.refs[q] > 0
        BY DEF RegistryOK
      <4> QED
        BY <4>1, <4>2, <4>3, <4>4
    <3> QED
      BY <3>1, <3>2
  <2> QED
    BY <1>5, <2>1 DEF RegistryOK
<1>8. Later(f, g)
  BY <1>2, <1>3 DEF Later, n
<1> QED
  BY <1>2, <1>3, <1>4, <1>7, <1>8 DEF e, n, g

LEMMA ReferencedLemma ==
    ASSUME NEW f, RegistryOK(f), NEW p \in Patterns, f.of[p] # 0
    PROVE  /\ RegistryOK(Referenced(f, p)) /\ Later(f, Referenced(f, p))
           /\ Referenced(f, p).all = f.all /\ Referenced(f, p).of = f.of
           /\ \A q \in Patterns :
                 Referenced(f, p).refs[q] = IF q = p THEN f.refs[q] + 1 ELSE f.refs[q]
<1> DEFINE g == Referenced(f, p)
<1>1. /\ f.all \in Seq(Feed) /\ f.of \in [Patterns -> Nat] /\ f.refs \in [Patterns -> Nat]
      /\ f \in Registry
  BY DEF RegistryOK, Registry
<1>2. /\ g.all = f.all /\ g.of = f.of /\ g.refs = [f.refs EXCEPT ![p] = @ + 1]
      /\ g = [all |-> g.all, of |-> g.of, refs |-> g.refs]
  <2>1. g = [f EXCEPT !.refs[p] = @ + 1]
    BY DEF Referenced
  <2> HIDE DEF g
  <2> QED
    BY <1>1, <2>1 DEF Registry
<1> HIDE DEF g
<1>3. \A q \in Patterns : g.refs[q] = IF q = p THEN f.refs[q] + 1 ELSE f.refs[q]
  BY <1>1, <1>2
<1>4. g \in Registry
  <2>1. g.refs \in [Patterns -> Nat]
    BY <1>1, <1>2
  <2> QED
    BY <1>1, <1>2, <2>1 DEF Registry
<1>5. \A q \in Patterns : g.of[q] # 0 <=> g.refs[q] > 0
  BY <1>1, <1>2, <1>3 DEF RegistryOK
<1>6. RegistryOK(g)
  BY <1>2, <1>4, <1>5 DEF RegistryOK
<1>7. Later(f, g)
  BY <1>1, <1>2, LenProperties DEF Later
<1> QED
  BY <1>2, <1>3, <1>6, <1>7 DEF g

LEMMA ReleasedLemma ==
    ASSUME NEW f, RegistryOK(f), NEW p \in Patterns
    PROVE  /\ RegistryOK(Released(f, p)) /\ Later(f, Released(f, p))
           /\ Len(Released(f, p).all) = Len(f.all)
           /\ \A i \in 1..Len(f.all) :
                 f.all[i].pattern # p \/ f.refs[p] # 1 => Released(f, p).all[i] = f.all[i]
           /\ \A q \in Patterns :
                 /\ Released(f, p).of[q] = IF q = p /\ f.refs[p] = 1 THEN 0 ELSE f.of[q]
                 /\ Released(f, p).refs[q] =
                       IF q = p /\ f.refs[p] # 0 THEN f.refs[q] - 1 ELSE f.refs[q]
<1> DEFINE g == Released(f, p)
           n == Len(f.all)
<1>1. /\ f.all \in Seq(Feed) /\ f.of \in [Patterns -> Nat] /\ f.refs \in [Patterns -> Nat]
      /\ f \in Registry /\ f.refs[p] \in Nat /\ n \in Nat
  BY LenProperties DEF RegistryOK, Registry
<1>2. CASE f.refs[p] = 0
  <2>1. g = f
    BY <1>2 DEF Released
  <2>2. Later(f, f)
    BY <1>1 DEF Later
  <2> QED
    BY <1>1, <1>2, <2>1, <2>2
<1>3. CASE f.refs[p] > 1
  <2>1. g = [f EXCEPT !.refs[p] = @ - 1]
    BY <1>1, <1>3 DEF Released
  <2>2. /\ g.all = f.all /\ g.of = f.of /\ g.refs = [f.refs EXCEPT ![p] = @ - 1]
        /\ g = [all |-> g.all, of |-> g.of, refs |-> g.refs]
    BY <1>1, <2>1 DEF Registry
  <2> HIDE DEF g
  <2>3. \A q \in Patterns : g.refs[q] = IF q = p THEN f.refs[q] - 1 ELSE f.refs[q]
    BY <1>1, <2>2
  <2>4. g \in Registry
    <3>1. g.refs \in [Patterns -> Nat]
      BY <1>1, <1>3, <2>2
    <3> QED
      BY <1>1, <2>2, <3>1 DEF Registry
  <2>5. \A q \in Patterns : g.of[q] # 0 <=> g.refs[q] > 0
    BY <1>1, <1>3, <2>2, <2>3 DEF RegistryOK
  <2>6. RegistryOK(g)
    BY <2>2, <2>4, <2>5 DEF RegistryOK
  <2>7. Later(f, g)
    BY <1>1, <2>2 DEF Later
  <2> QED
    BY <1>3, <2>2, <2>3, <2>6, <2>7 DEF g
<1>4. CASE f.refs[p] = 1
  <2> DEFINE i == f.of[p]
             e == [f.all[i] EXCEPT !.running = FALSE]
             a == [f.all EXCEPT ![i] = e]
  <2>1. i \in 1..n /\ f.all[i].pattern = p
    BY <1>4 DEF RegistryOK
  <2>2. f.all[i] \in Feed
    BY <1>1, <2>1, ElementOfSeq
  <2>3. e \in Feed /\ e.pattern = p
    BY <2>1, <2>2 DEF Feed
  <2>4. g = [f EXCEPT !.all[f.of[p]].running = FALSE, !.of[p] = 0, !.refs[p] = 0]
    BY <1>4 DEF Released
  <2>5. /\ g.all = a /\ g.of = [f.of EXCEPT ![p] = 0] /\ g.refs = [f.refs EXCEPT ![p] = 0]
        /\ g = [all |-> g.all, of |-> g.of, refs |-> g.refs]
    BY <1>1, <2>4 DEF Registry
  <2> HIDE DEF g, e, i
  <2>6. a \in Seq(Feed) /\ Len(a) = n /\ \A j \in 1..n : a[j] = IF j = i THEN e ELSE f.all[j]
    BY <1>1, <2>1, <2>3, ExceptSeq
  <2> HIDE DEF a, n
  <2>7. \A q \in Patterns :
           /\ g.of[q] = IF q = p THEN 0 ELSE f.of[q]
           /\ g.refs[q] = IF q = p THEN 0 ELSE f.refs[q]
    BY <1>1, <2>5
  <2>8. g \in Registry
    <3>1. g.of \in [Patterns -> Nat] /\ g.refs \in [Patterns -> Nat]
      BY <1>1, <2>5
    <3> QED
      BY <2>5, <2>6, <3>1 DEF Registry
  <2>9. \A j \in 1..n : a[j].pattern = f.all[j].pattern
    BY <2>1, <2>3, <2>6
  <2>10. \A q \in Patterns :
            /\ g.of[q] # 0 <=> g.refs[q] > 0
            /\ g.of[q] # 0 => g.of[q] \in 1..Len(g.all) /\ g.all[g.of[q]].pattern = q
    <3> SUFFICES ASSUME NEW q \in Patterns
                 PROVE  /\ g.of[q] # 0 <=> g.refs[q] > 0
                        /\ g.of[q] # 0 => g.of[q] \in 1..Len(g.all) /\ g.all[g.of[q]].pattern = q
      OBVIOUS
    <3>1. CASE q = p
      BY <2>7, <3>1
    <3>2. CASE q # p
      <4>1. g.of[q] = f.of[q] /\ g.refs[q] = f.refs[q]
        BY <2>7, <3>2
      <4>2. /\ f.of[q] # 0 => f.of[q] \in 1..n /\ f.all[f.of[q]].pattern = q
            /\ f.of[q] # 0 <=> f.refs[q] > 0
        BY DEF RegistryOK, n
      <4> QED
        BY <2>5, <2>6, <2>9, <4>1, <4>2
    <3> QED
      BY <3>1, <3>2
  <2>11. RegistryOK(g)
    BY <2>8, <2>10 DEF RegistryOK
  <2>12. Later(f, g)
    BY <1>1, <2>5, <2>6, <2>9 DEF Later, n
  <2>13. \A j \in 1..n : f.all[j].pattern # p => a[j] = f.all[j]
    BY <2>1, <2>6
  <2> QED
    BY <1>4, <2>5, <2>6, <2>7, <2>11, <2>12, <2>13 DEF n, g
<1> QED
  BY <1>1, <1>2, <1>3, <1>4

LEMMA LaterLemma ==
    ASSUME NEW f, NEW g, NEW h, f.all \in Seq(Feed), g.all \in Seq(Feed), h.all \in Seq(Feed),
           Later(f, g), Later(g, h)
    PROVE  Later(f, h)
<1>1. Len(f.all) \in Nat /\ Len(g.all) \in Nat /\ Len(h.all) \in Nat
  BY LenProperties
<1> QED
  BY <1>1 DEF Later

-----------------------------------------------------------------------------
(* Types *)

Call ==
    {Idle}
    \cup [op : {"boot", "add", "update"}, at : {"starting"}, pattern : Patterns, sup : Nat]
    \cup [op : {"add", "update"}, at : {"create"}, pattern : Patterns, sup : {0}]
    \cup [op : {"remove", "update"}, at : {"stopping"}, pattern : Patterns, sup : {0}]

(* The orchestrator's session has the rows it works on. *)
RowsOK ==
    /\ row \in [Strategies -> Rows \cup {NoRow}] /\ session \in [Strategies -> Rows \cup {NoRow}]
    /\ locked \subseteq Strategies
    /\ \A s \in Strategies : Holds(s) \/ s \in locked => session[s] \in Rows

CallsOK ==
    /\ call \in [Strategies -> Call] /\ booting \in Seq(Strategies)
    /\ \A s \in Strategies : call[s].at = "starting" => call[s].sup \in 1..Len(feeds.all)
    /\ \A s \in Strategies : call[s].at = "stopping" => runner[s] # NoRunner
    /\ ~up => booting = <<>> /\ \A s \in Strategies : call[s] = Idle /\ runner[s] = NoRunner

RunnersOK ==
    /\ runner \in [Strategies -> Runner]
    /\ \A s \in Strategies : runner[s] = NoRunner \/ runner[s].sup \in 1..Len(feeds.all)

(* While it boots, the supervisors are those of the enabled strategies.    *)
BootingOK ==
    booting # <<>> =>
        /\ \A s \in ToSet(booting) : feeds.of[session[s].pattern] # 0
        /\ \A s \in Strategies : call[s] = Idle \/ call[s].op = "boot"

(* A strategy has a row when a command for it is stored. *)
CommandsOK ==
    \A i \in DOMAIN commands :
        commands[i].request.type \in {"add", "remove"} => row[commands[i].request.strategy] # NoRow

OrchestratorTypes == RowsOK /\ RegistryOK(feeds) /\ CallsOK /\ RunnersOK /\ BootingOK
TInv == OrchestratorTypes /\ CommandsOK

(* A step of the orchestrator for one strategy: what its session sees of   *)
(* it, what it is doing for it, its runner.                                *)
Step(s, seen, c, r) ==
    /\ session' = [session EXCEPT ![s] = seen] /\ locked' \in {locked, locked \cup {s}}
    /\ call' = [call EXCEPT ![s] = c] /\ runner' = [runner EXCEPT ![s] = r]
    /\ up /\ UNCHANGED <<row, up>>

LEMMA RowsLemma ==
    /\ NoRow \notin Rows /\ NoRow.desired \notin States /\ Idle.at = "none" /\ Idle.op = "none"
    /\ NoRunner \in Runner /\ Idle \in Call
    /\ \A seen \in Rows, st \in States :
          /\ Written(seen, st) \in Rows
          /\ Written(seen, st).actual = st /\ Written(seen, st).pattern = seen.pattern
BY DEF NoRow, Rows, States, Idle, NoRunner, Runner, Call, Written

LEMMA StepLemma ==
    ASSUME RowsOK, CallsOK, RunnersOK, NEW s \in Strategies, NEW seen, NEW c, NEW r, Step(s, seen, c, r)
    PROVE  /\ session'[s] = seen /\ call'[s] = c /\ runner'[s] = r
           /\ \A t \in Strategies \ {s} :
                 session'[t] = session[t] /\ call'[t] = call[t] /\ runner'[t] = runner[t]
BY DEF RowsOK, CallsOK, RunnersOK, Step

LEMMA TypesOfStep ==
    ASSUME OrchestratorTypes, NEW s \in Strategies, NEW seen \in Rows, NEW c \in Call, NEW r \in Runner,
           Step(s, seen, c, r), RegistryOK(feeds'), Later(feeds, feeds'),
           r = NoRunner \/ r.sup \in 1..Len(feeds'.all),
           c.at = "starting" => c.sup \in 1..Len(feeds'.all),
           c.at = "stopping" => r # NoRunner,
           booting' \in Seq(Strategies), ToSet(booting') \subseteq ToSet(booting),
           booting' # <<>> =>
              booting # <<>> /\ UNCHANGED feeds /\ seen.pattern = session[s].pattern
              /\ (c = Idle \/ c.op = "boot")
    PROVE  OrchestratorTypes'
<1>1. /\ RowsOK /\ CallsOK /\ RunnersOK /\ BootingOK /\ RegistryOK(feeds)
      /\ Len(feeds.all) \in Nat /\ Len(feeds'.all) \in Nat /\ Len(feeds.all) <= Len(feeds'.all)
  BY LenProperties DEF OrchestratorTypes, RegistryOK, Registry, Later
<1>2. /\ session'[s] = seen /\ call'[s] = c /\ runner'[s] = r
      /\ \A t \in Strategies \ {s} :
            session'[t] = session[t] /\ call'[t] = call[t] /\ runner'[t] = runner[t]
  BY <1>1, StepLemma
<1>3. RowsOK'
  <2>1. row' = row /\ locked' \subseteq Strategies /\ session' \in [Strategies -> Rows \cup {NoRow}]
    BY <1>1 DEF RowsOK, Step
  <2>2. ASSUME NEW t \in Strategies, Holds(t)' \/ t \in locked' PROVE session'[t] \in Rows
    <3>1. CASE t = s
      BY <1>2, <3>1
    <3>2. CASE t # s
      <4>1. t \in locked' => t \in locked
        BY <3>2 DEF Step
      <4>2. Holds(t)' => Holds(t)
        BY <1>2, <3>2 DEF Holds, NoRunner, Idle
      <4> QED
        BY <1>1, <1>2, <2>2, <3>2, <4>1, <4>2 DEF RowsOK
    <3> QED
      BY <3>1, <3>2
  <2> QED
    BY <1>1, <2>1, <2>2 DEF RowsOK
<1>4. CallsOK'
  <2>1. call' \in [Strategies -> Call]
    BY <1>1 DEF CallsOK, Step
  <2>2. ASSUME NEW t \in Strategies
        PROVE  /\ call'[t].at = "starting" => call'[t].sup \in 1..Len(feeds'.all)
               /\ call'[t].at = "stopping" => runner'[t] # NoRunner
    <3>1. CASE t = s
      BY <1>2, <3>1
    <3>2. CASE t # s
      <4>1. call'[t] = call[t] /\ runner'[t] = runner[t]
        BY <1>2, <3>2
      <4> QED
        BY <1>1, <4>1 DEF CallsOK
    <3> QED
      BY <3>1, <3>2
  <2>3. up'
    BY DEF Step
  <2> QED
    BY <2>1, <2>2, <2>3 DEF CallsOK, NoRunner
<1>5. RunnersOK'
  <2>1. runner' \in [Strategies -> Runner]
    BY <1>1 DEF RunnersOK, Step
  <2>2. ASSUME NEW t \in Strategies
        PROVE  runner'[t] = NoRunner \/ runner'[t].sup \in 1..Len(feeds'.all)
    <3>1. CASE t = s
      BY <1>2, <3>1
    <3>2. CASE t # s
      <4>1. runner'[t] = runner[t]
        BY <1>2, <3>2
      <4> QED
        BY <1>1, <4>1 DEF RunnersOK
    <3> QED
      BY <3>1, <3>2
  <2> QED
    BY <2>1, <2>2 DEF RunnersOK, NoRunner
<1>6. BootingOK'
  <2> SUFFICES ASSUME booting' # <<>>
               PROVE  /\ \A t \in ToSet(booting') : feeds'.of[session'[t].pattern] # 0
                      /\ \A t \in Strategies : call'[t] = Idle \/ call'[t].op = "boot"
    BY DEF BootingOK, Idle
  <2>1. /\ UNCHANGED feeds /\ seen.pattern = session[s].pattern /\ (c = Idle \/ c.op = "boot")
        /\ \A t \in ToSet(booting) : feeds.of[session[t].pattern] # 0
        /\ \A t \in Strategies : call[t] = Idle \/ call[t].op = "boot"
    BY <1>1 DEF BootingOK
  <2>2. ToSet(booting') \subseteq Strategies
    BY ElementOfSeq, LenProperties DEF ToSet
  <2>3. \A t \in Strategies : session'[t].pattern = session[t].pattern
    BY <1>2, <2>1
  <2> QED
    BY <1>2, <2>1, <2>2, <2>3
<1> QED
  BY <1>3, <1>4, <1>5, <1>6 DEF OrchestratorTypes

(* What the start of a runner comes to. *)
Begun(s, op, seen, sup, new, c, r) ==
    /\ new \in Rows /\ new.pattern = seen.pattern
    /\ \/ c = Idle /\ r = [sup |-> sup, running |-> TRUE, evaluating |-> TRUE]
       \/ /\ c = [op |-> op, at |-> "starting", pattern |-> seen.pattern, sup |-> sup]
          /\ r = runner[s]
       \/ c = Idle /\ r = runner[s] /\ ~CanTransition(seen.actual, "STARTING")

LEMMA StartRunnerLemma ==
    ASSUME RowsOK, CallsOK, RunnersOK, NEW s \in Strategies, NEW op, NEW seen \in Rows, NEW sup,
           StartRunner(s, op, seen, sup), up, UNCHANGED <<row, up>>
    PROVE  \E new, c, r : Begun(s, op, seen, sup, new, c, r) /\ Step(s, new, c, r)
<1>1. runner = [runner EXCEPT ![s] = runner[s]]
  BY DEF RunnersOK
<1>2. \A st \in States : Written(seen, st) \in Rows /\ Written(seen, st).pattern = seen.pattern
  BY RowsLemma
<1>3. CASE seen.actual = "RUNNING" /\ Keep(s, seen) /\ Started(s, sup, TRUE)
  <2> DEFINE r == [sup |-> sup, running |-> TRUE, evaluating |-> TRUE]
  <2>1. Begun(s, op, seen, sup, seen, Idle, r)
    BY DEF Begun
  <2>2. Step(s, seen, Idle, r)
    BY <1>3 DEF Step, Keep, Started, Return
  <2> QED
    BY <2>1, <2>2
<1>4. CASE /\ seen.actual # "RUNNING" /\ CanTransition(seen.actual, "STARTING")
           /\ Flush(s, Written(seen, "STARTING"))
           /\ Wait(s, op, "starting", seen.pattern, sup) /\ UNCHANGED runner
  <2> DEFINE c == [op |-> op, at |-> "starting", pattern |-> seen.pattern, sup |-> sup]
  <2>1. Begun(s, op, seen, sup, Written(seen, "STARTING"), c, runner[s])
    BY <1>2 DEF Begun, States
  <2>2. Step(s, Written(seen, "STARTING"), c, runner[s])
    BY <1>1, <1>4 DEF Step, Flush, Wait
  <2> QED
    BY <2>1, <2>2
<1>5. CASE /\ ~CanTransition(seen.actual, "STARTING") /\ seen.actual # "RUNNING"
           /\ IF CanTransition(seen.actual, "ERROR") THEN Flush(s, Written(seen, "ERROR"))
                                                     ELSE Keep(s, seen)
           /\ Return(s) /\ UNCHANGED runner
  <2>1. CASE CanTransition(seen.actual, "ERROR")
    <3>1. Begun(s, op, seen, sup, Written(seen, "ERROR"), Idle, runner[s])
      BY <1>2, <1>5 DEF Begun, States
    <3>2. Step(s, Written(seen, "ERROR"), Idle, runner[s])
      BY <1>1, <1>5, <2>1 DEF Step, Flush, Return
    <3> QED
      BY <3>1, <3>2
  <2>2. CASE ~CanTransition(seen.actual, "ERROR")
    <3>1. Begun(s, op, seen, sup, seen, Idle, runner[s])
      BY <1>5 DEF Begun
    <3>2. Step(s, seen, Idle, runner[s])
      BY <1>1, <1>5, <2>2 DEF Step, Keep, Return
    <3> QED
      BY <3>1, <3>2
  <2> QED
    BY <2>1, <2>2
<1> QED
  BY <1>3, <1>4, <1>5 DEF StartRunner

(* The types of a start, given those of the registry it leaves. *)
LEMMA TypesOfStart ==
    ASSUME OrchestratorTypes, NEW s \in Strategies, NEW op \in {"boot", "add", "update"},
           NEW seen \in Rows, NEW sup,
           StartRunner(s, op, seen, sup), up, UNCHANGED <<row, up>>,
           RegistryOK(feeds'), Later(feeds, feeds'), sup \in 1..Len(feeds'.all),
           booting' \in Seq(Strategies), ToSet(booting') \subseteq ToSet(booting),
           booting' # <<>> =>
              booting # <<>> /\ UNCHANGED feeds /\ seen.pattern = session[s].pattern /\ op = "boot"
    PROVE  OrchestratorTypes'
<1>1. /\ RowsOK /\ CallsOK /\ RunnersOK
      /\ Len(feeds.all) \in Nat /\ Len(feeds'.all) \in Nat /\ Len(feeds.all) <= Len(feeds'.all)
  BY LenProperties DEF OrchestratorTypes, RegistryOK, Registry, Later
<1>2. PICK new, c, r : Begun(s, op, seen, sup, new, c, r) /\ Step(s, new, c, r)
  BY <1>1, StartRunnerLemma
<1>3. /\ runner[s] \in Runner /\ (runner[s] = NoRunner \/ runner[s].sup \in 1..Len(feeds'.all))
  BY <1>1 DEF RunnersOK
<1>4. seen.pattern \in Patterns
  BY DEF Rows
<1>5. r \in Runner /\ (r = NoRunner \/ r.sup \in 1..Len(feeds'.all))
  <2> DEFINE e == [sup |-> sup, running |-> TRUE, evaluating |-> TRUE]
  <2>1. e \in Runner /\ e.sup = sup
    BY DEF Runner
  <2>2. r = e \/ r = runner[s]
    BY <1>2 DEF Begun
  <2> HIDE DEF e
  <2> QED
    BY <1>3, <2>1, <2>2
<1>6. /\ c \in Call /\ c.at # "stopping" /\ (c.at = "starting" => c.sup \in 1..Len(feeds'.all))
      /\ c = Idle \/ c.op = op
  BY <1>1, <1>2, <1>4 DEF Begun, Call, Idle
<1>7. new \in Rows /\ new.pattern = seen.pattern
  BY <1>2 DEF Begun
<1> QED
  BY <1>2, <1>5, <1>6, <1>7, TypesOfStep

-----------------------------------------------------------------------------
(* Boot *)

LEMMA OrderLemma ==
    ASSUME NEW P, IsFiniteSet(P), NEW q \in SetToSeqs(P)
    PROVE  /\ q \in Seq(P) /\ DOMAIN q = 1..Len(q) /\ ToSet(q) = P
           /\ \A i, j \in DOMAIN q : q[i] = q[j] => i = j
<1> DEFINE n == Cardinality(P)
<1>1. n \in Nat
  BY FS_CardinalityType
<1>2. q \in [1..n -> P] /\ \A i, j \in 1..n : i # j => q[i] # q[j]
  BY DEF SetToSeqs
<1>3. IsFiniteSet(1..n) /\ Cardinality(1..n) = n
  BY <1>1, FS_Interval
<1> HIDE DEF n
<1>4. q \in Injection(1..n, P)
  BY <1>2 DEF Injection, IsInjective
<1>5. q \in Surjection(1..n, P)
  BY <1>3, <1>4, FS_Injection DEF n
<1>6. q \in Seq(P) /\ DOMAIN q = 1..Len(q) /\ DOMAIN q = 1..n
  <2>1. q \in Seq(P)
    BY <1>1, <1>2, SeqDef
  <2> QED
    BY <1>2, <2>1, LenProperties
<1>7. ToSet(q) = P
  BY <1>2, <1>5 DEF Surjection, ToSet
<1> QED
  BY <1>2, <1>6, <1>7

LEMMA EnteredAllLemma ==
    ASSUME NEW P \in SUBSET Patterns, IsFiniteSet(P), NEW ps \in SetToSeqs(P)
    PROVE  /\ RegistryOK(EnteredAll(ps))
           /\ \A p \in Patterns : EnteredAll(ps).refs[p] = IF p \in P THEN 1 ELSE 0
           /\ \A i \in 1..Len(EnteredAll(ps).all) : EnteredAll(ps).all[i].running = TRUE
<1> DEFINE f == EnteredAll(ps)
           E(i) == [pattern |-> ps[i], running |-> TRUE]
<1>1. ps \in Seq(P) /\ DOMAIN ps = 1..Len(ps) /\ ToSet(ps) = P /\ Len(ps) \in Nat
  BY OrderLemma, LenProperties
<1>2. /\ f.all = [i \in 1..Len(ps) |-> E(i)]
      /\ f.of = [p \in Patterns |-> IF p \in P THEN CHOOSE i \in 1..Len(ps) : ps[i] = p ELSE 0]
      /\ f.refs = [p \in Patterns |-> IF p \in P THEN 1 ELSE 0]
      /\ f = [all |-> f.all, of |-> f.of, refs |-> f.refs]
  BY <1>1 DEF EnteredAll
<1>3. \A i \in 1..Len(ps) : ps[i] \in P /\ E(i) \in Feed /\ E(i).pattern = ps[i] /\ E(i).running = TRUE
  BY <1>1, ElementOfSeq DEF Feed
<1> HIDE DEF f, E
<1>4. f.all \in Seq(Feed) /\ Len(f.all) = Len(ps) /\ \A i \in 1..Len(ps) : f.all[i] = E(i)
  <2>1. f.all \in [1..Len(ps) -> Feed]
    BY <1>2, <1>3
  <2>2. f.all \in Seq(Feed)
    BY <1>1, <2>1, SeqDef
  <2>3. DOMAIN f.all = 1..Len(f.all) /\ Len(f.all) \in Nat
    BY <2>2, LenProperties
  <2> QED
    BY <1>1, <1>2, <2>1, <2>2, <2>3
<1>5. \A p \in P : f.of[p] \in 1..Len(ps) /\ ps[f.of[p]] = p
  <2> SUFFICES ASSUME NEW p \in P PROVE f.of[p] \in 1..Len(ps) /\ ps[f.of[p]] = p
    OBVIOUS
  <2>1. \E i \in 1..Len(ps) : ps[i] = p
    BY <1>1 DEF ToSet
  <2>2. f.of[p] = CHOOSE i \in 1..Len(ps) : ps[i] = p
    BY <1>2
  <2> QED
    BY <2>1, <2>2
<1>6. \A p \in Patterns \ P : f.of[p] = 0 /\ f.refs[p] = 0
  BY <1>2
<1>7. \A p \in P : f.refs[p] = 1
  BY <1>2
<1>8. f \in Registry
  <2>1. f.of \in [Patterns -> Nat]
    <3>1. \A p \in Patterns : f.of[p] \in Nat
      BY <1>1, <1>5, <1>6
    <3> QED
      BY <1>2, <3>1
  <2>2. f.refs \in [Patterns -> Nat]
    BY <1>2
  <2> QED
    BY <1>2, <1>4, <2>1, <2>2 DEF Registry
<1>9. ASSUME NEW p \in Patterns
      PROVE  /\ f.of[p] # 0 <=> f.refs[p] > 0
             /\ f.of[p] # 0 => f.of[p] \in 1..Len(f.all) /\ f.all[f.of[p]].pattern = p
  <2>1. CASE p \in P
    <3>1. f.of[p] \in 1..Len(ps) /\ ps[f.of[p]] = p /\ f.refs[p] = 1
      BY <1>5, <1>7, <2>1
    <3>2. f.all[f.of[p]].pattern = p
      BY <1>3, <1>4, <3>1
    <3> QED
      BY <1>1, <1>4, <3>1, <3>2
  <2>2. CASE p \notin P
    BY <1>6, <2>2
  <2> QED
    BY <2>1, <2>2
<1>10. RegistryOK(f)
  BY <1>8, <1>9 DEF RegistryOK
<1>11. \A i \in 1..Len(f.all) : f.all[i].running = TRUE
  BY <1>3, <1>4
<1> QED
  BY <1>2, <1>10, <1>11 DEF f

LEMMA EnabledLemma ==
    ASSUME RowsOK
    PROVE  /\ IsFiniteSet(Enabled) /\ \A s \in Enabled : s \in Strategies /\ row[s] \in Rows
           /\ IsFiniteSet(NeededAtBoot) /\ NeededAtBoot \subseteq Patterns
<1>1. IsFiniteSet(Enabled)
  BY OrchestratorAssumption, FS_Subset DEF Enabled
<1>2. ASSUME NEW s \in Enabled PROVE s \in Strategies /\ row[s] \in Rows /\ row[s].pattern \in Patterns
  <2>1. s \in Strategies /\ row[s] # NoRow
    BY DEF Enabled, NoRow
  <2>2. row[s] \in Rows
    BY <2>1 DEF RowsOK
  <2> QED
    BY <2>1, <2>2 DEF Rows
<1>3. [s \in Enabled |-> row[s].pattern] \in Surjection(Enabled, NeededAtBoot)
  BY DEF Surjection, NeededAtBoot
<1>4. IsFiniteSet(NeededAtBoot)
  BY <1>1, <1>3, FS_Surjection
<1> QED
  BY <1>1, <1>2, <1>4 DEF NeededAtBoot

LEMMA EmptyRegistry ==
    /\ RegistryOK(NoFeeds) /\ \A p \in Patterns : NoFeeds.of[p] = 0 /\ NoFeeds.refs[p] = 0
    /\ Len(NoFeeds.all) = 0 /\ ToSet(<<>>) = {} /\ <<>> \in Seq(Strategies)
<1>1. <<>> \in Seq(Feed) /\ <<>> \in Seq(Strategies) /\ Len(<<>>) = 0 /\ DOMAIN <<>> = {}
  BY EmptySeq
<1> QED
  BY <1>1 DEF RegistryOK, Registry, NoFeeds, ToSet

LEMMA TypesOfBoot ==
    ASSUME OrchestratorTypes, Boot
    PROVE  OrchestratorTypes'
<1>1. /\ RowsOK /\ CallsOK /\ RunnersOK /\ RegistryOK(feeds) /\ ~up
  BY DEF OrchestratorTypes, Boot
<1>2. /\ IsFiniteSet(Enabled) /\ \A s \in Enabled : s \in Strategies /\ row[s] \in Rows
      /\ IsFiniteSet(NeededAtBoot) /\ NeededAtBoot \subseteq Patterns
  BY <1>1, EnabledLemma
<1>3. PICK ps \in SetToSeqs(NeededAtBoot) : feeds' = EnteredAll(ps)
  BY DEF Boot
<1>4. /\ RegistryOK(feeds') /\ \A p \in Patterns : feeds'.refs[p] = IF p \in NeededAtBoot THEN 1 ELSE 0
  <2>1. /\ RegistryOK(EnteredAll(ps))
        /\ \A p \in Patterns : EnteredAll(ps).refs[p] = IF p \in NeededAtBoot THEN 1 ELSE 0
    BY <1>2, EnteredAllLemma
  <2> QED
    BY <1>3, <2>1, Zenon
<1>5. /\ booting' \in Seq(Enabled) /\ ToSet(booting') = Enabled
  BY <1>2, OrderLemma DEF Boot
<1>6. /\ session' = [s \in Strategies |-> IF s \in Enabled THEN row[s] ELSE session[s]]
      /\ up' = TRUE /\ UNCHANGED <<row, locked, call, runner>>
      /\ \A s \in Strategies : call[s] = Idle /\ runner[s] = NoRunner
  BY <1>1 DEF Boot, CallsOK
<1>7. booting' \in Seq(Strategies)
  BY <1>2, <1>5, SeqMonotonic
<1>8. RowsOK'
  <2>1. session' \in [Strategies -> Rows \cup {NoRow}]
    BY <1>1, <1>2, <1>6 DEF RowsOK
  <2>2. ASSUME NEW s \in Strategies, Holds(s)' \/ s \in locked' PROVE session'[s] \in Rows
    <3>1. s \in Enabled \/ s \in locked
      BY <1>5, <1>6, <2>2 DEF Holds, NoRunner, Idle
    <3> QED
      BY <1>1, <1>2, <1>6, <3>1 DEF RowsOK
  <2> QED
    BY <1>1, <1>6, <2>1, <2>2 DEF RowsOK
<1>9. CallsOK' /\ RunnersOK'
  BY <1>1, <1>6, <1>7 DEF CallsOK, RunnersOK, Idle, NoRunner
<1>10. BootingOK'
  <2>1. ASSUME NEW s \in ToSet(booting') PROVE feeds'.of[session'[s].pattern] # 0
    <3>1. /\ s \in Strategies /\ session'[s] = row[s] /\ row[s].pattern \in NeededAtBoot
      BY <1>2, <1>5, <1>6 DEF NeededAtBoot
    <3> QED
      BY <1>2, <1>4, <3>1 DEF RegistryOK
  <2> QED
    BY <1>6, <2>1 DEF BootingOK, Idle
<1> QED
  BY <1>4, <1>8, <1>9, <1>10 DEF OrchestratorTypes

LEMMA TailLemma ==
    ASSUME NEW q \in Seq(Strategies), q # <<>>
    PROVE  /\ Head(q) \in Strategies /\ Head(q) \in ToSet(q)
           /\ Tail(q) \in Seq(Strategies) /\ ToSet(Tail(q)) \subseteq ToSet(q)
           /\ \A t \in ToSet(q) : t = Head(q) \/ t \in ToSet(Tail(q))
           /\ (\A i, j \in DOMAIN q : q[i] = q[j] => i = j) =>
                 /\ Head(q) \notin ToSet(Tail(q))
                 /\ \A i, j \in DOMAIN Tail(q) : Tail(q)[i] = Tail(q)[j] => i = j
<1>1. /\ Len(q) \in Nat \ {0} /\ Head(q) = q[1]
      /\ Tail(q) \in Seq(Strategies) /\ Len(Tail(q)) = Len(q) - 1
      /\ \A k \in 1..Len(Tail(q)) : Tail(q)[k] = q[k + 1]
  BY EmptySeq, HeadTailProperties
<1>2. DOMAIN q = 1..Len(q) /\ DOMAIN Tail(q) = 1..Len(q) - 1 /\ 1 \in DOMAIN q
  BY <1>1, LenProperties
<1>3. Head(q) \in Strategies
  BY <1>1, <1>2, ElementOfSeq
<1>4. \A k \in DOMAIN Tail(q) : k + 1 \in DOMAIN q /\ k + 1 # 1 /\ Tail(q)[k] = q[k + 1] /\ k \in Nat
  BY <1>1, <1>2
<1>5. ASSUME NEW t \in ToSet(q), t # Head(q) PROVE t \in ToSet(Tail(q))
  <2>1. PICK i \in 1..Len(q) : q[i] = t
    BY <1>2 DEF ToSet
  <2>2. i # 1
    BY <1>1, <1>5, <2>1
  <2> DEFINE k == i - 1
  <2>3. k \in DOMAIN Tail(q) /\ k + 1 = i
    BY <1>1, <1>2, <2>1, <2>2
  <2> HIDE DEF k
  <2>4. Tail(q)[k] = t
    BY <1>4, <2>1, <2>3
  <2> QED
    BY <2>3, <2>4 DEF ToSet
<1>6. ASSUME \A i, j \in DOMAIN q : q[i] = q[j] => i = j
      PROVE  /\ Head(q) \notin ToSet(Tail(q))
             /\ \A i, j \in DOMAIN Tail(q) : Tail(q)[i] = Tail(q)[j] => i = j
  <2>1. \A k \in DOMAIN Tail(q) : Tail(q)[k] # q[1]
    BY <1>2, <1>4, <1>6
  <2>2. ASSUME NEW i \in DOMAIN Tail(q), NEW j \in DOMAIN Tail(q), Tail(q)[i] = Tail(q)[j]
        PROVE  i = j
    <3>1. i + 1 = j + 1
      BY <1>4, <1>6, <2>2
    <3> QED
      BY <1>4, <3>1
  <2> QED
    BY <1>1, <2>1, <2>2 DEF ToSet
<1>7. ToSet(Tail(q)) \subseteq ToSet(q)
  BY <1>4 DEF ToSet
<1> QED
  BY <1>1, <1>2, <1>3, <1>5, <1>6, <1>7 DEF ToSet

LEMMA TypesOfBootNext ==
    ASSUME OrchestratorTypes, BootNext
    PROVE  OrchestratorTypes'
<1> DEFINE s == Head(booting)
           sup == feeds.of[session[s].pattern]
<1>1. /\ RowsOK /\ CallsOK /\ RunnersOK /\ BootingOK /\ RegistryOK(feeds)
      /\ booting # <<>> /\ booting' = Tail(booting) /\ booting \in Seq(Strategies)
      /\ StartRunner(s, "boot", session[s], sup) /\ UNCHANGED <<row, up, feeds>>
  BY DEF OrchestratorTypes, CallsOK, BootNext
<1>2. /\ s \in Strategies /\ s \in ToSet(booting)
      /\ booting' \in Seq(Strategies) /\ ToSet(booting') \subseteq ToSet(booting)
  BY <1>1, TailLemma
<1> HIDE DEF s
<1>3. session[s] \in Rows /\ session[s].pattern \in Patterns
  <2>1. session[s] \in Rows
    BY <1>1, <1>2 DEF RowsOK, Holds
  <2> QED
    BY <2>1 DEF Rows
<1>4. sup \in 1..Len(feeds.all)
  <2>1. sup # 0
    BY <1>1, <1>2 DEF BootingOK
  <2> QED
    BY <1>1, <1>3, <2>1 DEF RegistryOK
<1> HIDE DEF sup
<1>5. up
  BY <1>1 DEF CallsOK
<1>6. Later(feeds, feeds') /\ RegistryOK(feeds')
  <2>1. Len(feeds.all) \in Nat
    BY <1>1, LenProperties DEF RegistryOK, Registry
  <2> QED
    BY <1>1, <2>1 DEF Later
<1>7. sup \in 1..Len(feeds'.all)
  BY <1>1, <1>4
<1> QED
  BY <1>1, <1>2, <1>3, <1>5, <1>6, <1>7, TypesOfStart

-----------------------------------------------------------------------------
(* Calls *)

LEMMA SeenLemma ==
    ASSUME RowsOK, NEW s \in Strategies, Seen(s).desired = "RUNNING"
    PROVE  Seen(s) \in Rows
<1>1. NoRow.desired # "RUNNING"
  BY DEF NoRow
<1> QED
  BY <1>1 DEF RowsOK, Seen

LEMMA PatternLemma ==
    ASSUME OrchestratorTypes, NEW s \in Strategies, runner[s] # NoRunner
    PROVE  /\ session[s] \in Rows /\ runner[s].sup \in 1..Len(feeds.all)
           /\ PatternOf(s) = feeds.all[runner[s].sup].pattern /\ PatternOf(s) \in Patterns
<1>1. runner[s].sup \in 1..Len(feeds.all) /\ session[s] \in Rows
  BY DEF OrchestratorTypes, RunnersOK, RowsOK, Holds
<1>2. feeds.all[runner[s].sup] \in Feed
  BY <1>1, ElementOfSeq DEF OrchestratorTypes, RegistryOK, Registry
<1> QED
  BY <1>1, <1>2 DEF PatternOf, Feed

(* What a call that holds its strategy is made of. *)
LEMMA CallLemma ==
    ASSUME OrchestratorTypes, NEW s \in Strategies, call[s].at # "none"
    PROVE  /\ call[s] # Idle /\ up /\ session[s] \in Rows /\ session[s].pattern \in Patterns
           /\ call[s].pattern \in Patterns
           /\ call[s].at = "create" => call[s].op \in {"add", "update"}
           /\ call[s].at = "starting" => call[s].op \in {"boot", "add", "update"}
           /\ call[s].at = "stopping" => call[s].op \in {"remove", "update"} /\ runner[s] # NoRunner
           /\ (booting # <<>> => call[s].op = "boot")
<1>1. call[s] # Idle
  BY DEF Idle
<1>2. call[s] \in Call
  BY DEF OrchestratorTypes, CallsOK
<1>3. session[s] \in Rows
  BY <1>1 DEF OrchestratorTypes, RowsOK, Holds
<1>4. session[s].pattern \in Patterns
  BY <1>3 DEF Rows
<1>5. up /\ (call[s].at = "stopping" => runner[s] # NoRunner) /\ (booting # <<>> => call[s].op = "boot")
  BY <1>1 DEF OrchestratorTypes, CallsOK, BootingOK
<1> QED
  BY <1>1, <1>2, <1>3, <1>4, <1>5 DEF Call

LEMMA SelfLater ==
    ASSUME NEW f, RegistryOK(f)
    PROVE  Later(f, f) /\ Len(f.all) \in Nat
<1>1. Len(f.all) \in Nat
  BY LenProperties DEF RegistryOK, Registry
<1> QED
  BY <1>1 DEF Later

(* A start with the supervisor of the pattern the session sees, after the  *)
(* reference to another may have been given back.                          *)
LEMMA TypesOfAcquire ==
    ASSUME OrchestratorTypes, NEW s \in Strategies, NEW op \in {"add", "update"}, NEW seen \in Rows, NEW f,
           RegistryOK(f), Later(feeds, f), AcquireAndStart(s, op, seen, f),
           up, booting = <<>>, UNCHANGED <<row, up, booting>>
    PROVE  OrchestratorTypes'
<1> DEFINE p == seen.pattern
<1>1. /\ RowsOK /\ CallsOK /\ RunnersOK /\ RegistryOK(feeds) /\ booting \in Seq(Strategies)
  BY DEF OrchestratorTypes, CallsOK
<1>2. p \in Patterns
  BY DEF Rows
<1>3. CASE f.of[p] # 0 /\ feeds' = Referenced(f, p) /\ StartRunner(s, op, seen, f.of[p])
  <2>1. RegistryOK(feeds') /\ Later(f, feeds') /\ feeds'.all = f.all
    BY <1>2, <1>3, ReferencedLemma
  <2>2. Later(feeds, feeds') /\ f.of[p] \in 1..Len(feeds'.all)
    <3>1. feeds.all \in Seq(Feed) /\ f.all \in Seq(Feed) /\ feeds'.all \in Seq(Feed)
      BY <1>1, <2>1 DEF RegistryOK, Registry
    <3>2. f.of[p] \in 1..Len(f.all)
      BY <1>2, <1>3 DEF RegistryOK
    <3> QED
      BY <2>1, <3>1, <3>2, LaterLemma
  <2>3. StartRunner(s, op, seen, f.of[p]) /\ booting' = <<>> /\ booting' = booting
    BY <1>3
  <2> HIDE DEF p
  <2> QED
    BY <1>1, <2>1, <2>2, <2>3, TypesOfStart
<1>4. CASE f.of[p] = 0 /\ feeds' = f /\ Keep(s, seen) /\ Wait(s, op, "create", p, 0) /\ UNCHANGED runner
  <2> DEFINE c == [op |-> op, at |-> "create", pattern |-> p, sup |-> 0]
  <2>1. runner = [runner EXCEPT ![s] = runner[s]]
    BY <1>1 DEF RunnersOK
  <2>2. Step(s, seen, c, runner[s])
    BY <1>4, <2>1 DEF Step, Keep, Wait
  <2>3. c \in Call /\ c.at = "create"
    BY <1>2 DEF Call
  <2>4. runner[s] \in Runner /\ (runner[s] = NoRunner \/ runner[s].sup \in 1..Len(feeds'.all))
    <3>1. Len(feeds.all) <= Len(f.all) /\ Len(feeds.all) \in Nat /\ Len(f.all) \in Nat
      BY <1>1, SelfLater DEF Later
    <3> QED
      BY <1>1, <1>4, <3>1 DEF RunnersOK
  <2> HIDE DEF c, p
  <2>5. RegistryOK(feeds') /\ Later(feeds, feeds')
    BY <1>4
  <2> QED
    BY <1>1, <2>2, <2>3, <2>4, <2>5, TypesOfStep
<1> QED
  BY <1>3, <1>4 DEF AcquireAndStart

LEMMA TypesOfAdd ==
    ASSUME OrchestratorTypes, NEW s \in Strategies, AddStrategy(s)
    PROVE  OrchestratorTypes'
<1>1. /\ up /\ booting = <<>> /\ AcquireAndStart(s, "add", Seen(s), feeds)
      /\ UNCHANGED <<row, up, booting>> /\ Seen(s).desired = "RUNNING"
  BY DEF AddStrategy, MayCall
<1>2. Seen(s) \in Rows
  BY <1>1, SeenLemma DEF OrchestratorTypes
<1>3. RegistryOK(feeds) /\ Later(feeds, feeds)
  BY SelfLater DEF OrchestratorTypes
<1> QED
  BY <1>1, <1>2, <1>3, TypesOfAcquire

LEMMA TypesOfSupervisorStarted ==
    ASSUME OrchestratorTypes, NEW s \in Strategies, SupervisorStarted(s)
    PROVE  OrchestratorTypes'
<1>1. /\ call[s].at = "create" /\ UNCHANGED <<row, up, booting>>
      /\ RowsOK /\ CallsOK /\ RunnersOK /\ RegistryOK(feeds) /\ booting \in Seq(Strategies)
  BY DEF SupervisorStarted, OrchestratorTypes, CallsOK
<1>2. /\ up /\ session[s] \in Rows /\ session[s].pattern \in Patterns
      /\ call[s].op \in {"add", "update"} /\ call[s].pattern \in Patterns /\ booting = <<>>
  BY <1>1, CallLemma
<1>3. CASE /\ feeds' = Entered(feeds, call[s].pattern)
           /\ StartRunner(s, call[s].op, session[s], Len(feeds.all) + 1)
  <2>1. /\ RegistryOK(feeds') /\ Later(feeds, feeds') /\ Len(feeds.all) \in Nat
        /\ Len(feeds'.all) = Len(feeds.all) + 1
    BY <1>1, <1>2, <1>3, EnteredLemma
  <2>2. Len(feeds.all) + 1 \in 1..Len(feeds'.all)
    BY <2>1
  <2> QED
    BY <1>1, <1>2, <1>3, <2>1, <2>2, TypesOfStart
<1>4. CASE Return(s) /\ UNCHANGED <<session, locked, runner, feeds>>
  <2>1. Step(s, session[s], Idle, runner[s])
    BY <1>1, <1>2, <1>4 DEF Step, Return, RowsOK, RunnersOK
  <2>2. RegistryOK(feeds') /\ Later(feeds, feeds')
    BY <1>1, <1>4, SelfLater
  <2>3. runner[s] \in Runner /\ (runner[s] = NoRunner \/ runner[s].sup \in 1..Len(feeds'.all))
    BY <1>1, <1>4 DEF RunnersOK
  <2>4. Idle \in Call /\ Idle.at = "none"
    BY RowsLemma
  <2> QED
    BY <1>1, <1>2, <2>1, <2>2, <2>3, <2>4, TypesOfStep
<1> QED
  BY <1>1, <1>3, <1>4 DEF SupervisorStarted

LEMMA TypesOfRunnerStarted ==
    ASSUME OrchestratorTypes, NEW s \in Strategies, RunnerStarted(s)
    PROVE  OrchestratorTypes'
<1> DEFINE r == [sup |-> call[s].sup, running |-> TRUE, evaluating |-> FALSE]
           new == Written(session[s], "RUNNING")
<1>1. /\ call[s].at = "starting" /\ UNCHANGED <<row, up, booting, feeds>>
      /\ Flush(s, new) /\ Started(s, call[s].sup, FALSE)
      /\ RowsOK /\ CallsOK /\ RunnersOK /\ RegistryOK(feeds) /\ booting \in Seq(Strategies)
  BY DEF RunnerStarted, OrchestratorTypes, CallsOK
<1>2. up /\ session[s] \in Rows
  BY <1>1, CallLemma
<1>3. Step(s, new, Idle, r)
  BY <1>1, <1>2 DEF Step, Flush, Started, Return
<1>4. call[s].sup \in 1..Len(feeds'.all)
  BY <1>1 DEF CallsOK
<1>5. r \in Runner /\ r.sup \in 1..Len(feeds'.all)
  BY <1>4 DEF Runner
<1>6. new \in Rows /\ new.pattern = session[s].pattern /\ Idle \in Call /\ Idle.at = "none"
  BY <1>2, RowsLemma DEF States
<1> HIDE DEF r, new
<1>7. RegistryOK(feeds') /\ Later(feeds, feeds')
  BY <1>1, SelfLater
<1> QED
  BY <1>1, <1>3, <1>5, <1>6, <1>7, TypesOfStep

LEMMA TypesOfStop ==
    ASSUME OrchestratorTypes, NEW s \in Strategies, NEW op \in {"remove", "update"},
           runner[s] # NoRunner, up, booting = <<>>, StopRunner(s, op), UNCHANGED <<row, up, booting>>
    PROVE  OrchestratorTypes'
<1> DEFINE c == [op |-> op, at |-> "stopping", pattern |-> PatternOf(s), sup |-> 0]
           new == Written(session[s], "STOPPING")
<1>1. /\ RowsOK /\ CallsOK /\ RunnersOK /\ RegistryOK(feeds) /\ booting \in Seq(Strategies)
      /\ UNCHANGED <<runner, feeds>>
  BY DEF OrchestratorTypes, CallsOK, StopRunner
<1>2. session[s] \in Rows /\ runner[s].sup \in 1..Len(feeds.all) /\ PatternOf(s) \in Patterns
  BY PatternLemma
<1>3. Step(s, new, c, runner[s])
  BY <1>1 DEF Step, StopRunner, Flush, Wait, RunnersOK
<1>4. c \in Call /\ c.at = "stopping"
  BY <1>2 DEF Call
<1>5. new \in Rows /\ runner[s] \in Runner
  BY <1>1, <1>2, RowsLemma DEF States, RunnersOK
<1> HIDE DEF c, new
<1>6. RegistryOK(feeds') /\ Later(feeds, feeds') /\ feeds' = feeds
  BY <1>1, SelfLater
<1> QED
  BY <1>1, <1>2, <1>3, <1>4, <1>5, <1>6, TypesOfStep

LEMMA TypesOfForget ==
    ASSUME OrchestratorTypes, NEW s \in Strategies, NEW new \in Rows,
           runner[s] # NoRunner, up, booting = <<>>, Forget(s), UNCHANGED <<row, up, booting>>,
           session' = [session EXCEPT ![s] = new], locked' \in {locked, locked \cup {s}}
    PROVE  OrchestratorTypes'
<1>1. /\ RowsOK /\ CallsOK /\ RunnersOK /\ RegistryOK(feeds) /\ booting \in Seq(Strategies)
  BY DEF OrchestratorTypes, CallsOK
<1>2. PatternOf(s) \in Patterns
  BY PatternLemma
<1>3. Step(s, new, Idle, NoRunner)
  BY DEF Step, Forget, Return
<1>4. RegistryOK(feeds') /\ Later(feeds, feeds')
  BY <1>1, <1>2, ReleasedLemma DEF Forget
<1>5. NoRunner \in Runner /\ Idle \in Call /\ Idle.at = "none"
  BY RowsLemma
<1> QED
  BY <1>1, <1>3, <1>4, <1>5, TypesOfStep

LEMMA TypesOfRemove ==
    ASSUME OrchestratorTypes, NEW s \in Strategies, RemoveStrategy(s) \/ Removed(s)
    PROVE  OrchestratorTypes'
<1>1. CASE RemoveStrategy(s)
  <2>1. up /\ booting = <<>> /\ runner[s] # NoRunner /\ UNCHANGED <<row, up, booting>>
    BY <1>1 DEF RemoveStrategy, MayCall
  <2>2. CASE StopRunner(s, "remove")
    BY <2>1, <2>2, TypesOfStop
  <2>3. CASE Forget(s) /\ UNCHANGED <<session, locked>>
    <3>1. session[s] \in Rows /\ session' = [session EXCEPT ![s] = session[s]] /\ locked' = locked
      BY <2>1, <2>3, PatternLemma DEF OrchestratorTypes, RowsOK
    <3> QED
      BY <2>1, <2>3, <3>1, TypesOfForget
  <2> QED
    BY <1>1, <2>2, <2>3 DEF RemoveStrategy
<1>2. CASE Removed(s)
  <2>1. /\ call[s].at = "stopping" /\ call[s].op = "remove" /\ UNCHANGED <<row, up, booting>>
        /\ Flush(s, Written(session[s], "STOPPED")) /\ Forget(s)
    BY <1>2 DEF Removed
  <2>2. up /\ session[s] \in Rows /\ runner[s] # NoRunner /\ booting = <<>>
    BY <2>1, CallLemma
  <2>3. Written(session[s], "STOPPED") \in Rows
    BY <2>2, RowsLemma DEF States
  <2> QED
    BY <2>1, <2>2, <2>3, TypesOfForget DEF Flush
<1> QED
  BY <1>1, <1>2

LEMMA TypesOfUpdate ==
    ASSUME OrchestratorTypes, NEW s \in Strategies, UpdateStrategy(s)
    PROVE  OrchestratorTypes'
<1>1. /\ up /\ booting = <<>> /\ runner[s] # NoRunner /\ UNCHANGED <<row, up, booting>>
      /\ Seen(s).desired = "RUNNING"
  BY DEF UpdateStrategy, MayCall
<1>2. CASE StopRunner(s, "update")
  BY <1>1, <1>2, TypesOfStop
<1>3. CASE AcquireAndStart(s, "update", Seen(s), Released(feeds, PatternOf(s)))
  <2>1. PatternOf(s) \in Patterns /\ Seen(s) \in Rows
    BY <1>1, PatternLemma, SeenLemma DEF OrchestratorTypes
  <2> DEFINE f == Released(feeds, PatternOf(s))
  <2>2. RegistryOK(f) /\ Later(feeds, f)
    BY <2>1, ReleasedLemma DEF OrchestratorTypes
  <2>3. AcquireAndStart(s, "update", Seen(s), f)
    BY <1>3
  <2> HIDE DEF f
  <2> QED
    BY <1>1, <2>1, <2>2, <2>3, TypesOfAcquire
<1> QED
  BY <1>2, <1>3 DEF UpdateStrategy

(* What a migration does once the runner has stopped. *)
LEMMA MigrateLemma ==
    ASSUME OrchestratorTypes, NEW s \in Strategies, Migrate(s)
    PROVE  \E new \in Rows, c \in Call, r \in Runner :
              LET f == Released(feeds, PatternOf(s))
                  p == session[s].pattern
              IN /\ Step(s, new, c, r) /\ UNCHANGED booting /\ new.pattern = p
                 /\ r.sup = runner[s].sup /\ r.running = FALSE
                 /\ c.op = "update" /\ c.pattern = p
                 /\ \/ f.of[p] # 0 /\ feeds' = Referenced(f, p) /\ c.at = "starting" /\ c.sup = f.of[p]
                    \/ f.of[p] = 0 /\ feeds' = f /\ c.at = "create" /\ new.actual = "STOPPED"
<1> DEFINE f == Released(feeds, PatternOf(s))
           p == session[s].pattern
           seen == Written(session[s], "STOPPED")
           r == [sup |-> runner[s].sup, running |-> FALSE, evaluating |-> FALSE]
           stopped == [runner EXCEPT ![s] = [sup |-> @.sup, running |-> FALSE, evaluating |-> FALSE]]
<1>1. /\ call[s].at = "stopping" /\ call[s].op = "update" /\ UNCHANGED <<row, up, booting>>
      /\ RowsOK /\ CallsOK /\ RunnersOK
  BY DEF Migrate, OrchestratorTypes
<1>2. up /\ session[s] \in Rows /\ p \in Patterns
  BY <1>1, CallLemma
<1>3. seen \in Rows /\ seen.actual = "STOPPED" /\ seen.pattern = p
  BY <1>2, RowsLemma DEF States
<1>4. r \in Runner /\ r.sup = runner[s].sup /\ r.running = FALSE
  BY <1>1 DEF RunnersOK, Runner
<1>5. /\ runner' = stopped
      /\ \/ /\ f.of[seen.pattern] # 0 /\ feeds' = Referenced(f, seen.pattern)
            /\ Flush(s, Written(seen, "STARTING"))
            /\ Wait(s, "update", "starting", seen.pattern, f.of[seen.pattern])
         \/ /\ f.of[seen.pattern] = 0 /\ feeds' = f
            /\ Flush(s, seen) /\ Wait(s, "update", "create", seen.pattern, 0)
  BY DEF Migrate
<1>6. stopped = [runner EXCEPT ![s] = r]
  OBVIOUS
<1>7. PatternOf(s) \in Patterns /\ RegistryOK(f)
  <2>1. PatternOf(s) \in Patterns
    BY <1>1, CallLemma, PatternLemma
  <2> QED
    BY <2>1, ReleasedLemma DEF OrchestratorTypes
<1>8. f.of[p] \in Nat
  BY <1>2, <1>7 DEF RegistryOK, Registry
<1> HIDE DEF f, p, seen, r, stopped
<1>9. CASE /\ f.of[p] # 0 /\ feeds' = Referenced(f, p)
           /\ Flush(s, Written(seen, "STARTING")) /\ Wait(s, "update", "starting", p, f.of[p])
  <2> DEFINE c == [op |-> "update", at |-> "starting", pattern |-> p, sup |-> f.of[p]]
             new == Written(seen, "STARTING")
  <2>1. Step(s, new, c, r)
    BY <1>1, <1>2, <1>5, <1>6, <1>9 DEF Step, Flush, Wait
  <2>2. c \in Call /\ c.op = "update" /\ c.pattern = p /\ c.at = "starting" /\ c.sup = f.of[p]
    BY <1>2, <1>8 DEF Call
  <2>3. new \in Rows /\ new.pattern = p
    BY <1>3, RowsLemma DEF States
  <2> HIDE DEF c, new
  <2> QED
    BY <1>1, <1>4, <1>9, <2>1, <2>2, <2>3 DEF f, p
<1>10. CASE /\ f.of[p] = 0 /\ feeds' = f /\ Flush(s, seen) /\ Wait(s, "update", "create", p, 0)
  <2> DEFINE c == [op |-> "update", at |-> "create", pattern |-> p, sup |-> 0]
  <2>1. Step(s, seen, c, r)
    BY <1>1, <1>2, <1>5, <1>6, <1>10 DEF Step, Flush, Wait
  <2>2. c \in Call /\ c.op = "update" /\ c.pattern = p /\ c.at = "create"
    BY <1>2 DEF Call
  <2> HIDE DEF c
  <2> QED
    BY <1>1, <1>3, <1>4, <1>10, <2>1, <2>2 DEF f, p
<1> QED
  BY <1>3, <1>5, <1>9, <1>10

LEMMA TypesOfMigrate ==
    ASSUME OrchestratorTypes, NEW s \in Strategies, Migrate(s)
    PROVE  OrchestratorTypes'
<1> DEFINE f == Released(feeds, PatternOf(s))
           p == session[s].pattern
<1>1. PICK new \in Rows, c \in Call, r \in Runner :
         /\ Step(s, new, c, r) /\ UNCHANGED booting /\ new.pattern = p
         /\ r.sup = runner[s].sup /\ r.running = FALSE
         /\ c.op = "update" /\ c.pattern = p
         /\ \/ f.of[p] # 0 /\ feeds' = Referenced(f, p) /\ c.at = "starting" /\ c.sup = f.of[p]
            \/ f.of[p] = 0 /\ feeds' = f /\ c.at = "create" /\ new.actual = "STOPPED"
  BY MigrateLemma
<1>2. /\ call[s].at = "stopping" /\ call[s].op = "update"
      /\ RowsOK /\ CallsOK /\ RunnersOK /\ RegistryOK(feeds) /\ booting \in Seq(Strategies)
  BY DEF Migrate, OrchestratorTypes, CallsOK
<1>3. p \in Patterns /\ runner[s] # NoRunner /\ booting = <<>>
  BY <1>2, CallLemma
<1>4. PatternOf(s) \in Patterns /\ runner[s].sup \in 1..Len(feeds.all)
  BY <1>3, PatternLemma
<1>5. RegistryOK(f) /\ Later(feeds, f)
  BY <1>2, <1>4, ReleasedLemma
<1> HIDE DEF f, p
<1>6. RegistryOK(feeds') /\ Later(f, feeds') /\ (c.at = "starting" => c.sup \in 1..Len(feeds'.all))
  <2>1. CASE f.of[p] # 0 /\ feeds' = Referenced(f, p) /\ c.at = "starting" /\ c.sup = f.of[p]
    <3>1. RegistryOK(feeds') /\ Later(f, feeds') /\ feeds'.all = f.all
      BY <1>3, <1>5, <2>1, ReferencedLemma
    <3>2. f.of[p] \in 1..Len(f.all)
      BY <1>3, <1>5, <2>1 DEF RegistryOK
    <3> QED
      BY <2>1, <3>1, <3>2
  <2>2. CASE f.of[p] = 0 /\ feeds' = f /\ c.at = "create" /\ new.actual = "STOPPED"
    BY <1>5, <2>2, SelfLater
  <2> QED
    BY <1>1, <2>1, <2>2
<1>7. Later(feeds, feeds')
  <2>1. feeds.all \in Seq(Feed) /\ f.all \in Seq(Feed) /\ feeds'.all \in Seq(Feed)
    BY <1>2, <1>5, <1>6 DEF RegistryOK, Registry
  <2> QED
    BY <1>5, <1>6, <2>1, LaterLemma
<1>8. r.sup \in 1..Len(feeds'.all)
  <2>1. Len(feeds.all) \in Nat /\ Len(feeds'.all) \in Nat /\ Len(feeds.all) <= Len(feeds'.all)
    BY <1>2, <1>6, <1>7, SelfLater DEF Later
  <2> QED
    BY <1>1, <1>4, <2>1
<1>9. c.at # "stopping" /\ UNCHANGED booting
  BY <1>1
<1> QED
  BY <1>1, <1>2, <1>3, <1>6, <1>7, <1>8, <1>9, TypesOfStep

LEMMA TypesOfDown ==
    ASSUME OrchestratorTypes, Down
    PROVE  OrchestratorTypes'
<1>1. /\ up' = FALSE /\ booting' = <<>> /\ call' = [s \in Strategies |-> Idle]
      /\ runner' = [s \in Strategies |-> NoRunner] /\ feeds' = NoFeeds
      /\ locked' = {} /\ session' = [s \in Strategies |-> NoRow] /\ UNCHANGED row
  BY DEF Down
<1>2. /\ NoRunner \in Runner /\ Idle \in Call /\ Idle.at = "none"
      /\ RegistryOK(NoFeeds) /\ ToSet(<<>>) = {} /\ <<>> \in Seq(Strategies)
  BY RowsLemma, EmptyRegistry
<1>3. \A s \in Strategies : call'[s] = Idle /\ runner'[s] = NoRunner
  BY <1>1
<1>4. RowsOK'
  <2>1. \A s \in Strategies : ~Holds(s)'
    BY <1>1, <1>2, <1>3 DEF Holds, NoRunner, Idle
  <2> QED
    BY <1>1, <2>1 DEF OrchestratorTypes, RowsOK
<1>5. CallsOK' /\ RunnersOK' /\ BootingOK'
  BY <1>1, <1>2, <1>3 DEF CallsOK, RunnersOK, BootingOK, NoRunner, Idle
<1> QED
  BY <1>1, <1>2, <1>4, <1>5 DEF OrchestratorTypes

-----------------------------------------------------------------------------
(* The table of strategies *)

(* A row is written, and those the session had written are committed.      *)
RowsWritten ==
    /\ row' \in [Strategies -> Rows \cup {NoRow}]
    /\ \A t \in Strategies : row[t] # NoRow => row'[t] # NoRow
    /\ UNCHANGED platform

LEMMA TypesOfRows ==
    ASSUME OrchestratorTypes, RowsWritten, UNCHANGED <<session, locked>>
    PROVE  OrchestratorTypes'
<1>1. UNCHANGED <<session, locked, up, booting, call, runner, feeds>>
  BY DEF RowsWritten, platform
<1>2. RowsOK'
  BY <1>1 DEF OrchestratorTypes, RowsWritten, RowsOK, Holds, NoRunner, Idle
<1> QED
  BY <1>1, <1>2 DEF OrchestratorTypes, CallsOK, RunnersOK, BootingOK, NoRunner, Idle

LEMMA CreateLemma ==
    ASSUME OrchestratorTypes, NEW s \in Strategies, NEW d \in InitialStates, NEW p \in Patterns,
           CreateStrategy(s, d, p)
    PROVE  RowsWritten /\ UNCHANGED <<session, locked>>
<1> DEFINE e == [desired |-> d, actual |-> d, pattern |-> p]
<1>1. e \in Rows
  BY OrchestratorAssumption DEF Rows
<1>2. row' = [row EXCEPT ![s] = e] /\ UNCHANGED <<session, locked, platform>>
  BY DEF CreateStrategy
<1> HIDE DEF e
<1>3. e # NoRow /\ row \in [Strategies -> Rows \cup {NoRow}]
  BY <1>1, RowsLemma DEF OrchestratorTypes, RowsOK
<1> QED
  BY <1>1, <1>2, <1>3 DEF RowsWritten

LEMMA PatchLemma ==
    ASSUME OrchestratorTypes, NEW s \in Strategies, NEW d \in States, NEW p \in Patterns,
           PatchStrategy(s, d, p)
    PROVE  OrchestratorTypes' /\ RowsWritten
<1>1. /\ RowsOK /\ row[s] \in Rows /\ row \in [Strategies -> Rows \cup {NoRow}] /\ UNCHANGED platform
      /\ session \in [Strategies -> Rows \cup {NoRow}] /\ locked \subseteq Strategies
  BY DEF OrchestratorTypes, RowsOK, PatchStrategy
<1>2. \A e \in Rows : e # NoRow /\ [e EXCEPT !.desired = d, !.pattern = p] \in Rows
  BY RowsLemma DEF Rows
<1>3. CASE row' = [row EXCEPT ![s].desired = d, ![s].pattern = p] /\ UNCHANGED <<session, locked>>
  <2> DEFINE e == [row[s] EXCEPT !.desired = d, !.pattern = p]
  <2>1. row' = [row EXCEPT ![s] = e]
    BY <1>1, <1>3
  <2>2. e \in Rows /\ e # NoRow
    BY <1>1, <1>2
  <2> HIDE DEF e
  <2>3. RowsWritten
    BY <1>1, <2>1, <2>2 DEF RowsWritten
  <2> QED
    BY <1>3, <2>3, TypesOfRows
<1>4. CASE /\ booting = <<>> /\ \A t \in Strategies : call[t] = Idle
           /\ session' = [session EXCEPT ![s] = [Seen(s) EXCEPT !.desired = d, !.pattern = p]]
           /\ row' = [t \in Strategies |-> IF t = s \/ t \in locked THEN session'[t] ELSE row[t]]
           /\ locked' = {}
  <2> DEFINE e == [Seen(s) EXCEPT !.desired = d, !.pattern = p]
  <2>1. Seen(s) \in Rows
    BY <1>1 DEF RowsOK, Seen
  <2>2. e \in Rows /\ e # NoRow
    BY <1>2, <2>1
  <2>3. session' = [session EXCEPT ![s] = e]
    BY <1>4
  <2> HIDE DEF e
  <2>4. /\ session' \in [Strategies -> Rows \cup {NoRow}] /\ session'[s] = e
        /\ \A t \in Strategies \ {s} : session'[t] = session[t]
    BY <1>1, <2>2, <2>3
  <2>5. \A t \in locked : t \in Strategies /\ session[t] \in Rows /\ session[t] # NoRow
    BY <1>1, <1>2 DEF RowsOK
  <2>6. RowsWritten
    <3>1. \A t \in Strategies : row'[t] = IF t = s \/ t \in locked THEN session'[t] ELSE row[t]
      BY <1>4
    <3>2. \A t \in Strategies : t = s \/ t \in locked => session'[t] \in Rows /\ session'[t] # NoRow
      BY <2>2, <2>4, <2>5
    <3>3. row' = [t \in Strategies |-> IF t = s \/ t \in locked THEN session'[t] ELSE row[t]]
      BY <1>4
    <3> QED
      BY <1>1, <3>1, <3>2, <3>3 DEF RowsWritten
  <2>7. UNCHANGED <<up, booting, call, runner, feeds>>
    BY <1>1 DEF platform
  <2>8. RowsOK'
    <3>1. ASSUME NEW t \in Strategies, Holds(t)' \/ t \in locked' PROVE session'[t] \in Rows
      <4>1. Holds(t)
        BY <1>4, <2>7, <3>1 DEF Holds, NoRunner, Idle
      <4> QED
        BY <1>1, <2>2, <2>4, <4>1 DEF RowsOK
    <3> QED
      BY <1>4, <2>4, <2>6, <3>1 DEF RowsOK, RowsWritten
  <2>9. BootingOK'
    BY <1>4, <2>7 DEF BootingOK
  <2>10. CallsOK' /\ RunnersOK' /\ RegistryOK(feeds)'
    BY <2>7 DEF OrchestratorTypes, CallsOK, RunnersOK, NoRunner, Idle
  <2> QED
    BY <2>6, <2>8, <2>9, <2>10 DEF OrchestratorTypes
<1> QED
  BY <1>3, <1>4 DEF PatchStrategy

LEMMA SwitchLemma ==
    ASSUME OrchestratorTypes, CommandsOK, ControlTypes, BatchOK, Switch, UNCHANGED platform
    PROVE  RowsWritten /\ UNCHANGED <<session, locked>>
<1> DEFINE s == Command.strategy
           e == Written(row[s], Wanted(Command))
<1>1. doing = "strategy" /\ row' = [row EXCEPT ![s] = e] /\ UNCHANGED <<session, locked>>
  BY DEF Switch
<1>2. /\ Command = commands[Head(batch)].request /\ Head(batch) \in DOMAIN commands
      /\ Command \in Requests /\ Command.type \in {"add", "remove"}
  BY <1>1, HeadLemma, DomainsLemma DEF BatchOK
<1>3. s \in Strategies /\ row[s] # NoRow
  BY <1>2, RequestsAssumption DEF CommandsOK
<1>4. row \in [Strategies -> Rows \cup {NoRow}] /\ row[s] \in Rows
  BY <1>3 DEF OrchestratorTypes, RowsOK
<1>5. e \in Rows
  BY <1>4, RowsLemma DEF Wanted, States
<1> HIDE DEF s, e
<1>6. e # NoRow
  BY <1>5, RowsLemma
<1> QED
  BY <1>1, <1>3, <1>4, <1>5, <1>6 DEF RowsWritten

-----------------------------------------------------------------------------
(* The commands and the strategies they are for *)

(* The commands there were keep their requests, and a new one is for a     *)
(* strategy that has a row, if it is for one.                              *)
SameRequests ==
    \A i \in DOMAIN commands' :
        \/ i \in DOMAIN commands /\ commands'[i].request = commands[i].request
        \/ commands'[i].request.type \in {"add", "remove"} =>
              commands'[i].request.strategy \in Strategies /\ row[commands'[i].request.strategy] # NoRow

LEMMA CommandsKept ==
    ASSUME CommandsOK, ControlTypes, SameRequests,
           \A t \in Strategies : row[t] # NoRow => row'[t] # NoRow
    PROVE  CommandsOK'
<1> SUFFICES ASSUME NEW i \in DOMAIN commands', commands'[i].request.type \in {"add", "remove"}
             PROVE  row'[commands'[i].request.strategy] # NoRow
  BY DEF CommandsOK, NoRow
<1>1. CASE i \in DOMAIN commands /\ commands'[i].request = commands[i].request
  <2>1. row[commands[i].request.strategy] # NoRow
    BY <1>1 DEF CommandsOK
  <2>2. commands[i].request \in Requests
    BY <1>1, DomainsLemma DEF CommandRecord
  <2>3. commands[i].request.strategy \in Strategies
    BY <1>1, <2>2, RequestsAssumption
  <2> QED
    BY <1>1, <2>1, <2>3
<1> QED
  BY <1>1 DEF SameRequests

LEMMA StoreRequests ==
    ASSUME ControlTypes, NEW c \in Clients, Store(c)
    PROVE  SameRequests
<1> DEFINE r == http[c].request
           e == [request |-> r, at |-> http[c].at, stored |-> clock + 1, status |-> "pending"]
<1>1. http[c].at # 0 /\ commands' = IF Refused(r) THEN commands ELSE Append(commands, e)
  BY DEF Store
<1>2. CASE Refused(r)
  BY <1>1, <1>2 DEF SameRequests
<1>3. CASE ~Refused(r)
  <2>1. commands \in Seq(CommandRecord) /\ e \in CommandRecord /\ e.request = r /\ r \in Requests
    <3>1. http[c] \in [request : Requests, at : 1..clock] /\ clock \in Nat
      BY <1>1 DEF ControlTypes, NoRequest
    <3> QED
      BY <3>1 DEF ControlTypes, CommandRecord
  <2>2. r.type \in {"add", "remove"} => r.strategy \in Strategies /\ row[r.strategy] # NoRow
    BY <1>3, <2>1, RequestsAssumption DEF Refused, Unknown
  <2> HIDE DEF r, e
  <2>3. /\ commands' = Append(commands, e) /\ Len(commands') = Len(commands) + 1
        /\ \A i \in 1..Len(commands) : commands'[i] = commands[i]
        /\ commands'[Len(commands) + 1] = e
        /\ DOMAIN commands' = 1..Len(commands) + 1 /\ Len(commands) \in Nat
        /\ DOMAIN commands = 1..Len(commands)
    BY <1>1, <1>3, <2>1, AppendProperties, LenProperties
  <2>4. \A i \in DOMAIN commands' : i \in DOMAIN commands \/ i = Len(commands) + 1
    BY <2>3
  <2> QED
    BY <2>1, <2>2, <2>3, <2>4 DEF SameRequests
<1> QED
  BY <1>2, <1>3

LEMMA MarkRequests ==
    ASSUME ControlTypes, BatchOK, doing # "poll", NEW st, Mark(Head(batch), st)
    PROVE  SameRequests
<1> DEFINE h == Head(batch)
           e == [commands[h] EXCEPT !.status = st]
<1>1. h \in 1..Len(commands) /\ commands \in Seq(CommandRecord) /\ commands[h] \in CommandRecord
  BY HeadLemma, DomainsLemma DEF ControlTypes
<1>2. commands' = [commands EXCEPT ![h] = e] /\ e.request = commands[h].request
  BY <1>1 DEF Mark, CommandRecord
<1> HIDE DEF h, e
<1>3. /\ DOMAIN commands' = DOMAIN commands
      /\ \A i \in DOMAIN commands : commands'[i] = IF i = h THEN e ELSE commands[i]
  BY <1>2
<1> QED
  BY <1>2, <1>3 DEF SameRequests

LEMMA SameCommands ==
    ASSUME UNCHANGED commands
    PROVE  SameRequests
BY DEF SameRequests

LEMMA SameTypes ==
    ASSUME OrchestratorTypes, UNCHANGED <<strategies, platform>>
    PROVE  OrchestratorTypes' /\ \A t \in Strategies : row[t] # NoRow => row'[t] # NoRow
BY DEF OrchestratorTypes, strategies, platform, RowsOK, CallsOK, RunnersOK, BootingOK, RegistryOK,
       Registry, Feed, Rows, Holds, NoRunner, Idle

-----------------------------------------------------------------------------
(* Every step *)

LEMMA BootRows ==
    ASSUME Orchestrate \/ Crash
    PROVE  UNCHANGED <<row, commands>>
BY DEF Orchestrate, Crash, Calls, Work, Boot, BootNext, AddStrategy, RemoveStrategy, UpdateStrategy,
       SupervisorStarted, RunnerStarted, Removed, Migrate, Kept, control, Down, Lost

LEMMA TypesOfOrchestrate ==
    ASSUME OrchestratorTypes, Orchestrate
    PROVE  OrchestratorTypes'
<1>1. ASSUME NEW s \in Strategies, Calls(s) \/ Work(s) PROVE OrchestratorTypes'
  BY <1>1, TypesOfAdd, TypesOfRemove, TypesOfUpdate, TypesOfSupervisorStarted, TypesOfRunnerStarted,
     TypesOfMigrate DEF Calls, Work
<1> QED
  BY <1>1, TypesOfBoot, TypesOfBootNext DEF Orchestrate

LEMMA ServiceLemma ==
    ASSUME CInv, Service \/ Fault
    PROVE  /\ SameRequests /\ UNCHANGED platform
           /\ UNCHANGED strategies \/ Switch
<1>1. ControlTypes /\ BatchOK
  BY DEF CInv
<1>2. UNCHANGED platform /\ (UNCHANGED strategies \/ Switch)
  BY DEF Service, Fault, DatabaseError
<1>3. CASE UNCHANGED commands
  BY <1>2, <1>3, SameCommands
<1>4. CASE Poll \/ Switch \/ Serve
  BY <1>3, <1>4 DEF Poll, Switch, Serve
<1>5. CASE MarkApplied
  BY <1>1, <1>2, <1>5, MarkRequests DEF MarkApplied
<1>6. CASE Take
  BY <1>1, <1>2, <1>3, <1>6, MarkRequests DEF Take
<1>7. CASE DatabaseError
  BY <1>1, <1>2, <1>3, <1>7, MarkRequests DEF DatabaseError
<1> QED
  BY <1>4, <1>5, <1>6, <1>7 DEF Service, Process, Fault

LEMMA TypesKept ==
    ASSUME TInv, CInv, [Next]_vars
    PROVE  TInv'
<1>1. OrchestratorTypes /\ CommandsOK /\ ControlTypes /\ BatchOK
  BY DEF TInv, CInv
<1>2. CASE UNCHANGED <<strategies, platform>> /\ SameRequests
  BY <1>1, <1>2, SameTypes, CommandsKept DEF TInv
<1>3. CASE RowsWritten /\ UNCHANGED <<session, locked>> /\ SameRequests
  BY <1>1, <1>3, TypesOfRows, CommandsKept DEF TInv, RowsWritten
<1>4. CASE Api
  <2>1. ASSUME NEW s \in Strategies, NEW d \in InitialStates, NEW p \in Patterns,
               CreateStrategy(s, d, p), Kept
        PROVE  TInv'
    BY <1>1, <1>3, <2>1, CreateLemma, SameCommands DEF Kept, control
  <2>2. ASSUME NEW s \in Strategies, NEW d \in PatchStates \cup {row[s].desired}, NEW p \in Patterns,
               PatchStrategy(s, d, p), Kept
        PROVE  TInv'
    <3>1. row[s] \in Rows
      BY <1>1, <2>2 DEF OrchestratorTypes, RowsOK, PatchStrategy
    <3>2. d \in States
      BY <2>2, <3>1, PlatformAssumption DEF Rows
    <3>3. OrchestratorTypes' /\ RowsWritten
      BY <1>1, <2>2, <3>2, PatchLemma
    <3>4. SameRequests
      BY <2>2, SameCommands DEF Kept, control
    <3> QED
      BY <1>1, <3>3, <3>4, CommandsKept DEF TInv, RowsWritten
  <2>3. ASSUME NEW c \in Clients, Store(c), UNCHANGED <<strategies, platform, crashes>> PROVE TInv'
    BY <1>1, <1>2, <2>3, StoreRequests
  <2>4. ASSUME NEW c \in Clients, NEW r \in Requests, Ask(c, r), UNCHANGED <<strategies, platform, crashes>>
        PROVE  TInv'
    BY <1>1, <1>2, <2>4, SameCommands DEF Ask
  <2> QED
    BY <1>4, <2>1, <2>2, <2>3, <2>4 DEF Api
<1>5. CASE Orchestrate
  BY <1>1, <1>5, TypesOfOrchestrate, BootRows, SameCommands, CommandsKept DEF TInv
<1>6. CASE Service \/ Fault
  BY <1>1, <1>2, <1>3, <1>6, ServiceLemma, SwitchLemma
<1>7. CASE Crash
  <2>1. OrchestratorTypes'
    BY <1>1, <1>7, TypesOfDown DEF Crash
  <2> QED
    BY <1>1, <1>7, <2>1, BootRows, SameCommands, CommandsKept DEF TInv
<1>8. CASE UNCHANGED vars
  BY <1>2, <1>8, SameCommands DEF vars, control
<1> QED
  BY <1>4, <1>5, <1>6, <1>7, <1>8 DEF Next

LEMMA TypesInit ==
    ASSUME Init
    PROVE  TInv
<1>1. /\ row = [s \in Strategies |-> NoRow] /\ session = row /\ locked = {}
      /\ up = FALSE /\ booting = <<>> /\ call = [s \in Strategies |-> Idle]
      /\ runner = [s \in Strategies |-> NoRunner] /\ feeds = NoFeeds /\ commands = <<>>
  BY DEF Init, OrchestratorInit, ControlInit
<1>2. /\ NoRunner \in Runner /\ Idle \in Call /\ Idle.at = "none"
      /\ RegistryOK(NoFeeds) /\ ToSet(<<>>) = {} /\ <<>> \in Seq(Strategies) /\ DOMAIN <<>> = {}
  BY RowsLemma, EmptyRegistry, EmptySeq
<1>3. \A s \in Strategies : call[s] = Idle /\ runner[s] = NoRunner /\ ~Holds(s)
  BY <1>1, <1>2 DEF Holds
<1>4. RowsOK
  BY <1>1, <1>3 DEF RowsOK
<1>5. CallsOK /\ RunnersOK /\ BootingOK /\ CommandsOK
  BY <1>1, <1>2, <1>3 DEF CallsOK, RunnersOK, BootingOK, CommandsOK
<1> QED
  BY <1>1, <1>2, <1>4, <1>5 DEF TInv, OrchestratorTypes

(* What the tables, the orchestrator's session, its calls and its registry *)
(* are made of, however calls overlap and whatever is shared at boot.      *)
THEOREM TypesInvariant == Spec => [](CInv /\ TInv)
<1>1. Init => CInv /\ TInv
  BY CInit, TypesInit
<1>2. CInv /\ TInv /\ [Next]_vars => CInv' /\ TInv'
  BY NextKeeps, TypesKept
<1> QED
  BY <1>1, <1>2, PTL DEF Spec

(* A pattern has a supervisor in the registry iff it is counted, a runner  *)
(* has one of this run, and the batch is of commands that were stored.     *)
THEOREM PlatformTypes == Spec => []TypeOK
<1>1. ASSUME CInv, TInv PROVE TypeOK
  <2>1. \A s \in Strategies : row[s] = NoRow \/ row[s] \in [desired : States, actual : States, pattern : Patterns]
    BY <1>1 DEF TInv, OrchestratorTypes, RowsOK, Rows
  <2>2. \A s \in Strategies : runner[s].sup \in 0..Len(feeds.all)
    <3>1. Len(feeds.all) \in Nat
      BY <1>1, SelfLater DEF TInv, OrchestratorTypes
    <3> QED
      BY <1>1, <3>1 DEF TInv, OrchestratorTypes, RunnersOK, NoRunner
  <2>3. locked \subseteq Strategies /\ \A p \in Patterns : feeds.of[p] # 0 <=> feeds.refs[p] > 0
    BY <1>1 DEF TInv, OrchestratorTypes, RowsOK, RegistryOK
  <2>4. ControlTypes /\ BatchOK
    BY <1>1 DEF CInv
  <2>5. \A i \in DOMAIN commands : commands[i].status \in {"pending", "applied", "failed"}
    BY <2>4, DomainsLemma DEF CommandRecord
  <2>6. Pending \cup ToSet(batch) \subseteq DOMAIN commands
    BY <2>4, DomainsLemma DEF BatchOK, ToSet
  <2> QED
    BY <2>1, <2>2, <2>3, <2>5, <2>6 DEF TypeOK
<1> QED
  BY <1>1, TypesInvariant, PTL

-----------------------------------------------------------------------------
(* Shared supervisors *)

Migrating(s) == call[s].op = "update" /\ call[s].at \in {"create", "starting"}

(* A strategy uses the supervisor of a pattern from the boot, or from the  *)
(* acquisition, until it is removed or its runner migrates.                *)
Uses(s, p) ==
    \/ s \in ToSet(booting) /\ session[s].pattern = p
    \/ call[s].at = "starting" /\ call[s].pattern = p
    \/ runner[s] # NoRunner /\ ~Migrating(s) /\ PatternOf(s) = p
Users   == [p \in Patterns |-> {s \in Strategies : Uses(s, p)}]

(* The strategies yet to be started are told apart, and idle. *)
BootDistinct ==
    /\ \A i, j \in DOMAIN booting : booting[i] = booting[j] => i = j
    /\ \A s \in ToSet(booting) : call[s] = Idle /\ runner[s] = NoRunner

(* What a strategy uses is the supervisor that the registry has, unless    *)
(* its pattern is short.                                                   *)
FitOK(s) ==
    /\ runner[s] # NoRunner /\ ~Migrating(s) /\ PatternOf(s) \notin short =>
          runner[s].running = TRUE /\ runner[s].sup = feeds.of[PatternOf(s)]
    /\ Migrating(s) => runner[s] # NoRunner /\ runner[s].running = FALSE
    /\ call[s].op \in {"boot", "add"} => runner[s] = NoRunner
    /\ call[s].at = "starting" =>
          /\ feeds.all[call[s].sup].pattern = call[s].pattern
          /\ call[s].pattern \notin short => call[s].sup = feeds.of[call[s].pattern]
    /\ call[s].at = "create" =>
          /\ session[s].pattern = call[s].pattern
          /\ call[s].op = "update" =>
                \/ session[s].actual = "STOPPED"
                \/ runner[s] # NoRunner /\ PatternOf(s) \in short

(* A supervisor of the registry runs, and has a reference for every user   *)
(* if its pattern is not short.                                            *)
LiveOK(f) == \A p \in Patterns : f.of[p] # 0 => f.all[f.of[p]].running = TRUE
Counted(f, U, Q) == \A p \in Q : Cardinality(U[p]) <= f.refs[p]

SInv ==
    /\ short \subseteq Patterns /\ BootDistinct /\ (\A s \in Strategies : FitOK(s))
    /\ LiveOK(feeds) /\ Counted(feeds, Users, Patterns \ short)

(* The registry stays right, and the users of a pattern of Q, but for one  *)
(* strategy, keep their supervisor.                                        *)
Passes(s, f, U, g, V, Q) ==
    /\ LiveOK(g) /\ Counted(g, V, Q)
    /\ \A q \in Q : \A t \in U[q] \cap V[q] : t # s => g.of[q] = f.of[q]

UserSets == [Patterns -> SUBSET Strategies]

LEMMA UserSetsLemma ==
    ASSUME NEW U \in UserSets, NEW p \in Patterns
    PROVE  /\ IsFiniteSet(U[p]) /\ Cardinality(U[p]) \in Nat
           /\ Cardinality(U[p]) = 0 <=> U[p] = {}
           /\ \A T \in SUBSET U[p] : Cardinality(T) <= Cardinality(U[p]) /\ Cardinality(T) \in Nat
           /\ \A x : Cardinality(U[p] \cup {x}) <= Cardinality(U[p]) + 1
           /\ \A x \in U[p] : Cardinality(U[p] \ {x}) = Cardinality(U[p]) - 1
<1>1. U[p] \in SUBSET Strategies
  BY DEF UserSets
<1>2. IsFiniteSet(U[p])
  BY <1>1, OrchestratorAssumption, FS_Subset
<1>3. Cardinality(U[p]) \in Nat
  BY <1>2, FS_CardinalityType
<1>4. \A T \in SUBSET U[p] : Cardinality(T) <= Cardinality(U[p]) /\ Cardinality(T) \in Nat
  BY <1>2, FS_Subset, FS_CardinalityType
<1>5. \A x : Cardinality(U[p] \cup {x}) <= Cardinality(U[p]) + 1
  <2> TAKE x
  <2>1. Cardinality(U[p] \cup {x}) = IF x \in U[p] THEN Cardinality(U[p]) ELSE Cardinality(U[p]) + 1
    BY <1>2, FS_AddElement
  <2> QED
    BY <1>3, <2>1
<1>6. \A x \in U[p] : Cardinality(U[p] \ {x}) = Cardinality(U[p]) - 1
  BY <1>2, FS_RemoveElement
<1>7. Cardinality(U[p]) = 0 <=> U[p] = {}
  BY <1>2, FS_EmptySet
<1> QED
  BY <1>2, <1>3, <1>4, <1>5, <1>6, <1>7

(* Nobody comes. *)
LEMMA PassesSame ==
    ASSUME NEW f, RegistryOK(f), LiveOK(f), NEW Q \in SUBSET Patterns, NEW U \in UserSets, NEW V \in UserSets, Counted(f, U, Q), NEW s,
           \A q \in Q : V[q] \subseteq U[q]
    PROVE  Passes(s, f, U, f, V, Q)
<1>1. ASSUME NEW q \in Q PROVE Cardinality(V[q]) <= f.refs[q]
  <2>1. Cardinality(V[q]) \in Nat /\ Cardinality(V[q]) <= Cardinality(U[q]) /\ Cardinality(U[q]) \in Nat
    BY UserSetsLemma
  <2>2. f.refs[q] \in Nat
    BY DEF RegistryOK, Registry
  <2> QED
    BY <2>1, <2>2 DEF Counted
<1> QED
  BY <1>1 DEF Passes, Counted

(* One takes a reference to a supervisor of the registry. *)
LEMMA PassesReferenced ==
    ASSUME NEW f, RegistryOK(f), LiveOK(f), NEW Q \in SUBSET Patterns, NEW U \in UserSets, NEW V \in UserSets, Counted(f, U, Q),
           NEW s, NEW p \in Patterns, f.of[p] # 0,
           \A q \in Q : V[q] \subseteq U[q] \/ (q = p /\ V[q] \subseteq U[q] \cup {s})
    PROVE  Passes(s, f, U, Referenced(f, p), V, Q)
<1> DEFINE g == Referenced(f, p)
<1>1. /\ RegistryOK(g) /\ g.all = f.all /\ g.of = f.of
      /\ \A q \in Patterns : g.refs[q] = IF q = p THEN f.refs[q] + 1 ELSE f.refs[q]
  BY ReferencedLemma
<1> HIDE DEF g
<1>2. ASSUME NEW q \in Q PROVE Cardinality(V[q]) <= g.refs[q]
  <2>1. f.refs[q] \in Nat /\ Cardinality(U[q]) <= f.refs[q]
    BY DEF RegistryOK, Registry, Counted
  <2>2. Cardinality(U[q]) \in Nat /\ Cardinality(V[q]) \in Nat
    BY UserSetsLemma
  <2>3. CASE V[q] \subseteq U[q]
    <3>1. Cardinality(V[q]) <= Cardinality(U[q])
      BY <2>3, UserSetsLemma
    <3> QED
      BY <1>1, <2>1, <2>2, <3>1
  <2>4. CASE q = p /\ V[q] \subseteq U[q] \cup {s}
    <3>1. IsFiniteSet(U[q] \cup {s}) /\ Cardinality(U[q] \cup {s}) <= Cardinality(U[q]) + 1
      BY UserSetsLemma, FS_AddElement
    <3>2. Cardinality(V[q]) <= Cardinality(U[q] \cup {s}) /\ Cardinality(U[q] \cup {s}) \in Nat
      BY <2>4, <3>1, FS_Subset, FS_CardinalityType
    <3> QED
      BY <1>1, <2>1, <2>2, <2>4, <3>1, <3>2
  <2> QED
    BY <2>3, <2>4
<1>3. LiveOK(g)
  BY <1>1 DEF LiveOK
<1> QED
  BY <1>1, <1>2, <1>3 DEF Passes, Counted, g

(* One starts the supervisor of a pattern that has none. *)
LEMMA PassesEntered ==
    ASSUME NEW f, RegistryOK(f), LiveOK(f), NEW Q \in SUBSET Patterns, NEW U \in UserSets, NEW V \in UserSets, Counted(f, U, Q),
           NEW s, NEW p \in Patterns, p \in Q => f.of[p] = 0,
           \A q \in Q : V[q] \subseteq U[q] \/ (q = p /\ V[q] \subseteq U[q] \cup {s})
    PROVE  Passes(s, f, U, Entered(f, p), V, Q)
<1> DEFINE g == Entered(f, p)
<1>1. /\ RegistryOK(g) /\ Len(f.all) \in Nat /\ Len(g.all) = Len(f.all) + 1
      /\ \A i \in 1..Len(f.all) : g.all[i] = f.all[i]
      /\ g.all[Len(f.all) + 1] = [pattern |-> p, running |-> TRUE]
      /\ \A q \in Patterns :
            /\ g.of[q] = IF q = p THEN Len(f.all) + 1 ELSE f.of[q]
            /\ g.refs[q] = IF q = p THEN 1 ELSE f.refs[q]
  BY EnteredLemma
<1> HIDE DEF g
<1>2. ASSUME p \in Q PROVE U[p] = {}
  <2>1. f.refs[p] = 0 /\ Cardinality(U[p]) <= f.refs[p]
    BY <1>2 DEF RegistryOK, Registry, Counted
  <2>2. Cardinality(U[p]) = 0
    BY <2>1, UserSetsLemma
  <2> QED
    BY <2>2, UserSetsLemma
<1>3. ASSUME NEW q \in Q PROVE Cardinality(V[q]) <= g.refs[q]
  <2>1. CASE q = p
    <3>1. V[q] \subseteq {s}
      BY <1>2, <2>1
    <3>2. IsFiniteSet({s}) /\ Cardinality({s}) = 1
      BY FS_Singleton
    <3> QED
      BY <1>1, <2>1, <3>1, <3>2, FS_Subset
  <2>2. CASE q # p
    <3>1. V[q] \subseteq U[q] /\ g.refs[q] = f.refs[q]
      BY <1>1, <2>2
    <3>2. Cardinality(V[q]) <= Cardinality(U[q]) /\ Cardinality(U[q]) \in Nat /\ Cardinality(V[q]) \in Nat
      BY <3>1, UserSetsLemma
    <3>3. f.refs[q] \in Nat /\ Cardinality(U[q]) <= f.refs[q]
      BY DEF RegistryOK, Registry, Counted
    <3> QED
      BY <3>1, <3>2, <3>3
  <2> QED
    BY <2>1, <2>2
<1>4. ASSUME NEW q \in Patterns, g.of[q] # 0 PROVE g.all[g.of[q]].running = TRUE
  <2>1. CASE q = p
    BY <1>1, <2>1
  <2>2. CASE q # p
    <3>1. g.of[q] = f.of[q] /\ f.of[q] \in 1..Len(f.all)
      BY <1>1, <1>4, <2>2 DEF RegistryOK
    <3> QED
      BY <1>1, <1>4, <3>1 DEF LiveOK
  <2> QED
    BY <2>1, <2>2
<1>5. \A q \in Q : \A t \in U[q] \cap V[q] : g.of[q] = f.of[q]
  BY <1>1, <1>2
<1> QED
  BY <1>3, <1>4, <1>5 DEF Passes, Counted, LiveOK, g

(* One gives its reference back. *)
LEMMA PassesReleased ==
    ASSUME NEW f, RegistryOK(f), LiveOK(f), NEW Q \in SUBSET Patterns, NEW U \in UserSets, NEW V \in UserSets, Counted(f, U, Q),
           NEW s, NEW p \in Patterns, p \in Q => s \in U[p] /\ s \notin V[p],
           \A q \in Q : V[q] \subseteq U[q]
    PROVE  Passes(s, f, U, Released(f, p), V, Q)
<1> DEFINE g == Released(f, p)
<1>1. /\ RegistryOK(g) /\ Len(g.all) = Len(f.all)
      /\ \A i \in 1..Len(f.all) : f.all[i].pattern # p \/ f.refs[p] # 1 => g.all[i] = f.all[i]
      /\ \A q \in Patterns :
            /\ g.of[q] = IF q = p /\ f.refs[p] = 1 THEN 0 ELSE f.of[q]
            /\ g.refs[q] = IF q = p /\ f.refs[p] # 0 THEN f.refs[q] - 1 ELSE f.refs[q]
  BY ReleasedLemma
<1> HIDE DEF g
<1>2. \A q \in Q : /\ Cardinality(U[q]) \in Nat /\ Cardinality(V[q]) \in Nat
                   /\ f.refs[q] \in Nat /\ Cardinality(U[q]) <= f.refs[q]
                   /\ Cardinality(V[q]) <= Cardinality(U[q])
  BY UserSetsLemma DEF RegistryOK, Registry, Counted
<1>4. ASSUME p \in Q PROVE Cardinality(V[p]) <= f.refs[p] - 1 /\ f.refs[p] # 0
  <2>1. IsFiniteSet(U[p]) /\ Cardinality(U[p] \ {s}) = Cardinality(U[p]) - 1
    BY <1>4, UserSetsLemma
  <2>2. IsFiniteSet(U[p] \ {s})
    BY <2>1, FS_RemoveElement
  <2>3. V[p] \in SUBSET (U[p] \ {s})
    BY <1>4
  <2>4. Cardinality(V[p]) <= Cardinality(U[p] \ {s})
    BY <2>2, <2>3, FS_Subset
  <2> QED
    BY <1>2, <1>4, <2>1, <2>4
<1>5. \A q \in Q : Cardinality(V[q]) <= g.refs[q]
  BY <1>1, <1>2, <1>4
<1>6. ASSUME NEW q \in Patterns, g.of[q] # 0 PROVE g.all[g.of[q]].running = TRUE
  <2>1. g.of[q] = f.of[q] /\ f.of[q] \in 1..Len(f.all) /\ f.all[f.of[q]].pattern = q
        /\ (q # p \/ f.refs[p] # 1)
    BY <1>1, <1>6 DEF RegistryOK
  <2> QED
    BY <1>1, <1>6, <2>1 DEF LiveOK
<1>7. ASSUME NEW q \in Q, NEW t \in V[q] PROVE g.of[q] = f.of[q]
  <2>1. CASE q = p /\ f.refs[p] = 1
    <3>1. Cardinality(V[p]) = 0
      BY <1>2, <1>4, <1>7, <2>1
    <3>2. V[p] = {}
      BY <3>1, UserSetsLemma
    <3> QED
      BY <1>7, <2>1, <3>2
  <2>2. CASE ~(q = p /\ f.refs[p] = 1)
    BY <1>1, <2>2
  <2> QED
    BY <2>1, <2>2
<1> QED
  BY <1>5, <1>6, <1>7 DEF Passes, Counted, LiveOK, g

LEMMA PassesOn ==
    ASSUME NEW s, NEW f, NEW U, NEW g, NEW V, NEW h, NEW W, NEW Q,
           Passes(s, f, U, g, V, Q), Passes(s, g, V, h, W, Q),
           \A q \in Q : U[q] \ {s} \subseteq V[q]
    PROVE  Passes(s, f, U, h, W, Q)
<1>1. ASSUME NEW q \in Q, NEW t \in U[q] \cap W[q], t # s PROVE h.of[q] = f.of[q]
  <2>1. t \in V[q]
    BY <1>1
  <2> QED
    BY <1>1, <2>1 DEF Passes
<1> QED
  BY <1>1 DEF Passes

-----------------------------------------------------------------------------
(* Steps for one strategy *)

LEMMA UsersLemma ==
    /\ Users \in UserSets
    /\ \A p \in Patterns, t \in Strategies : t \in Users[p] <=> Uses(t, p)
BY DEF Users, UserSets

(* The patterns whose references are counted. *)
Right == Patterns \ short

(* A step for one strategy. *)
Alone(s, new, c, r) ==
    /\ Step(s, new, c, r) /\ Later(feeds, feeds') /\ new \in Rows
    /\ short \subseteq short' /\ short' \subseteq Patterns
    /\ \/ UNCHANGED booting /\ s \notin ToSet(booting)
       \/ booting # <<>> /\ s = Head(booting) /\ booting' = Tail(booting)

LEMMA BootingLemma ==
    ASSUME OrchestratorTypes, BootDistinct, NEW s \in Strategies, NEW new, NEW c, NEW r,
           Alone(s, new, c, r)
    PROVE  /\ s \notin ToSet(booting') /\ ToSet(booting') \subseteq ToSet(booting)
           /\ \A t \in ToSet(booting) : t = s \/ t \in ToSet(booting')
           /\ \A i, j \in DOMAIN booting' : booting'[i] = booting'[j] => i = j
           /\ ToSet(booting) \subseteq Strategies
<1>1. booting \in Seq(Strategies)
  BY DEF OrchestratorTypes, CallsOK
<1>2. CASE UNCHANGED booting /\ s \notin ToSet(booting)
  BY <1>1, <1>2, LenProperties, ElementOfSeq DEF BootDistinct, ToSet
<1>3. CASE booting # <<>> /\ s = Head(booting) /\ booting' = Tail(booting)
  <2>1. ToSet(booting) \subseteq Strategies
    BY <1>1, LenProperties, ElementOfSeq DEF ToSet
  <2> QED
    BY <1>1, <1>3, <2>1, TailLemma DEF BootDistinct
<1> QED
  BY <1>2, <1>3 DEF Alone

(* The others use what they used. *)
LEMMA OthersUse ==
    ASSUME OrchestratorTypes, BootDistinct, NEW s \in Strategies, NEW new, NEW c, NEW r,
           Alone(s, new, c, r), NEW t \in Strategies, t # s
    PROVE  /\ call'[t] = call[t] /\ runner'[t] = runner[t] /\ session'[t] = session[t]
           /\ Migrating(t)' = Migrating(t)
           /\ runner[t] # NoRunner => PatternOf(t)' = PatternOf(t) /\ PatternOf(t) \in Patterns
           /\ \A p \in Patterns : Uses(t, p)' <=> Uses(t, p)
<1>1. session'[t] = session[t] /\ call'[t] = call[t] /\ runner'[t] = runner[t]
  BY StepLemma DEF OrchestratorTypes, Alone
<1>2. t \in ToSet(booting') <=> t \in ToSet(booting)
  BY BootingLemma
<1>3. runner[t] # NoRunner => PatternOf(t)' = PatternOf(t) /\ PatternOf(t) \in Patterns
  <2> SUFFICES ASSUME runner[t] # NoRunner
               PROVE  PatternOf(t)' = PatternOf(t) /\ PatternOf(t) \in Patterns
    OBVIOUS
  <2>1. /\ runner[t].sup \in 1..Len(feeds.all) /\ PatternOf(t) = feeds.all[runner[t].sup].pattern
        /\ PatternOf(t) \in Patterns
    BY PatternLemma
  <2>2. feeds'.all[runner[t].sup].pattern = feeds.all[runner[t].sup].pattern
    BY <2>1 DEF Alone, Later
  <2> QED
    BY <1>1, <2>1, <2>2 DEF PatternOf
<1>4. Migrating(t)' = Migrating(t)
  BY <1>1 DEF Migrating
<1>5. \A p \in Patterns : Uses(t, p)' <=> Uses(t, p)
  BY <1>1, <1>2, <1>3, <1>4 DEF Uses, NoRunner
<1> QED
  BY <1>1, <1>3, <1>4, <1>5

LEMMA SharedByStep ==
    ASSUME OrchestratorTypes, SInv, NEW s \in Strategies, NEW new, NEW c, NEW r, Alone(s, new, c, r),
           FitOK(s)', Passes(s, feeds, Users, feeds', Users', Right')
    PROVE  SInv'
<1>1. BootDistinct /\ \A t \in Strategies : FitOK(t)
  BY DEF SInv
<1>2. BootDistinct'
  <2>1. \A t \in Strategies \ {s} : call'[t] = call[t] /\ runner'[t] = runner[t]
    BY <1>1, OthersUse
  <2>2. \A t \in ToSet(booting') : t \in ToSet(booting) /\ t \in Strategies /\ t # s
    BY <1>1, BootingLemma
  <2>3. \A i, j \in DOMAIN booting' : booting'[i] = booting'[j] => i = j
    BY <1>1, BootingLemma
  <2>4. \A t \in ToSet(booting') : call'[t] = Idle /\ runner'[t] = NoRunner
    BY <1>1, <2>1, <2>2 DEF BootDistinct
  <2> QED
    BY <2>3, <2>4 DEF BootDistinct, Idle, NoRunner
<1>3. short \subseteq short' /\ short' \subseteq Patterns
  BY DEF Alone
<1>4. ASSUME NEW t \in Strategies, t # s PROVE FitOK(t)'
  <2>1. /\ call'[t] = call[t] /\ runner'[t] = runner[t] /\ session'[t] = session[t]
        /\ Migrating(t)' = Migrating(t)
        /\ runner[t] # NoRunner => PatternOf(t)' = PatternOf(t) /\ PatternOf(t) \in Patterns
        /\ \A p \in Patterns : Uses(t, p)' <=> Uses(t, p)
    BY <1>1, <1>4, OthersUse
  <2>2. ASSUME NEW p \in Patterns, p \notin short', Uses(t, p) PROVE feeds'.of[p] = feeds.of[p]
    <3>1. t \in Users[p] /\ t \in Users'[p]
      BY <2>1, <2>2 DEF Users
    <3> QED
      BY <1>4, <2>2, <3>1 DEF Passes, Right
  <2>3. ASSUME runner[t] # NoRunner, ~Migrating(t), PatternOf(t) \notin short'
        PROVE  runner[t].running = TRUE /\ runner[t].sup = feeds'.of[PatternOf(t)']
    <3>1. runner[t].running = TRUE /\ runner[t].sup = feeds.of[PatternOf(t)]
      BY <1>1, <1>3, <2>3 DEF FitOK
    <3>2. Uses(t, PatternOf(t)) /\ PatternOf(t) \in Patterns /\ PatternOf(t)' = PatternOf(t)
      BY <2>1, <2>3 DEF Uses
    <3>3. feeds'.of[PatternOf(t)] = feeds.of[PatternOf(t)]
      BY <2>2, <2>3, <3>2
    <3> QED
      BY <3>1, <3>2, <3>3
  <2>4. ASSUME call[t].at = "starting"
        PROVE  /\ feeds'.all[call[t].sup].pattern = call[t].pattern
               /\ call[t].pattern \notin short' => call[t].sup = feeds'.of[call[t].pattern]
    <3>1. call[t].pattern \in Patterns /\ call[t].sup \in 1..Len(feeds.all)
      BY <2>4, CallLemma DEF OrchestratorTypes, CallsOK
    <3>2. feeds'.all[call[t].sup].pattern = call[t].pattern
      BY <1>1, <2>4, <3>1 DEF FitOK, Alone, Later
    <3>3. Uses(t, call[t].pattern)
      BY <2>4 DEF Uses
    <3> QED
      BY <1>1, <1>3, <2>2, <2>4, <3>1, <3>2, <3>3 DEF FitOK
  <2>5. ASSUME call[t].at = "create"
        PROVE  /\ session[t].pattern = call[t].pattern
               /\ call[t].op = "update" =>
                     \/ session[t].actual = "STOPPED"
                     \/ runner[t] # NoRunner /\ PatternOf(t)' \in short'
    BY <1>1, <1>3, <2>1, <2>5 DEF FitOK
  <2>6. /\ Migrating(t) => runner[t] # NoRunner /\ runner[t].running = FALSE
        /\ call[t].op \in {"boot", "add"} => runner[t] = NoRunner
    BY <1>1 DEF FitOK
  <2>7. runner'[t] # NoRunner' <=> runner[t] # NoRunner
    BY <2>1 DEF NoRunner
  <2>8. runner'[t] = NoRunner' <=> runner[t] = NoRunner
    BY <2>7
  <2>9. runner[t] # NoRunner => PatternOf(t)' = PatternOf(t)
    BY <2>1
  <2> QED
    BY <2>1, <2>3, <2>4, <2>5, <2>6, <2>7, <2>8, <2>9 DEF FitOK
<1>5. LiveOK(feeds)' /\ Counted(feeds, Users, Patterns \ short)'
  BY DEF Passes, Right
<1> QED
  BY <1>2, <1>3, <1>4, <1>5 DEF SInv

(* The users of a pattern before and after. *)
LEMMA UsersAfter ==
    ASSUME OrchestratorTypes, BootDistinct, NEW s \in Strategies, NEW new, NEW c, NEW r,
           Alone(s, new, c, r)
    PROVE  /\ Users' \in UserSets
           /\ \A q \in Patterns : Users'[q] \subseteq Users[q] \cup {s} /\ Users[q] \subseteq Users'[q] \cup {s}
           /\ \A q \in Patterns :
                 s \in Users'[q] <=> \/ c.at = "starting" /\ c.pattern = q
                                     \/ /\ r # NoRunner /\ feeds'.all[r.sup].pattern = q
                                        /\ ~(c.op = "update" /\ c.at \in {"create", "starting"})
<1>1. call'[s] = c /\ runner'[s] = r
  BY StepLemma DEF OrchestratorTypes, Alone
<1>2. s \notin ToSet(booting')
  BY BootingLemma
<1>3. Users' \in UserSets
  BY DEF Users, UserSets
<1>4. \A q \in Patterns : s \in Users'[q] <=> Uses(s, q)'
  BY DEF Users
<1>5. \A q \in Patterns :
         Uses(s, q)' <=> \/ c.at = "starting" /\ c.pattern = q
                         \/ /\ r # NoRunner /\ feeds'.all[r.sup].pattern = q
                            /\ ~(c.op = "update" /\ c.at \in {"create", "starting"})
  BY <1>1, <1>2 DEF Uses, Migrating, PatternOf, NoRunner
<1>6. \A q \in Patterns, t \in Strategies : t # s => (t \in Users'[q] <=> t \in Users[q])
  <2> SUFFICES ASSUME NEW q \in Patterns, NEW t \in Strategies, t # s
               PROVE  t \in Users'[q] <=> t \in Users[q]
    OBVIOUS
  <2>1. Uses(t, q)' <=> Uses(t, q)
    BY OthersUse
  <2> QED
    BY <2>1 DEF Users
<1>7. \A q \in Patterns : Users[q] \subseteq Strategies /\ Users'[q] \subseteq Strategies
  BY DEF Users
<1> QED
  BY <1>3, <1>4, <1>5, <1>6, <1>7

(* What the invariant asks of a strategy after a step that leaves the      *)
(* registry f and the short patterns S.                                    *)
Fits(new, c, r, f, S) ==
    LET migrating == c.op = "update" /\ c.at \in {"create", "starting"}
        old       == f.all[r.sup].pattern
    IN
    /\ r # NoRunner /\ ~migrating /\ old \notin S => r.running = TRUE /\ r.sup = f.of[old]
    /\ migrating => r # NoRunner /\ r.running = FALSE
    /\ c.op \in {"boot", "add"} => r = NoRunner
    /\ c.at = "starting" =>
          /\ f.all[c.sup].pattern = c.pattern
          /\ c.pattern \notin S => c.sup = f.of[c.pattern]
    /\ c.at = "create" =>
          /\ new.pattern = c.pattern
          /\ c.op = "update" => new.actual = "STOPPED" \/ (r # NoRunner /\ old \in S)

LEMMA FitAfter ==
    ASSUME OrchestratorTypes, NEW s \in Strategies, NEW new, NEW c, NEW r, Alone(s, new, c, r),
           Fits(new, c, r, feeds', short')
    PROVE  FitOK(s)'
<1>1. call'[s] = c /\ runner'[s] = r /\ session'[s] = new
  BY StepLemma DEF OrchestratorTypes, Alone
<1> QED
  BY <1>1 DEF FitOK, Fits, Migrating, PatternOf, NoRunner

(* A runner is started with the supervisor that the registry has, after    *)
(* the registry may have become f.                                         *)
LEMMA SharedByStart ==
    ASSUME OrchestratorTypes, SInv, NEW s \in Strategies, NEW op, NEW seen \in Rows, NEW sup,
           StartRunner(s, op, seen, sup), up, UNCHANGED <<row, up>>,
           RegistryOK(feeds'), Later(feeds, feeds'), short \subseteq short', short' \subseteq Patterns,
           \/ UNCHANGED booting /\ s \notin ToSet(booting)
           \/ booting # <<>> /\ s = Head(booting) /\ booting' = Tail(booting),
           sup = feeds'.of[seen.pattern], sup # 0,
           \/ op \in {"boot", "add"} /\ runner[s] = NoRunner
           \/ /\ op = "update" /\ runner[s] # NoRunner /\ runner[s].running = FALSE
              /\ CanTransition(seen.actual, "STARTING") \/ PatternOf(s) \in short,
           NEW f, RegistryOK(f), Passes(s, feeds, Users, f, Users, Right'),
           \/ feeds' = f /\ Uses(s, seen.pattern)
           \/ f.of[seen.pattern] # 0 /\ feeds' = Referenced(f, seen.pattern)
           \/ (seen.pattern \notin short' => f.of[seen.pattern] = 0) /\ feeds' = Entered(f, seen.pattern)
    PROVE  SInv'
<1> DEFINE p == seen.pattern
           e == [sup |-> sup, running |-> TRUE, evaluating |-> TRUE]
           start == [op |-> op, at |-> "starting", pattern |-> p, sup |-> sup]
<1>1. /\ RowsOK /\ CallsOK /\ RunnersOK /\ RegistryOK(feeds)
      /\ BootDistinct /\ LiveOK(f) /\ Counted(f, Users, Right') /\ p \in Patterns
      /\ Right' \in SUBSET Patterns /\ \A q \in Right' : q \notin short' /\ q \in Patterns
  BY DEF OrchestratorTypes, SInv, Rows, Passes, Right
<1>2. PICK new, c, r : Begun(s, op, seen, sup, new, c, r) /\ Step(s, new, c, r)
  BY <1>1, StartRunnerLemma
<1>3. Alone(s, new, c, r)
  BY <1>2 DEF Alone, Begun
<1>4. /\ Users \in UserSets /\ Users' \in UserSets
      /\ \A q \in Patterns : Users'[q] \subseteq Users[q] \cup {s}
      /\ \A q \in Patterns :
            s \in Users'[q] <=> \/ c.at = "starting" /\ c.pattern = q
                                \/ /\ r # NoRunner /\ feeds'.all[r.sup].pattern = q
                                   /\ ~(c.op = "update" /\ c.at \in {"create", "starting"})
  BY <1>1, <1>3, UsersAfter, UsersLemma
<1>5. feeds'.all[sup].pattern = p /\ sup = feeds'.of[p]
  BY <1>1 DEF RegistryOK
<1>6. /\ e # NoRunner /\ e.sup = sup /\ e.running = TRUE
      /\ Idle.op = "none" /\ Idle.at = "none"
      /\ start.op = op /\ start.at = "starting" /\ start.pattern = p /\ start.sup = sup
  BY DEF NoRunner, Idle
<1>7. \/ c = Idle /\ r = e
      \/ c = start /\ r = runner[s]
      \/ c = Idle /\ r = NoRunner
      \/ c = Idle /\ r # NoRunner /\ feeds'.all[r.sup].pattern \in short'
  <2>1. runner[s] # NoRunner => feeds'.all[runner[s].sup].pattern = PatternOf(s)
    BY PatternLemma DEF Later
  <2>2. CASE c = Idle /\ r = runner[s] /\ ~CanTransition(seen.actual, "STARTING")
    BY <2>1, <2>2
  <2> QED
    BY <1>2, <2>2 DEF Begun
<1> HIDE DEF p, e, start
<1>8. \A q \in Right' : s \in Users'[q] => q = p
  <2> SUFFICES ASSUME NEW q \in Right', s \in Users'[q] PROVE q = p
    OBVIOUS
  <2>1. \/ c.at = "starting" /\ c.pattern = q
        \/ r # NoRunner /\ feeds'.all[r.sup].pattern = q
           /\ ~(c.op = "update" /\ c.at \in {"create", "starting"})
    BY <1>1, <1>4
  <2>2. CASE c = start
    <3>1. op # "update" => r = NoRunner \/ r = e
      BY <1>6, <1>7, <2>2
    <3> QED
      BY <1>5, <1>6, <2>1, <2>2, <3>1
  <2>3. CASE c = Idle
    BY <1>1, <1>5, <1>6, <1>7, <2>1, <2>3
  <2> QED
    BY <1>7, <2>2, <2>3
<1>9. Fits(new, c, r, feeds', short')
  <2>1. CASE c = Idle /\ r = e
    BY <1>5, <1>6, <2>1 DEF Fits
  <2>2. CASE c = start /\ r = runner[s]
    <3>1. op \in {"boot", "add"} => r = NoRunner
      BY <2>2
    <3>2. op = "update" => r # NoRunner /\ r.running = FALSE
      BY <2>2
    <3>3. op \in {"boot", "add", "update"}
      OBVIOUS
    <3> QED
      BY <1>5, <1>6, <2>2, <3>1, <3>2, <3>3 DEF Fits
  <2>3. CASE c = Idle /\ r = NoRunner
    BY <1>6, <2>3 DEF Fits
  <2>4. CASE c = Idle /\ feeds'.all[r.sup].pattern \in short'
    BY <1>6, <2>4 DEF Fits
  <2> QED
    BY <1>7, <2>1, <2>2, <2>3, <2>4
<1>10. \A q \in Right' : Users'[q] \subseteq Users[q] \/ (q = p /\ Users'[q] \subseteq Users[q] \cup {s})
  BY <1>1, <1>4, <1>8
<1>11. Passes(s, f, Users, feeds', Users', Right')
  <2>1. CASE feeds' = f /\ Uses(s, p)
    <3>1. s \in Users[p]
      BY <1>1, <2>1, UsersLemma
    <3>2. \A q \in Right' : Users'[q] \subseteq Users[q]
      BY <1>1, <1>4, <1>8, <3>1
    <3> QED
      BY <1>1, <1>4, <2>1, <3>2, PassesSame
  <2>2. CASE f.of[p] # 0 /\ feeds' = Referenced(f, p)
    BY <1>1, <1>4, <1>10, <2>2, PassesReferenced
  <2>3. CASE (p \notin short' => f.of[p] = 0) /\ feeds' = Entered(f, p)
    <3>1. p \in Right' => f.of[p] = 0
      BY <1>1, <2>3
    <3> QED
      BY <1>1, <1>4, <1>10, <2>3, <3>1, PassesEntered
  <2> QED
    BY <2>1, <2>2, <2>3 DEF p
<1>12. Passes(s, feeds, Users, feeds', Users', Right')
  <2>1. \A q \in Right' : Users[q] \ {s} \subseteq Users[q]
    OBVIOUS
  <2> QED
    BY <1>11, <2>1, PassesOn
<1>13. FitOK(s)'
  BY <1>3, <1>9, FitAfter
<1> QED
  BY <1>3, <1>12, <1>13, SharedByStep

(* Fewer patterns are counted than were. *)
LEMMA RightLemma ==
    ASSUME OrchestratorTypes, SInv, NEW s, short \subseteq short'
    PROVE  /\ LiveOK(feeds) /\ Counted(feeds, Users, Right') /\ Right' \in SUBSET Patterns
           /\ Passes(s, feeds, Users, feeds, Users, Right')
<1>1. LiveOK(feeds) /\ Counted(feeds, Users, Right') /\ Right' \in SUBSET Patterns /\ RegistryOK(feeds)
  BY DEF SInv, Counted, Right, OrchestratorTypes
<1>2. Passes(s, feeds, Users, feeds, Users, Right')
  BY <1>1 DEF Passes
<1> QED
  BY <1>1, <1>2

(* A step that leaves the registry alone, and after which the strategy     *)
(* uses what it used, or less.                                             *)
LEMMA SharedByQuiet ==
    ASSUME OrchestratorTypes, SInv, NEW s \in Strategies, NEW new \in Rows, NEW c, NEW r,
           Step(s, new, c, r), UNCHANGED <<feeds, booting>>, s \notin ToSet(booting),
           short \subseteq short', short' \subseteq Patterns,
           Fits(new, c, r, feeds, short'),
           \A q \in Patterns \ short' :
              \/ c.at = "starting" /\ c.pattern = q
              \/ /\ r # NoRunner /\ feeds.all[r.sup].pattern = q
                 /\ ~(c.op = "update" /\ c.at \in {"create", "starting"})
              => Uses(s, q)
    PROVE  SInv'
<1>1. RegistryOK(feeds) /\ BootDistinct /\ feeds' = feeds
  BY DEF OrchestratorTypes, SInv
<1>2. Alone(s, new, c, r)
  BY <1>1, SelfLater DEF Alone
<1>3. Users \in UserSets /\ Users' \in UserSets /\ \A q \in Right' : Users'[q] \subseteq Users[q]
  <2>1. /\ Users' \in UserSets
        /\ \A q \in Patterns : Users'[q] \subseteq Users[q] \cup {s}
        /\ \A q \in Patterns :
              s \in Users'[q] <=> \/ c.at = "starting" /\ c.pattern = q
                                  \/ /\ r # NoRunner /\ feeds'.all[r.sup].pattern = q
                                     /\ ~(c.op = "update" /\ c.at \in {"create", "starting"})
    BY <1>1, <1>2, UsersAfter
  <2>2. \A q \in Right' : q \in Patterns /\ q \notin short'
    BY DEF Right
  <2>3. \A q \in Right' : s \in Users'[q] => s \in Users[q]
    BY <1>1, <2>1, <2>2, UsersLemma
  <2> QED
    BY <2>1, <2>2, <2>3, UsersLemma
<1>4. Passes(s, feeds, Users, feeds', Users', Right')
  BY <1>1, <1>3, RightLemma, PassesSame
<1>5. FitOK(s)'
  BY <1>1, <1>2, FitAfter
<1> QED
  BY <1>2, <1>4, <1>5, SharedByStep

-----------------------------------------------------------------------------
-----------------------------------------------------------------------------
(* Calls *)

(* A strategy that a call is for, or may be for, is not yet to be booted.  *)
LEMMA NotBooting ==
    ASSUME SInv, NEW s \in Strategies, call[s].at # "none"
    PROVE  s \notin ToSet(booting) /\ short \subseteq Patterns
<1>1. call[s] # Idle
  BY DEF Idle
<1> QED
  BY <1>1 DEF SInv, BootDistinct

LEMMA MayCallLemma ==
    ASSUME SInv, NEW s \in Strategies, MayCall(s)
    PROVE  /\ up /\ booting = <<>> /\ s \notin ToSet(booting) /\ call[s] = Idle
           /\ call[s].op = "none" /\ call[s].at = "none" /\ short \subseteq Patterns
BY EmptyRegistry DEF MayCall, Idle, SInv

(* A start by "add" or "update", after the registry may have become f.     *)
LEMMA SharedByAcquire ==
    ASSUME OrchestratorTypes, SInv, NEW s \in Strategies, NEW op, NEW seen \in Rows, NEW f,
           MayCall(s), UNCHANGED <<row, up, booting, short>>, AcquireAndStart(s, op, seen, f),
           RegistryOK(f), Later(feeds, f), Passes(s, feeds, Users, f, Users, Right'),
           \/ op = "add" /\ runner[s] = NoRunner
           \/ /\ op = "update" /\ runner[s].running = FALSE
              /\ runner[s] # NoRunner /\ PatternOf(s) \in short
    PROVE  SInv'
<1> DEFINE p == seen.pattern
           c == [op |-> op, at |-> "create", pattern |-> p, sup |-> 0]
<1>1. /\ RowsOK /\ RegistryOK(feeds) /\ RunnersOK /\ CallsOK /\ BootDistinct
      /\ up /\ s \notin ToSet(booting) /\ short \subseteq Patterns
  BY MayCallLemma DEF OrchestratorTypes, SInv
<1>2. p \in Patterns
  BY DEF Rows
<1>3. /\ c.op = op /\ c.at = "create" /\ c.pattern = p
  OBVIOUS
<1>4. AcquireAndStart(s, op, seen, f) <=>
         \/ f.of[p] # 0 /\ feeds' = Referenced(f, p) /\ StartRunner(s, op, seen, f.of[p])
         \/ /\ f.of[p] = 0 /\ feeds' = f /\ Keep(s, seen)
            /\ call' = [call EXCEPT ![s] = c] /\ UNCHANGED runner
  BY DEF AcquireAndStart, Wait
<1> HIDE DEF c
<1>5. CASE f.of[p] # 0 /\ feeds' = Referenced(f, p) /\ StartRunner(s, op, seen, f.of[p])
  <2>1. RegistryOK(feeds') /\ Later(f, feeds') /\ feeds'.of = f.of
    BY <1>2, <1>5, ReferencedLemma
  <2>2. Later(feeds, feeds')
    <3>1. feeds.all \in Seq(Feed) /\ f.all \in Seq(Feed) /\ feeds'.all \in Seq(Feed)
      BY <1>1, <2>1 DEF RegistryOK, Registry
    <3> QED
      BY <2>1, <3>1, LaterLemma
  <2> QED
    BY <1>1, <1>2, <1>5, <2>1, <2>2, SharedByStart
<1>6. CASE /\ f.of[p] = 0 /\ feeds' = f /\ Keep(s, seen)
           /\ call' = [call EXCEPT ![s] = c] /\ UNCHANGED runner
  <2>1. Step(s, seen, c, runner[s])
    BY <1>1, <1>6 DEF Step, Keep, RunnersOK
  <2>2. Alone(s, seen, c, runner[s])
    BY <1>1, <1>6, <2>1 DEF Alone
  <2>3. runner[s] # NoRunner => feeds'.all[runner[s].sup].pattern = PatternOf(s)
    BY <1>6, PatternLemma DEF Later
  <2>4. Fits(seen, c, runner[s], feeds', short')
    BY <1>3, <2>3 DEF Fits
  <2>5. FitOK(s)'
    BY <2>2, <2>4, FitAfter
  <2>6. /\ Users \in UserSets /\ Users' \in UserSets /\ Right' \in SUBSET Patterns
        /\ \A q \in Right' : Users'[q] \subseteq Users[q]
    <3>1. /\ Users' \in UserSets
          /\ \A q \in Patterns : Users'[q] \subseteq Users[q] \cup {s}
          /\ \A q \in Patterns :
                s \in Users'[q] <=>
                    \/ c.at = "starting" /\ c.pattern = q
                    \/ /\ runner[s] # NoRunner /\ feeds'.all[runner[s].sup].pattern = q
                       /\ ~(c.op = "update" /\ c.at \in {"create", "starting"})
      BY <1>1, <2>2, UsersAfter
    <3>2. \A q \in Right' : q \in Patterns /\ s \notin Users'[q]
      BY <1>3, <3>1 DEF Right
    <3> QED
      BY <3>1, <3>2, UsersLemma DEF Right
  <2>7. Passes(s, f, Users, feeds', Users', Right')
    <3>1. LiveOK(f) /\ Counted(f, Users, Right')
      BY DEF Passes
    <3> QED
      BY <1>6, <2>6, <3>1, PassesSame
  <2>8. \A q \in Right' : Users[q] \ {s} \subseteq Users[q]
    OBVIOUS
  <2>9. Passes(s, feeds, Users, feeds', Users', Right')
    BY <2>7, <2>8, PassesOn
  <2> QED
    BY <2>2, <2>5, <2>9, SharedByStep
<1> QED
  BY <1>4, <1>5, <1>6

LEMMA SharedByAdd ==
    ASSUME OrchestratorTypes, SInv, NEW s \in Strategies, AddStrategy(s)
    PROVE  SInv'
<1>1. /\ MayCall(s) /\ runner[s] = NoRunner /\ Seen(s).desired = "RUNNING"
      /\ AcquireAndStart(s, "add", Seen(s), feeds) /\ UNCHANGED <<row, up, booting, short>>
  BY DEF AddStrategy
<1>2. Seen(s) \in Rows
  BY <1>1, SeenLemma DEF OrchestratorTypes
<1>3. /\ RegistryOK(feeds) /\ Later(feeds, feeds) /\ Passes(s, feeds, Users, feeds, Users, Right')
  BY <1>1, SelfLater, RightLemma DEF OrchestratorTypes
<1> QED
  BY <1>1, <1>2, <1>3, SharedByAcquire

LEMMA SharedBySupervisorStarted ==
    ASSUME OrchestratorTypes, SInv, NEW s \in Strategies, SupervisorStarted(s)
    PROVE  SInv'
<1> DEFINE c == call[s]
           p == c.pattern
<1>1. /\ c.at = "create" /\ UNCHANGED <<row, up, booting>>
      /\ RowsOK /\ RunnersOK /\ CallsOK /\ RegistryOK(feeds) /\ FitOK(s)
  BY DEF SupervisorStarted, OrchestratorTypes, SInv
<1>2. /\ up /\ session[s] \in Rows /\ p \in Patterns /\ c.op \in {"add", "update"}
  BY <1>1, CallLemma
<1>3. s \notin ToSet(booting) /\ short \subseteq Patterns
  BY <1>1, NotBooting
<1>4. /\ session[s].pattern = p
      /\ c.op = "add" => runner[s] = NoRunner
      /\ c.op = "update" =>
            /\ runner[s] # NoRunner /\ runner[s].running = FALSE
            /\ CanTransition(session[s].actual, "STARTING") \/ PatternOf(s) \in short
  BY <1>1 DEF FitOK, Migrating, CanTransition, ValidTransitions
<1>5. CASE /\ feeds' = Entered(feeds, p) /\ StartRunner(s, c.op, session[s], Len(feeds.all) + 1)
           /\ short' = IF feeds.of[p] # 0 THEN short \cup {p} ELSE short
  <2>1. /\ RegistryOK(feeds') /\ Later(feeds, feeds') /\ Len(feeds.all) \in Nat
        /\ feeds'.of[p] = Len(feeds.all) + 1
    BY <1>1, <1>2, <1>5, EnteredLemma
  <2>2. Len(feeds.all) + 1 # 0
    BY <2>1
  <2>3. short \subseteq short' /\ short' \subseteq Patterns /\ (p \notin short' => feeds.of[p] = 0)
    BY <1>2, <1>3, <1>5
  <2>4. Passes(s, feeds, Users, feeds, Users, Right')
    BY <2>3, RightLemma
  <2> HIDE DEF c, p
  <2> QED
    BY <1>1, <1>2, <1>3, <1>4, <1>5, <2>1, <2>2, <2>3, <2>4, SharedByStart
<1>6. CASE /\ Return(s) /\ UNCHANGED <<session, locked, runner, feeds>>
           /\ short' = IF c.op = "update" THEN short \cup {PatternOf(s)} ELSE short
  <2>1. Step(s, session[s], Idle, runner[s])
    BY <1>1, <1>2, <1>6 DEF Step, Return, RowsOK, RunnersOK
  <2>2. runner[s] # NoRunner =>
           c.op = "update" /\ PatternOf(s) = feeds.all[runner[s].sup].pattern /\ PatternOf(s) \in Patterns
    BY <1>2, <1>4, PatternLemma
  <2>3. Idle.at = "none" /\ Idle.op = "none"
    BY RowsLemma
  <2>5. CASE runner[s] = NoRunner
    <3>1. short' = short
      BY <1>4, <1>6, <2>5
    <3>2. Fits(session[s], Idle, runner[s], feeds, short')
      BY <2>3, <2>5 DEF Fits
    <3> QED
      BY <1>1, <1>2, <1>3, <1>6, <2>1, <2>3, <2>5, <3>1, <3>2, SharedByQuiet
  <2>6. CASE runner[s] # NoRunner
    <3>1. /\ short \subseteq short' /\ short' \subseteq Patterns
          /\ feeds.all[runner[s].sup].pattern \in short'
      BY <1>3, <1>6, <2>2, <2>6
    <3>2. Fits(session[s], Idle, runner[s], feeds, short')
      BY <2>3, <3>1 DEF Fits
    <3>3. ASSUME NEW q \in Patterns \ short',
                 \/ Idle.at = "starting" /\ Idle.pattern = q
                 \/ /\ runner[s] # NoRunner /\ feeds.all[runner[s].sup].pattern = q
                    /\ ~(Idle.op = "update" /\ Idle.at \in {"create", "starting"})
          PROVE  Uses(s, q)
      BY <2>3, <3>1, <3>3
    <3>4. UNCHANGED <<feeds, booting>>
      BY <1>1, <1>6
    <3> QED
      BY <1>2, <1>3, <2>1, <3>1, <3>2, <3>3, <3>4, SharedByQuiet
  <2> QED
    BY <2>5, <2>6
<1> QED
  BY <1>1, <1>5, <1>6 DEF SupervisorStarted

LEMMA SharedByRunnerStarted ==
    ASSUME OrchestratorTypes, SInv, NEW s \in Strategies, RunnerStarted(s)
    PROVE  SInv'
<1> DEFINE r == [sup |-> call[s].sup, running |-> TRUE, evaluating |-> FALSE]
           new == Written(session[s], "RUNNING")
           p == call[s].pattern
<1>1. /\ call[s].at = "starting" /\ UNCHANGED <<row, up, booting, feeds, short>>
      /\ Flush(s, new) /\ Started(s, call[s].sup, FALSE)
      /\ RegistryOK(feeds) /\ CallsOK /\ FitOK(s)
  BY DEF RunnerStarted, OrchestratorTypes, SInv
<1>2. up /\ session[s] \in Rows /\ p \in Patterns
  BY <1>1, CallLemma
<1>3. s \notin ToSet(booting) /\ short \subseteq Patterns
  BY <1>1, NotBooting
<1>4. Step(s, new, Idle, r)
  BY <1>1, <1>2 DEF Step, Flush, Started, Return
<1>5. new \in Rows
  BY <1>2, RowsLemma DEF States
<1>6. feeds.all[call[s].sup].pattern = p /\ (p \notin short => call[s].sup = feeds.of[p])
  BY <1>1 DEF FitOK
<1>7. r.sup = call[s].sup /\ r.running = TRUE /\ Uses(s, p)
  BY <1>1 DEF Uses
<1> HIDE DEF r, new
<1>8. Fits(new, Idle, r, feeds, short') /\ Idle.at = "none"
  BY <1>1, <1>6, <1>7, RowsLemma DEF Fits
<1> QED
  BY <1>1, <1>3, <1>4, <1>5, <1>6, <1>7, <1>8, SharedByQuiet

(* A runner that is in the map, and does not migrate, uses its supervisor. *)
LEMMA RunningLemma ==
    ASSUME OrchestratorTypes, SInv, NEW s \in Strategies, runner[s] # NoRunner, ~Migrating(s)
    PROVE  /\ Uses(s, PatternOf(s)) /\ PatternOf(s) \in Patterns /\ session[s] \in Rows
           /\ PatternOf(s) = feeds.all[runner[s].sup].pattern
           /\ PatternOf(s) \notin short =>
                 runner[s].running = TRUE /\ runner[s].sup = feeds.of[PatternOf(s)]
BY PatternLemma DEF SInv, FitOK, Uses

LEMMA SharedByStop ==
    ASSUME OrchestratorTypes, SInv, NEW s \in Strategies, NEW op \in {"remove", "update"},
           MayCall(s), runner[s] # NoRunner, StopRunner(s, op), UNCHANGED <<row, up, booting, short>>
    PROVE  SInv'
<1> DEFINE c == [op |-> op, at |-> "stopping", pattern |-> PatternOf(s), sup |-> 0]
           new == Written(session[s], "STOPPING")
<1>1. /\ up /\ s \notin ToSet(booting) /\ call[s].op = "none" /\ short \subseteq Patterns
      /\ UNCHANGED <<runner, feeds>> /\ RunnersOK
  BY MayCallLemma DEF StopRunner, OrchestratorTypes
<1>2. /\ Uses(s, PatternOf(s)) /\ session[s] \in Rows
      /\ PatternOf(s) = feeds.all[runner[s].sup].pattern
      /\ PatternOf(s) \notin short =>
            runner[s].running = TRUE /\ runner[s].sup = feeds.of[PatternOf(s)]
  BY <1>1, RunningLemma DEF Migrating
<1>3. Step(s, new, c, runner[s])
  BY <1>1 DEF Step, StopRunner, Flush, Wait, RunnersOK
<1>4. new \in Rows
  BY <1>2, RowsLemma DEF States
<1>5. c.op = op /\ c.at = "stopping"
  OBVIOUS
<1> HIDE DEF c, new
<1>6. Fits(new, c, runner[s], feeds, short')
  BY <1>2, <1>5 DEF Fits
<1>7. ASSUME NEW q \in Patterns \ short',
             \/ c.at = "starting" /\ c.pattern = q
             \/ /\ runner[s] # NoRunner /\ feeds.all[runner[s].sup].pattern = q
                /\ ~(c.op = "update" /\ c.at \in {"create", "starting"})
      PROVE  Uses(s, q)
  BY <1>2, <1>5, <1>7
<1>8. UNCHANGED <<feeds, booting>> /\ short \subseteq short' /\ short' \subseteq Patterns
  BY <1>1
<1> QED
  BY <1>1, <1>3, <1>4, <1>6, <1>7, <1>8, SharedByQuiet

(* A reference is given back by a strategy that used the supervisor, or    *)
(* whose pattern is short.                                                 *)
LEMMA SharedByForget ==
    ASSUME OrchestratorTypes, SInv, NEW s \in Strategies, NEW new \in Rows,
           runner[s] # NoRunner, ~Migrating(s), s \notin ToSet(booting), up, Forget(s),
           UNCHANGED <<row, up, booting, short>>,
           session' = [session EXCEPT ![s] = new], locked' \in {locked, locked \cup {s}}
    PROVE  SInv'
<1> DEFINE p == PatternOf(s)
<1>1. /\ RegistryOK(feeds) /\ BootDistinct /\ short \subseteq Patterns
  BY DEF OrchestratorTypes, SInv
<1>2. Uses(s, p) /\ p \in Patterns
  BY RunningLemma
<1>3. RegistryOK(Released(feeds, p)) /\ Later(feeds, Released(feeds, p))
  BY <1>1, <1>2, ReleasedLemma
<1>4. feeds' = Released(feeds, p) /\ Step(s, new, Idle, NoRunner)
  BY DEF Step, Forget, Return
<1> HIDE DEF p
<1>5. Alone(s, new, Idle, NoRunner)
  BY <1>1, <1>3, <1>4 DEF Alone
<1>6. Fits(new, Idle, NoRunner, feeds', short') /\ Idle.at = "none"
  BY RowsLemma DEF Fits, Idle
<1>7. /\ Users \in UserSets /\ Users' \in UserSets /\ s \in Users[p]
      /\ \A q \in Patterns : Users'[q] \subseteq Users[q] /\ s \notin Users'[q]
  <2>1. /\ Users' \in UserSets
        /\ \A q \in Patterns : Users'[q] \subseteq Users[q] \cup {s} /\ s \notin Users'[q]
    BY <1>1, <1>5, <1>6, UsersAfter
  <2> QED
    BY <1>2, <2>1, UsersLemma
<1>8. /\ LiveOK(feeds) /\ Counted(feeds, Users, Right') /\ Right' \in SUBSET Patterns
      /\ \A q \in Right' : q \in Patterns
  BY RightLemma
<1>9. Passes(s, feeds, Users, feeds', Users', Right')
  BY <1>1, <1>2, <1>4, <1>7, <1>8, PassesReleased
<1>10. FitOK(s)'
  BY <1>5, <1>6, FitAfter
<1> QED
  BY <1>5, <1>9, <1>10, SharedByStep

LEMMA SharedByRemove ==
    ASSUME OrchestratorTypes, SInv, NEW s \in Strategies, RemoveStrategy(s) \/ Removed(s)
    PROVE  SInv'
<1>1. CASE RemoveStrategy(s)
  <2>1. MayCall(s) /\ runner[s] # NoRunner /\ UNCHANGED <<row, up, booting, short>>
    BY <1>1 DEF RemoveStrategy
  <2>2. CASE StopRunner(s, "remove")
    BY <2>1, <2>2, SharedByStop
  <2>3. CASE Forget(s) /\ UNCHANGED <<session, locked>>
    <3>1. session[s] \in Rows /\ session' = [session EXCEPT ![s] = session[s]] /\ locked' = locked
      BY <2>1, <2>3, PatternLemma DEF OrchestratorTypes, RowsOK
    <3>2. ~Migrating(s) /\ s \notin ToSet(booting) /\ up
      BY <2>1, MayCallLemma DEF Migrating
    <3> QED
      BY <2>1, <2>3, <3>1, <3>2, SharedByForget
  <2> QED
    BY <1>1, <2>2, <2>3 DEF RemoveStrategy
<1>2. CASE Removed(s)
  <2>1. /\ call[s].at = "stopping" /\ call[s].op = "remove" /\ UNCHANGED <<row, up, booting, short>>
        /\ Flush(s, Written(session[s], "STOPPED")) /\ Forget(s)
    BY <1>2 DEF Removed
  <2>2. up /\ session[s] \in Rows /\ runner[s] # NoRunner /\ ~Migrating(s) /\ s \notin ToSet(booting)
    BY <2>1, CallLemma, NotBooting DEF Migrating
  <2>3. Written(session[s], "STOPPED") \in Rows
    BY <2>2, RowsLemma DEF States
  <2> QED
    BY <2>1, <2>2, <2>3, SharedByForget DEF Flush
<1> QED
  BY <1>1, <1>2

(* A runner that does not run was left by a migration: its pattern is short.*)
LEMMA SharedByUpdate ==
    ASSUME OrchestratorTypes, SInv, NEW s \in Strategies, UpdateStrategy(s)
    PROVE  SInv'
<1>1. /\ MayCall(s) /\ runner[s] # NoRunner /\ UNCHANGED <<row, up, booting, short>>
      /\ Seen(s).desired = "RUNNING"
  BY DEF UpdateStrategy
<1>2. CASE StopRunner(s, "update")
  BY <1>1, <1>2, SharedByStop
<1>3. CASE /\ ~runner[s].running
           /\ AcquireAndStart(s, "update", Seen(s), Released(feeds, PatternOf(s)))
  <2> DEFINE p == PatternOf(s)
             f == Released(feeds, p)
  <2>1. Seen(s) \in Rows
    BY <1>1, SeenLemma DEF OrchestratorTypes
  <2>2. p \in Patterns /\ p \in short
    BY <1>1, <1>3, MayCallLemma, RunningLemma DEF Migrating
  <2>3. RegistryOK(feeds) /\ RegistryOK(f) /\ Later(feeds, f)
    BY <2>2, ReleasedLemma DEF OrchestratorTypes
  <2>4. /\ LiveOK(feeds) /\ Counted(feeds, Users, Right') /\ Right' \in SUBSET Patterns
        /\ Users \in UserSets /\ p \notin Right'
    BY <1>1, <2>2, RightLemma, UsersLemma DEF Right
  <2>5. Passes(s, feeds, Users, f, Users, Right')
    <3>1. \A q \in Right' : Users[q] \subseteq Users[q]
      OBVIOUS
    <3> HIDE DEF p
    <3> QED
      BY <2>2, <2>3, <2>4, <3>1, PassesReleased
  <2>6. runner[s].running = FALSE
    BY <1>3 DEF OrchestratorTypes, RunnersOK, Runner
  <2>7. AcquireAndStart(s, "update", Seen(s), f) /\ PatternOf(s) \in short
    BY <1>3, <2>2
  <2> HIDE DEF f, p
  <2> QED
    BY <1>1, <2>1, <2>3, <2>5, <2>6, <2>7, SharedByAcquire
<1> QED
  BY <1>2, <1>3 DEF UpdateStrategy

LEMMA SharedByMigrate ==
    ASSUME OrchestratorTypes, SInv, NEW s \in Strategies, Migrate(s)
    PROVE  SInv'
<1> DEFINE o == PatternOf(s)
           f == Released(feeds, o)
           p == session[s].pattern
           V == [q \in Patterns |-> Users[q] \ {s}]
<1>1. /\ call[s].at = "stopping" /\ UNCHANGED short
      /\ RegistryOK(feeds) /\ BootDistinct /\ LiveOK(feeds)
      /\ Counted(feeds, Users, Right') /\ Right' \in SUBSET Patterns
  BY RightLemma DEF Migrate, OrchestratorTypes, SInv
<1>2. PICK new \in Rows, c \in Call, r \in Runner :
         /\ Step(s, new, c, r) /\ UNCHANGED booting /\ new.pattern = p
         /\ r.sup = runner[s].sup /\ r.running = FALSE
         /\ c.op = "update" /\ c.pattern = p
         /\ \/ f.of[p] # 0 /\ feeds' = Referenced(f, p) /\ c.at = "starting" /\ c.sup = f.of[p]
            \/ f.of[p] = 0 /\ feeds' = f /\ c.at = "create" /\ new.actual = "STOPPED"
  BY MigrateLemma
<1>3. /\ runner[s] # NoRunner /\ ~Migrating(s) /\ s \notin ToSet(booting) /\ short \subseteq Patterns
      /\ p \in Patterns
  BY <1>1, CallLemma, NotBooting DEF Migrating
<1>4. /\ Uses(s, o) /\ o \in Patterns /\ runner[s].sup \in 1..Len(feeds.all)
  BY <1>3, RunningLemma, PatternLemma
<1>5. RegistryOK(f) /\ Later(feeds, f)
  BY <1>1, <1>4, ReleasedLemma
<1>6. V \in UserSets /\ Users \in UserSets /\ s \in Users[o] /\ \A q \in Patterns : V[q] = Users[q] \ {s}
  BY <1>4, UsersLemma DEF UserSets
<1>7. Passes(s, feeds, Users, f, V, Right')
  <2>1. s \notin V[o] /\ \A q \in Right' : V[q] \subseteq Users[q]
    BY <1>1, <1>4, <1>6
  <2> HIDE DEF V
  <2> QED
    BY <1>1, <1>4, <1>5, <1>6, <2>1, PassesReleased
<1>8. LiveOK(f) /\ Counted(f, V, Right')
  BY <1>7 DEF Passes
<1> HIDE DEF V, f, o, p
<1>9. /\ RegistryOK(feeds') /\ Later(f, feeds') /\ feeds'.of = f.of
  <2>1. CASE f.of[p] # 0 /\ feeds' = Referenced(f, p)
    BY <1>3, <1>5, <2>1, ReferencedLemma
  <2>2. CASE feeds' = f
    BY <1>5, <2>2, SelfLater
  <2> QED
    BY <1>2, <2>1, <2>2
<1>10. Later(feeds, feeds')
  <2>1. feeds.all \in Seq(Feed) /\ f.all \in Seq(Feed) /\ feeds'.all \in Seq(Feed)
    BY <1>1, <1>5, <1>9 DEF RegistryOK, Registry
  <2> QED
    BY <1>5, <1>9, <2>1, LaterLemma
<1>11. Alone(s, new, c, r)
  BY <1>1, <1>2, <1>3, <1>10 DEF Alone
<1>12. Fits(new, c, r, feeds', short')
  <2>1. r # NoRunner
    BY <1>2, <1>4 DEF NoRunner
  <2>2. c.at = "starting" => feeds'.all[c.sup].pattern = c.pattern
    BY <1>2, <1>3, <1>9 DEF RegistryOK
  <2> QED
    BY <1>2, <1>9, <2>1, <2>2 DEF Fits
<1>13. /\ Users' \in UserSets
       /\ \A q \in Right' : Users'[q] \subseteq V[q] \cup {s}
       /\ \A q \in Right' : s \in Users'[q] => c.at = "starting" /\ q = p
  <2>1. /\ Users' \in UserSets
        /\ \A q \in Patterns : Users'[q] \subseteq Users[q] \cup {s}
        /\ \A q \in Patterns :
              s \in Users'[q] <=> \/ c.at = "starting" /\ c.pattern = q
                                  \/ /\ r # NoRunner /\ feeds'.all[r.sup].pattern = q
                                     /\ ~(c.op = "update" /\ c.at \in {"create", "starting"})
    BY <1>1, <1>11, UsersAfter
  <2>2. \A q \in Patterns : s \in Users'[q] => c.at = "starting" /\ q = p
    BY <1>2, <2>1
  <2> QED
    BY <1>1, <1>6, <2>1, <2>2
<1>14. Passes(s, f, V, feeds', Users', Right')
  <2>1. CASE f.of[p] # 0 /\ feeds' = Referenced(f, p)
    <3>1. \A q \in Right' : Users'[q] \subseteq V[q] \/ (q = p /\ Users'[q] \subseteq V[q] \cup {s})
      BY <1>13
    <3> QED
      BY <1>1, <1>3, <1>5, <1>6, <1>8, <1>13, <2>1, <3>1, PassesReferenced
  <2>2. CASE feeds' = f /\ c.at = "create"
    <3>1. \A q \in Right' : Users'[q] \subseteq V[q]
      BY <1>13, <2>2
    <3> QED
      BY <1>1, <1>5, <1>6, <1>8, <1>13, <2>2, <3>1, PassesSame
  <2> QED
    BY <1>2, <2>1, <2>2
<1>15. Passes(s, feeds, Users, feeds', Users', Right')
  <2>1. \A q \in Right' : Users[q] \ {s} \subseteq V[q]
    BY <1>1, <1>6
  <2> QED
    BY <1>7, <1>14, <2>1, PassesOn
<1>16. FitOK(s)'
  BY <1>11, <1>12, FitAfter
<1> QED
  BY <1>11, <1>15, <1>16, SharedByStep

LEMMA SharedByBootNext ==
    ASSUME OrchestratorTypes, SInv, BootNext
    PROVE  SInv'
<1> DEFINE s == Head(booting)
           seen == session[s]
           sup == feeds.of[seen.pattern]
<1>1. /\ booting # <<>> /\ booting' = Tail(booting) /\ booting \in Seq(Strategies)
      /\ \A t \in Strategies : call[t] = Idle
      /\ StartRunner(s, "boot", seen, sup) /\ UNCHANGED <<row, up, feeds, short>>
      /\ RegistryOK(feeds) /\ RowsOK /\ CallsOK /\ BootingOK
      /\ short \subseteq short' /\ short' \subseteq Patterns
  BY DEF BootNext, OrchestratorTypes, CallsOK, SInv
<1>2. s \in Strategies /\ s \in ToSet(booting)
  BY <1>1, TailLemma
<1>3. /\ up /\ seen \in Rows /\ runner[s] = NoRunner /\ sup # 0 /\ Uses(s, seen.pattern)
  BY <1>1, <1>2 DEF CallsOK, RowsOK, Holds, SInv, BootDistinct, BootingOK, Uses
<1>4. Later(feeds, feeds') /\ RegistryOK(feeds') /\ sup = feeds'.of[seen.pattern]
  BY <1>1, SelfLater
<1>5. s = Head(booting)
  OBVIOUS
<1>6. Passes(s, feeds, Users, feeds, Users, Right')
  BY <1>1, RightLemma
<1> HIDE DEF s, seen, sup
<1> QED
  BY <1>1, <1>2, <1>3, <1>4, <1>5, <1>6, SharedByStart

LEMMA SharedByBoot ==
    ASSUME OrchestratorTypes, OrchestratorTypes', SInv, Boot
    PROVE  SInv'
<1>1. /\ RowsOK /\ CallsOK /\ ~up /\ UNCHANGED <<call, runner>> /\ short' = SharedAtBoot
      /\ session' = [s \in Strategies |-> IF s \in Enabled THEN row[s] ELSE session[s]]
      /\ booting' \in SetToSeqs(Enabled)
  BY DEF Boot, OrchestratorTypes
<1>2. /\ IsFiniteSet(Enabled) /\ \A s \in Enabled : s \in Strategies /\ row[s] \in Rows
      /\ IsFiniteSet(NeededAtBoot) /\ NeededAtBoot \subseteq Patterns
  BY <1>1, EnabledLemma
<1>3. /\ ToSet(booting') = Enabled
      /\ \A i, j \in DOMAIN booting' : booting'[i] = booting'[j] => i = j
  BY <1>1, <1>2, OrderLemma
<1>4. PICK ps \in SetToSeqs(NeededAtBoot) : feeds' = EnteredAll(ps)
  BY DEF Boot
<1>5. /\ RegistryOK(feeds')
      /\ \A p \in Patterns : feeds'.refs[p] = IF p \in NeededAtBoot THEN 1 ELSE 0
      /\ \A i \in 1..Len(feeds'.all) : feeds'.all[i].running = TRUE
  <2>1. /\ RegistryOK(EnteredAll(ps))
        /\ \A p \in Patterns : EnteredAll(ps).refs[p] = IF p \in NeededAtBoot THEN 1 ELSE 0
        /\ \A i \in 1..Len(EnteredAll(ps).all) : EnteredAll(ps).all[i].running = TRUE
    BY <1>2, EnteredAllLemma
  <2> QED
    BY <1>4, <2>1, Zenon
<1>6. \A s \in Strategies : call'[s] = Idle /\ runner'[s] = NoRunner
  BY <1>1 DEF CallsOK
<1>7. BootDistinct' /\ short' \subseteq Patterns
  BY <1>1, <1>2, <1>3, <1>6 DEF BootDistinct, Idle, NoRunner, SharedAtBoot
<1>8. \A s \in Strategies : FitOK(s)'
  BY <1>6, RowsLemma DEF FitOK, Migrating, Idle, NoRunner
<1>9. LiveOK(feeds)'
  BY <1>5 DEF LiveOK, RegistryOK
<1>10. ASSUME NEW p \in Patterns \ short' PROVE Cardinality(Users'[p]) <= feeds'.refs[p]
  <2>1. \A s \in Users'[p] : s \in Enabled /\ row[s].pattern = p
    <3>1. \A s \in Users'[p] : s \in Strategies /\ Uses(s, p)'
      BY DEF Users
    <3>2. \A s \in Strategies : Uses(s, p)' => s \in Enabled /\ session'[s].pattern = p
      BY <1>3, <1>6, RowsLemma DEF Uses, Idle, NoRunner
    <3> QED
      BY <1>1, <3>1, <3>2
  <2>2. CASE Users'[p] = {}
    <3>1. Cardinality(Users'[p]) = 0
      BY <2>2, FS_EmptySet
    <3>2. feeds'.refs[p] \in Nat
      BY <1>5 DEF RegistryOK, Registry
    <3> QED
      BY <3>1, <3>2
  <2>3. CASE Users'[p] # {}
    <3>1. PICK s \in Users'[p] : TRUE
      BY <2>3
    <3>2. \A t \in Users'[p] : t = s
      BY <1>1, <1>10, <2>1, <3>1 DEF SharedAtBoot
    <3>3. Users'[p] = {s} /\ p \in NeededAtBoot
      BY <2>1, <3>1, <3>2 DEF NeededAtBoot
    <3>4. Cardinality(Users'[p]) = 1
      BY <3>3, FS_Singleton
    <3> QED
      BY <1>5, <3>3, <3>4
  <2> QED
    BY <2>2, <2>3
<1>11. Counted(feeds, Users, Patterns \ short)'
  BY <1>10 DEF Counted
<1> QED
  BY <1>7, <1>8, <1>9, <1>11 DEF SInv

(* No runner, no call and nothing to boot: nothing is used. *)
LEMMA SharedByNobody ==
    ASSUME \A s \in Strategies : call[s] = Idle /\ runner[s] = NoRunner, booting = <<>>, feeds = NoFeeds,
           short = {}
    PROVE  SInv
<1>1. /\ RegistryOK(NoFeeds) /\ \A p \in Patterns : NoFeeds.of[p] = 0 /\ NoFeeds.refs[p] = 0
      /\ ToSet(<<>>) = {} /\ DOMAIN <<>> = {}
  BY EmptyRegistry, EmptySeq
<1>2. BootDistinct /\ LiveOK(feeds)
  BY <1>1 DEF BootDistinct, LiveOK
<1>3. \A s \in Strategies : FitOK(s) /\ \A p \in Patterns : ~Uses(s, p)
  BY <1>1, RowsLemma DEF FitOK, Migrating, Uses
<1>4. \A p \in Patterns : Users[p] = {}
  BY <1>3 DEF Users
<1>5. Counted(feeds, Users, Patterns \ short)
  <2>1. Cardinality({}) = 0 /\ \A p \in Patterns : feeds.refs[p] = 0
    BY <1>1, FS_EmptySet
  <2>2. \A p \in Patterns : Cardinality(Users[p]) = 0 /\ feeds.refs[p] = 0
    BY <1>4, <2>1
  <2>3. \A p \in Patterns : Cardinality(Users[p]) <= feeds.refs[p]
    BY <2>2
  <2> QED
    BY <2>3 DEF Counted
<1> QED
  BY <1>2, <1>3, <1>5 DEF SInv

LEMMA SharedByDown ==
    ASSUME Down
    PROVE  SInv'
<1>1. /\ booting' = <<>> /\ feeds' = NoFeeds /\ short' = {}
      /\ \A s \in Strategies : call'[s] = Idle /\ runner'[s] = NoRunner
  BY DEF Down
<1>2. /\ RegistryOK(NoFeeds) /\ \A p \in Patterns : NoFeeds.of[p] = 0 /\ NoFeeds.refs[p] = 0
      /\ ToSet(<<>>) = {} /\ DOMAIN <<>> = {}
  BY EmptyRegistry, EmptySeq
<1>3. BootDistinct' /\ LiveOK(feeds)'
  BY <1>1, <1>2 DEF BootDistinct, LiveOK, Idle, NoRunner
<1>4. \A s \in Strategies : FitOK(s)' /\ \A p \in Patterns : ~Uses(s, p)'
  BY <1>1, <1>2, RowsLemma DEF FitOK, Migrating, Uses, Idle, NoRunner
<1>5. \A p \in Patterns : Users'[p] = {}
  BY <1>4 DEF Users
<1>6. Counted(feeds, Users, Patterns \ short)'
  <2>1. Cardinality({}) = 0 /\ \A p \in Patterns : feeds'.refs[p] = 0
    BY <1>1, <1>2, FS_EmptySet
  <2> QED
    BY <1>5, <2>1 DEF Counted
<1> QED
  BY <1>1, <1>3, <1>4, <1>6 DEF SInv

(* The table of strategies is none of the registry's business, and the     *)
(* session is not written while a call is in progress.                     *)
LEMMA SharedByRows ==
    ASSUME SInv, UNCHANGED platform,
           \/ UNCHANGED session
           \/ booting = <<>> /\ \A t \in Strategies : call[t] = Idle
    PROVE  SInv'
<1>1. UNCHANGED <<up, booting, call, runner, feeds, short>>
  BY DEF platform
<1>2. BootDistinct' /\ LiveOK(feeds)' /\ short' \subseteq Patterns
  BY <1>1 DEF SInv, BootDistinct, LiveOK, Idle, NoRunner
<1>3. \A s \in Strategies : FitOK(s)'
  BY <1>1, RowsLemma DEF SInv, FitOK, Migrating, PatternOf, NoRunner
<1>4. \A s \in Strategies, p \in Patterns : Uses(s, p)' <=> Uses(s, p)
  BY <1>1, EmptyRegistry DEF Uses, Migrating, PatternOf, NoRunner
<1>5. Users' = Users
  BY <1>4 DEF Users
<1>6. Counted(feeds, Users, Patterns \ short)'
  BY <1>1, <1>5 DEF SInv, Counted
<1> QED
  BY <1>2, <1>3, <1>6 DEF SInv

LEMMA SharedKept ==
    ASSUME CInv, TInv, TInv', SInv, [Next]_vars
    PROVE  SInv'
<1>1. OrchestratorTypes /\ OrchestratorTypes'
  BY DEF TInv
<1>2. CASE Orchestrate
  <2>1. ASSUME NEW s \in Strategies, Calls(s) \/ Work(s) PROVE SInv'
    BY <1>1, <2>1, SharedByAdd, SharedByRemove, SharedByUpdate, SharedBySupervisorStarted,
       SharedByRunnerStarted, SharedByMigrate DEF Calls, Work
  <2> QED
    BY <1>1, <1>2, <2>1, SharedByBoot, SharedByBootNext DEF Orchestrate
<1>3. CASE UNCHANGED platform /\ UNCHANGED session
  BY <1>3, SharedByRows
<1>4. CASE Api
  <2>1. ASSUME NEW s \in Strategies, NEW d, NEW p \in Patterns,
               CreateStrategy(s, d, p) \/ PatchStrategy(s, d, p)
        PROVE  SInv'
    <3>1. /\ UNCHANGED platform
          /\ UNCHANGED session \/ (booting = <<>> /\ \A t \in Strategies : call[t] = Idle)
      BY <2>1 DEF CreateStrategy, PatchStrategy
    <3> QED
      BY <3>1, SharedByRows
  <2>2. CASE UNCHANGED <<strategies, platform, crashes>>
    BY <1>3, <2>2 DEF strategies
  <2> QED
    BY <1>4, <2>1, <2>2 DEF Api
<1>5. CASE Service \/ Fault
  <2>1. UNCHANGED platform /\ UNCHANGED session
    BY <1>5, ServiceLemma DEF Switch, strategies
  <2> QED
    BY <1>3, <2>1
<1>6. CASE Crash
  BY <1>6, SharedByDown DEF Crash
<1>7. CASE UNCHANGED vars
  BY <1>3, <1>7 DEF vars, strategies
<1> QED
  BY <1>2, <1>4, <1>5, <1>6, <1>7 DEF Next

(* However strategies come, go and migrate, in calls that overlap, with    *)
(* patterns shared at boot and supervisors that cannot be made: a running  *)
(* strategy's market supervisor runs, unless its pattern is short.  There  *)
(* is a reference for every strategy that uses it.                         *)
THEOREM SharedSupervisorsLive == Spec => []SharedAlive
<1>1. Init => SInv
  <2> SUFFICES ASSUME Init PROVE SInv
    OBVIOUS
  <2>1. /\ booting = <<>> /\ feeds = NoFeeds /\ short = {}
        /\ \A s \in Strategies : call[s] = Idle /\ runner[s] = NoRunner
    BY DEF Init, OrchestratorInit
  <2> QED
    BY <2>1, SharedByNobody
<1>2. (CInv /\ TInv) /\ (CInv /\ TInv)' /\ SInv /\ [Next]_vars => SInv'
  BY SharedKept
<1>3. TInv /\ SInv => SharedAlive
  <2> SUFFICES ASSUME TInv, SInv, NEW s \in Strategies, runner[s].running, PatternOf(s) \notin short
               PROVE  feeds.all[runner[s].sup].running
    BY DEF SharedAlive
  <2>1. OrchestratorTypes /\ FitOK(s) /\ LiveOK(feeds) /\ RegistryOK(feeds)
    BY DEF TInv, SInv, OrchestratorTypes
  <2>2. runner[s] # NoRunner /\ ~Migrating(s)
    BY <2>1 DEF FitOK, NoRunner
  <2>3. /\ runner[s].sup = feeds.of[PatternOf(s)] /\ PatternOf(s) \in Patterns
        /\ runner[s].sup \in 1..Len(feeds.all)
    BY <2>1, <2>2, PatternLemma DEF FitOK
  <2> QED
    BY <2>1, <2>3 DEF LiveOK
<1>4. Spec => [](CInv /\ TInv)
  BY TypesInvariant
<1> QED
  BY <1>1, <1>2, <1>3, <1>4, PTL DEF Spec
=============================================================================
