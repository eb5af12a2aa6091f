---------------------------- MODULE ControlPlane ----------------------------
(***************************************************************************)
(* Control commands: the API that checks and queues them (api/control.py), *)
(* their tables (platform/control.py), and the service that polls and      *)
(* applies them (platform/control_plane.py).                               *)
(*                                                                         *)
(* A command is ordered by the time its request began.  It takes effect in *)
(* one transaction, or in two for a strategy, and is marked in another: a  *)
(* crash may come in between, and the command is still pending then.  The  *)
(* service uses one session and never rolls it back: after a statement has *)
(* failed all others do, the one that marks the command too, and the       *)
(* service has ended.                                                      *)
(***************************************************************************)
EXTENDS Orchestrator

CONSTANTS
    Requests,    \* what clients ask: [type, strategy, id, expected]
    Clients,     \* requests that can be in progress at once
    MaxCommands, \* bound on commands
    MaxClock,    \* bound on the clock
    MaxErrors    \* bound on database errors of the service

ASSUME ControlAssumption == {MaxCommands, MaxClock, MaxErrors} \subseteq Nat

NoVersion == 0   \* expected_version not given

(* Only enable and disable carry an expected version. *)
ASSUME RequestsAssumption ==
    \A r \in Requests :
        /\ r.type \in {"enable", "disable", "add", "remove"} /\ r.expected \in Nat
        /\ r.type \in {"add", "remove"} => r.expected = NoVersion /\ r.strategy \in Strategies

VARIABLES
    http,      \* each client's request in progress, checked, not yet stored
    clock,     \* when a request begins; commands are ordered by it
    commands,  \* control_commands in the order they were stored
    table,     \* execution_control: [enabled, version]
    active,    \* live_strategy_activation
    memory,    \* ExecutionControl._enabled in the process
    batch,     \* what list_pending gave, not yet processed
    doing,     \* where the service is with the head of it
    service,   \* its task: "off", "on", or "dead"
    effects,   \* commands that took effect, in order
    errors     \* database errors so far

control == <<http, clock, commands, table, active, memory, batch, doing, service, effects, errors>>

NoRequest == [at |-> 0]

ControlInit ==
    /\ http = [c \in Clients |-> NoRequest] /\ clock = 0 /\ commands = <<>>
    /\ table = [enabled |-> FALSE, version |-> 1]
    /\ active = [s \in Strategies |-> FALSE] /\ memory = FALSE
    /\ batch = <<>> /\ doing = "poll" /\ service = "off" /\ effects = <<>> /\ errors = 0

-----------------------------------------------------------------------------
(* A command endpoint: the command that has this type, strategy and id is  *)
(* answered again; a version that is not current is refused; otherwise the *)
(* command is stored, if meanwhile no other request has stored it (the     *)
(* table's index is unique) and its strategy exists (a foreign key).       *)
Same(r, q)    == r.type = q.type /\ r.strategy = q.strategy /\ r.id = q.id
Stored(r)     == \E i \in DOMAIN commands : Same(commands[i].request, r)
Unknown(r)    == r.strategy \in Strategies /\ row[r.strategy] = NoRow
Refused_Late(r) == Unknown(r)
Refused(r)    == Stored(r) \/ Unknown(r)
Current_Loose(r) == r.expected = NoVersion \/ r.expected <= table.version
Current(r)    == r.expected = NoVersion \/ r.expected = table.version

Ask(c, r) ==
    /\ http[c].at = 0 /\ clock < MaxClock
    /\ Len(commands) + Cardinality({d \in Clients : http[d].at # 0}) < MaxCommands
    /\ ~Stored(r) /\ Current(r)
    /\ clock' = clock + 1
    /\ http' = [http EXCEPT ![c] = [request |-> r, at |-> clock + 1]]
    /\ UNCHANGED <<commands, table, active, memory, batch, doing, service, effects, errors>>

Store(c) ==
    LET r == http[c].request IN
    /\ http[c].at # 0 /\ http' = [http EXCEPT ![c] = NoRequest]
    /\ clock' = clock + 1
    /\ commands' = IF Refused(r) THEN commands
                   ELSE Append(commands, [request |-> r, at |-> http[c].at,
                                          stored |-> clock + 1, status |-> "pending"])
    /\ UNCHANGED <<table, active, memory, batch, doing, service, effects, errors>>

-----------------------------------------------------------------------------
(* _run: all pending commands, in the order of their requests, and each of *)
(* them processed before the next poll.                                    *)
Pending == {i \in DOMAIN commands : commands[i].status = "pending"}
InOrder_Latest(b) ==
    \A i, j \in DOMAIN b : i < j => commands[b[i]].at > commands[b[j]].at
InOrder(b) ==
    \A i, j \in DOMAIN b : i < j => commands[b[i]].at < commands[b[j]].at

Poll ==
    /\ service = "on" /\ doing = "poll" /\ batch = <<>> /\ Pending # {}
    /\ \E b \in [1..Cardinality(Pending) -> Pending] :
          ToSet(b) = Pending /\ InOrder(b) /\ batch' = b
    /\ doing' = "take"
    /\ UNCHANGED <<http, clock, commands, table, active, memory, service, effects, errors>>

Advance == batch' = Tail(batch) /\ doing' = IF Len(batch) = 1 THEN "poll" ELSE "take"
Mark_Applied(i, status) ==
    commands' = IF status = "applied" THEN [commands EXCEPT ![i].status = status] ELSE commands
Mark(i, status) == commands' = [commands EXCEPT ![i].status = status]

Command == commands[Head(batch)].request

(* _process_command up to the commit of the effect, and for enable and     *)
(* disable the flag in memory.                                             *)
Execute ==
    LET on == Command.type = "enable" IN
    /\ Command.type \in {"enable", "disable"}
    /\ table' = [enabled |-> on, version |-> table.version + 1] /\ memory' = on
    /\ effects' = Append(effects, Head(batch)) /\ doing' = "mark"
    /\ UNCHANGED active

Activate ==
    /\ Command.type \in {"add", "remove"} /\ doing' = "strategy"
    /\ active' = [active EXCEPT ![Command.strategy] = (Command.type = "add")]
    /\ UNCHANGED <<table, memory, effects>>

Take ==
    /\ service = "on" /\ doing = "take"
    /\ \/ /\ ~Current(Command) /\ Mark(Head(batch), "failed") /\ Advance
          /\ UNCHANGED <<table, active, memory, effects>>
       \/ Current(Command) /\ (Execute \/ Activate) /\ UNCHANGED <<commands, batch>>
    /\ UNCHANGED <<http, clock, service, errors, strategies>>

(* The second half of add and remove: both states of the strategy's row.   *)
(* It waits while the orchestrator's session has the row locked.           *)
Wanted(r) == IF r.type = "add" THEN "RUNNING" ELSE "STOPPED"

Switch ==
    LET r == Command IN
    /\ service = "on" /\ doing = "strategy"
    /\ r.strategy \notin locked
    /\ row' = [row EXCEPT ![r.strategy] = Written(@, Wanted(r))]
    /\ effects' = Append(effects, Head(batch)) /\ doing' = "mark"
    /\ UNCHANGED <<session, locked, http, clock, commands, table, active, memory, batch, service, errors>>

MarkApplied ==
    /\ service = "on" /\ doing = "mark" /\ Mark(Head(batch), "applied") /\ Advance
    /\ UNCHANGED <<http, clock, table, active, memory, service, effects, errors, strategies>>

(* A statement of the service fails before the effect, or after it: the    *)
(* command stays pending and the service ends.  If the commit of the mark  *)
(* fails, the session is usable again and the command is marked failed.    *)
DatabaseError ==
    /\ service = "on" /\ errors < MaxErrors /\ errors' = errors + 1
    /\ \/ service' = "dead" /\ UNCHANGED <<commands, batch, doing>>
       \/ doing = "mark" /\ Mark(Head(batch), "failed") /\ Advance /\ UNCHANGED service
    /\ UNCHANGED <<http, clock, table, active, memory, effects, strategies>>

(* The service starts after the orchestrator, with execution disabled in   *)
(* memory whatever the table says.                                         *)
Serve ==
    /\ service = "off" /\ up /\ booting = <<>> /\ \A s \in Strategies : call[s].op # "boot"
    /\ service' = "on"
    /\ UNCHANGED <<http, clock, commands, table, active, memory, batch, doing, effects, errors, strategies>>

Lost ==
    /\ http' = [c \in Clients |-> NoRequest] /\ memory' = FALSE
    /\ batch' = <<>> /\ doing' = "poll" /\ service' = "off"
    /\ UNCHANGED <<clock, commands, table, active, effects, errors>>
=============================================================================
