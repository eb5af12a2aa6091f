------------------------------ MODULE Platform ------------------------------
(***************************************************************************)
(* The platform process (tasks/platform.py): API, orchestrator and control *)
(* plane service around one database.  The API serves while the platform   *)
(* is down, too: it has a process of its own, which does not crash here.   *)
(***************************************************************************)
EXTENDS ControlPlane

CONSTANTS
    Operations,   \* what callers do with the orchestrator: "add", "remove", "update"
    PatchStates,  \* desired states an operator sets with PATCH
    MaxCrashes    \* bound

ASSUME PlatformAssumption == PatchStates \subseteq States /\ MaxCrashes \in Nat

VARIABLE crashes

vars == <<strategies, platform, control, crashes>>

Init == OrchestratorInit /\ ControlInit /\ crashes = 0

Kept == UNCHANGED <<control, crashes>>

Api ==
    \/ \E s \in Strategies, d \in InitialStates, p \in Patterns : CreateStrategy(s, d, p) /\ Kept
    \/ \E s \in Strategies, p \in Patterns :
          \E d \in PatchStates \cup {row[s].desired} : PatchStrategy(s, d, p) /\ Kept
    \/ \E c \in Clients : /\ Store(c) \/ \E r \in Requests : Ask(c, r)
                          /\ UNCHANGED <<strategies, platform, crashes>>

Calls(s) ==
    \/ "add" \in Operations /\ AddStrategy(s)
    \/ "remove" \in Operations /\ RemoveStrategy(s)
    \/ "update" \in Operations /\ UpdateStrategy(s)

Work(s) == SupervisorStarted(s) \/ RunnerStarted(s) \/ Removed(s) \/ Migrate(s)

Orchestrate ==
    /\ Boot \/ BootNext \/ \E s \in Strategies : Calls(s) \/ Work(s)
    /\ Kept

Process == Poll \/ Take \/ Switch \/ MarkApplied
Service == (Process \/ Serve) /\ UNCHANGED <<platform, crashes>> /\ (Switch \/ UNCHANGED strategies)
Fault   == DatabaseError /\ UNCHANGED <<platform, crashes>>

Crash == Down /\ Lost /\ crashes < MaxCrashes /\ crashes' = crashes + 1

Next == Api \/ Orchestrate \/ Service \/ Fault \/ Crash

(* The event loop runs what is ready and the database answers; the         *)
(* operator starts the platform again.                                     *)
Fairness ==
    /\ WF_vars(Service)
    /\ WF_vars((Boot \/ BootNext) /\ Kept)
    /\ \A s \in Strategies : WF_vars(Work(s) /\ Kept)

Spec     == Init /\ [][Next]_vars
FairSpec == Spec /\ Fairness

-----------------------------------------------------------------------------
(* Properties *)

(* Types; a supervisor is in the registry iff it is counted. *)
TypeOK ==
    /\ \A s \in Strategies : row[s] = NoRow \/ row[s] \in
          [desired : States, actual : States, pattern : Patterns]
    /\ locked \subseteq Strategies
    /\ \A s \in Strategies : runner[s].sup \in 0..Len(feeds.all)
    /\ \A p \in Patterns : feeds.of[p] # 0 <=> feeds.refs[p] > 0
    /\ \A i \in DOMAIN commands : commands[i].status \in {"pending", "applied", "failed"}
    /\ Pending \cup ToSet(batch) \subseteq DOMAIN commands

(* A miscount stays with its pattern: however strategies come, go, migrate *)
(* and share supervisors, a running strategy's market supervisor runs,     *)
(* unless its pattern was shared at boot (counted as one), entered by two  *)
(* calls at once, or left by a migration that failed.                      *)
SharedAlive ==
    \A s \in Strategies :
        runner[s].running /\ PatternOf(s) \notin short => feeds.all[runner[s].sup].running

(* A pattern has one running supervisor: nobody gets its ticks twice. *)
OneFeed ==
    \A i, j \in DOMAIN feeds.all :
        feeds.all[i].running /\ feeds.all[j].running /\ feeds.all[i].pattern = feeds.all[j].pattern
            => i = j

(* A request that is repeated, even while the first is in progress, makes  *)
(* one command.                                                            *)
OneCommandEach ==
    \A i, j \in DOMAIN commands : Same(commands[i].request, commands[j].request) => i = j

(* Of the commands issued against one version at most one takes effect,    *)
(* and once, even if the platform crashes before it is marked.             *)
OnceAVersion ==
    \A i, j \in DOMAIN effects :
        LET v == commands[effects[i]].request.expected
        IN v # NoVersion /\ commands[effects[j]].request.expected = v => i = j

(* A command stored before another was asked for never takes effect after  *)
(* it, crash or not.                                                       *)
EffectsInOrder ==
    \A i, j \in DOMAIN effects :
        commands[effects[i]].stored < commands[effects[j]].at => i < j

(* Every command is settled, unless a database error ends the service      *)
(* (db/models.py:531: "Commands are processed asynchronously by the        *)
(* control plane service").  Not so once the orchestrator has started a    *)
(* strategy from STOPPED: its row stays locked ("The caller (orchestrator) *)
(* will commit when appropriate", strategy_lifecycle.py:263, and nobody    *)
(* does), and a command for that strategy stops the service for good.      *)
Settled(i) == i \in DOMAIN commands /\ commands[i].status # "pending"
CommandsSettled == \A i \in 1..MaxCommands : i \in Pending ~> Settled(i) \/ service = "dead"

-----------------------------------------------------------------------------
(* What the documents say and the code does not keep. *)

(* MarketSupervisorRegistry: supervisors are "only destroyed when no longer*)
(* in use".  Not so for patterns that are short.                           *)
UsedIsAlive == \A s \in Strategies : runner[s].running => feeds.all[runner[s].sup].running

(* A runner that says it runs evaluates its strategy (strategy_runner.py:  *)
(* "Subscribes to MARKET_DATA events and starts evaluation loop").         *)
RunningIsEvaluated == \A s \in Strategies : runner[s].running => runner[s].evaluating
=============================================================================
