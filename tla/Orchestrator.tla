---------------------------- MODULE Orchestrator ----------------------------
(***************************************************************************)
(* The platform orchestrator with its strategy runners, the registry of    *)
(* shared market supervisors and the lifecycle manager                     *)
(* (platform/orchestrator.py, strategy_runner.py, supervisor_registry.py,  *)
(* strategy_lifecycle.py), over the table of strategies that the HTTP API  *)
(* (api/control.py) writes too.                                            *)
(*                                                                         *)
(* The orchestrator has one database session for its whole life.  The      *)
(* lifecycle manager flushes to it and nobody commits it: what it wrote is *)
(* seen by no other session, and the rows stay locked.  The session gives  *)
(* an object it still holds as it was loaded, whatever the table says by   *)
(* now.  `session` is what it sees of each row, `locked` whose rows it has *)
(* written.                                                                *)
(*                                                                         *)
(* A call is cut where it waits: for the start of a market supervisor and  *)
(* for each flush.                                                         *)
(***************************************************************************)
EXTENDS StrategyFSM, Naturals, FiniteSets, SequencesExt

CONSTANTS
    Strategies, Patterns,
    InitialStates,  \* desired states a strategy is created with
    SharedSession,  \* updates are made in the orchestrator's session, as in its tests
    MaxSupervisors  \* bound

ASSUME OrchestratorAssumption ==
    /\ InitialStates \subseteq States /\ SharedSession \in BOOLEAN /\ MaxSupervisors \in Nat
    /\ IsFiniteSet(Strategies)

VARIABLES
    row,       \* strategy_instances, committed: [desired, actual, pattern]
    session,   \* the same, as the orchestrator's session sees it
    locked,    \* rows with uncommitted writes of that session
    up,        \* the orchestrator is running
    booting,   \* enabled strategies it has yet to start, in order
    call,      \* what it is doing for a strategy: [op, at, pattern, sup]
    runner,    \* _strategy_runners: [sup, running, evaluating]
    feeds,     \* the supervisors: [all, of, refs], see NoFeeds
    short      \* patterns for which a reference was not counted, or given back twice

platform   == <<up, booting, call, runner, feeds, short>>
strategies == <<row, session, locked>>

NoRow    == [desired |-> "none", actual |-> "none", pattern |-> "none"]
NoRunner == [sup |-> 0, running |-> FALSE, evaluating |-> FALSE]
Idle     == [op |-> "none", at |-> "none", pattern |-> "none", sup |-> 0]

(* MarketSupervisorRegistry: all the supervisors of this run, the current  *)
(* one of each pattern as an index of them (0: none), reference counts.    *)
NoFeeds ==
    [all |-> <<>>, of |-> [p \in Patterns |-> 0], refs |-> [p \in Patterns |-> 0]]

OrchestratorInit ==
    /\ row = [s \in Strategies |-> NoRow] /\ session = row /\ locked = {}
    /\ up = FALSE /\ booting = <<>> /\ call = [s \in Strategies |-> Idle]
    /\ runner = [s \in Strategies |-> NoRunner] /\ feeds = NoFeeds /\ short = {}

Holds(s) == runner[s] # NoRunner \/ call[s] # Idle \/ s \in ToSet(booting)
Seen(s)  == IF Holds(s) \/ s \in locked THEN session[s] ELSE row[s]

(* Calls for different strategies may overlap.                             *)
MayCall(s) ==
    /\ up /\ booting = <<>> /\ call[s] = Idle
    /\ \A t \in Strategies : call[t].op # "boot"

-----------------------------------------------------------------------------
(* get_or_create enters a started supervisor with a new count, even if     *)
(* another call has entered one meanwhile; a call that finds one takes a   *)
(* reference.  release stops and forgets the supervisor with the last      *)
(* reference.                                                              *)
Entered_Uncounted(f, p) ==
    [all  |-> Append(f.all, [pattern |-> p, running |-> TRUE]),
     of   |-> [f.of EXCEPT ![p] = Len(f.all) + 1], refs |-> f.refs]
Entered(f, p) ==
    [all  |-> Append(f.all, [pattern |-> p, running |-> TRUE]),
     of   |-> [f.of EXCEPT ![p] = Len(f.all) + 1],
     refs |-> [f.refs EXCEPT ![p] = 1]]

(* The registry once the patterns ps have been acquired, in this order. *)
EnteredAll(ps) ==
    [all  |-> [i \in DOMAIN ps |-> [pattern |-> ps[i], running |-> TRUE]],
     of   |-> [p \in Patterns |->
                 IF p \in ToSet(ps) THEN CHOOSE i \in DOMAIN ps : ps[i] = p ELSE 0],
     refs |-> [p \in Patterns |-> IF p \in ToSet(ps) THEN 1 ELSE 0]]

Referenced(f, p) == [f EXCEPT !.refs[p] = @ + 1]

Released_Always(f, p) ==
    [f EXCEPT !.all[f.of[p]].running = FALSE, !.of[p] = 0, !.refs[p] = 0]
Released(f, p) ==
    IF f.refs[p] = 0 THEN f
    ELSE IF f.refs[p] > 1 THEN [f EXCEPT !.refs[p] = @ - 1]
    ELSE [f EXCEPT !.all[f.of[p]].running = FALSE, !.of[p] = 0, !.refs[p] = 0]

-----------------------------------------------------------------------------
(* transition_to_state: both states are written and flushed. *)
Written(seen, state) == [seen EXCEPT !.desired = state, !.actual = state]

Keep(s, seen)  == session' = [session EXCEPT ![s] = seen] /\ UNCHANGED locked
Flush(s, seen) == session' = [session EXCEPT ![s] = seen] /\ locked' = locked \cup {s}

Return(s) == call' = [call EXCEPT ![s] = Idle]
Wait(s, op, at, p, sup) ==
    call' = [call EXCEPT ![s] = [op |-> op, at |-> at, pattern |-> p, sup |-> sup]]

(* StrategyRunner.start.  From RUNNING it waits for nothing.  From STOPPED *)
(* it waits for STARTING to be flushed, creates the evaluation task, and   *)
(* waits for RUNNING to be flushed before it sets _running: the evaluation *)
(* task has found _running false by then and has ended.  From any other    *)
(* state it fails.                                                         *)
Started(s, sup, evaluating) ==
    /\ runner' = [runner EXCEPT ![s] =
          [sup |-> sup, running |-> TRUE, evaluating |-> evaluating]]
    /\ Return(s)

StartRunner(s, op, seen, sup) ==
    \/ seen.actual = "RUNNING" /\ Keep(s, seen) /\ Started(s, sup, TRUE)
    \/ /\ seen.actual # "RUNNING" /\ CanTransition(seen.actual, "STARTING")
       /\ Flush(s, Written(seen, "STARTING"))
       /\ Wait(s, op, "starting", seen.pattern, sup) /\ UNCHANGED runner
    \/ /\ ~CanTransition(seen.actual, "STARTING") /\ seen.actual # "RUNNING"
       /\ IF CanTransition(seen.actual, "ERROR") THEN Flush(s, Written(seen, "ERROR"))
                                                 ELSE Keep(s, seen)
       /\ Return(s) /\ UNCHANGED runner

RunnerStarted(s) ==
    /\ call[s].at = "starting" /\ Flush(s, Written(session[s], "RUNNING"))
    /\ Started(s, call[s].sup, FALSE)
    /\ UNCHANGED <<row, up, booting, feeds, short>>

(* The runner of a strategy is started with a reference to the supervisor  *)
(* of its pattern, which may have to be started first, and may find no     *)
(* market.                                                                 *)
AcquireAndStart(s, op, seen, f) ==
    LET p == seen.pattern IN
    \/ f.of[p] # 0 /\ feeds' = Referenced(f, p) /\ StartRunner(s, op, seen, f.of[p])
    \/ f.of[p] = 0 /\ feeds' = f /\ Keep(s, seen) /\ Wait(s, op, "create", p, 0) /\ UNCHANGED runner

(* A runner that could not migrate is kept as if it used its old pattern.  *)
PatternOf(s) == feeds.all[runner[s].sup].pattern

SupervisorStarted(s) ==
    LET c == call[s] IN
    /\ c.at = "create" /\ UNCHANGED <<row, up, booting>>
    /\ \/ /\ Len(feeds.all) < MaxSupervisors /\ feeds' = Entered(feeds, c.pattern)
          /\ StartRunner(s, c.op, session[s], Len(feeds.all) + 1)
          /\ short' = IF feeds.of[c.pattern] # 0 THEN short \cup {c.pattern} ELSE short
       \/ /\ Return(s) /\ UNCHANGED <<session, locked, runner, feeds>>
          /\ short' = IF c.op = "update" THEN short \cup {PatternOf(s)} ELSE short

-----------------------------------------------------------------------------
(* start: the enabled strategies are loaded (in the order of their ids,    *)
(* here any), one supervisor is acquired for each of their patterns, once, *)
(* and the runners are started in turn; one that fails is passed over.     *)
Enabled      == {s \in Strategies : row[s].desired = "RUNNING"}
NeededAtBoot == {row[s].pattern : s \in Enabled}

SharedAtBoot == {p \in Patterns : \E s, t \in Enabled : s # t /\ row[s].pattern = p /\ row[t].pattern = p}

Boot ==
    /\ ~up /\ up' = TRUE
    /\ booting' \in SetToSeqs(Enabled)
    /\ session' = [s \in Strategies |-> IF s \in Enabled THEN row[s] ELSE session[s]]
    /\ \E ps \in SetToSeqs(NeededAtBoot) : feeds' = EnteredAll(ps)
    /\ short' = SharedAtBoot
    /\ UNCHANGED <<row, locked, call, runner>>

BootNext ==
    /\ booting # <<>> /\ booting' = Tail(booting)
    /\ \A s \in Strategies : call[s] = Idle
    /\ LET s == Head(booting)
       IN StartRunner(s, "boot", session[s], feeds.of[session[s].pattern])
    /\ UNCHANGED <<row, up, feeds, short>>

(* add_strategy: nothing for a strategy that is not to run, or that has a  *)
(* runner.                                                                 *)
AddStrategy(s) ==
    /\ MayCall(s) /\ runner[s] = NoRunner /\ Seen(s).desired = "RUNNING"
    /\ AcquireAndStart(s, "add", Seen(s), feeds)
    /\ UNCHANGED <<row, up, booting, short>>

(* StrategyRunner.stop: two flushes, and the task is cancelled in between. *)
StopRunner(s, op) ==
    /\ Flush(s, Written(session[s], "STOPPING")) /\ Wait(s, op, "stopping", PatternOf(s), 0)
    /\ UNCHANGED <<runner, feeds>>

(* remove_strategy: the runner is stopped and forgotten, one reference to  *)
(* its supervisor given back.                                              *)
Forget(s) ==
    /\ runner' = [runner EXCEPT ![s] = NoRunner]
    /\ feeds' = Released(feeds, PatternOf(s)) /\ Return(s)

RemoveStrategy(s) ==
    /\ MayCall(s) /\ runner[s] # NoRunner /\ UNCHANGED <<row, up, booting, short>>
    /\ \/ runner[s].running /\ StopRunner(s, "remove")
       \/ ~runner[s].running /\ Forget(s) /\ UNCHANGED <<session, locked>>

Removed(s) ==
    /\ call[s].at = "stopping" /\ call[s].op = "remove"
    /\ Flush(s, Written(session[s], "STOPPED")) /\ Forget(s)
    /\ UNCHANGED <<row, up, booting, short>>

(* update_strategy: if the pattern it sees is not the supervisor's, the    *)
(* runner is stopped, its reference given back and a new one acquired; the *)
(* stopped runner stays in the map until the new one has started.          *)
UpdateStrategy(s) ==
    /\ MayCall(s) /\ runner[s] # NoRunner /\ Seen(s).desired = "RUNNING"
    /\ Seen(s).pattern # PatternOf(s) /\ UNCHANGED <<row, up, booting, short>>
    /\ \/ runner[s].running /\ StopRunner(s, "update")
       \/ /\ ~runner[s].running
          /\ AcquireAndStart(s, "update", Seen(s), Released(feeds, PatternOf(s)))

Migrate(s) ==
    /\ call[s].at = "stopping" /\ call[s].op = "update"
    /\ LET seen == Written(session[s], "STOPPED")
           f == Released(feeds, PatternOf(s))
           p == seen.pattern
           stopped == [runner EXCEPT ![s] = [sup |-> @.sup, running |-> FALSE, evaluating |-> FALSE]]
       IN /\ runner' = stopped
          /\ \/ /\ f.of[p] # 0 /\ feeds' = Referenced(f, p)
                /\ Flush(s, Written(seen, "STARTING")) /\ Wait(s, "update", "starting", p, f.of[p])
             \/ /\ f.of[p] = 0 /\ feeds' = f
                /\ Flush(s, seen) /\ Wait(s, "update", "create", p, 0)
    /\ UNCHANGED <<row, up, booting, short>>

(* The process ends: what is not committed is gone, and so are the runners.*)
Down ==
    /\ up /\ up' = FALSE /\ booting' = <<>> /\ call' = [s \in Strategies |-> Idle]
    /\ runner' = [s \in Strategies |-> NoRunner] /\ feeds' = NoFeeds /\ short' = {}
    /\ locked' = {} /\ session' = [s \in Strategies |-> NoRow] /\ UNCHANGED row

-----------------------------------------------------------------------------
(* api/control.py: create_strategy (its add_strategy is AddStrategy) and   *)
(* update_strategy, each in a session of its own that it commits.          *)
CreateStrategy(s, d, p) ==
    /\ row[s] = NoRow
    /\ row' = [row EXCEPT ![s] = [desired |-> d, actual |-> d, pattern |-> p]]
    /\ UNCHANGED <<session, locked, platform>>

PatchStrategy(s, d, p) ==
    /\ row[s] # NoRow /\ UNCHANGED platform
    /\ \/ /\ ~SharedSession /\ s \notin locked
          /\ row' = [row EXCEPT ![s].desired = d, ![s].pattern = p]
          /\ UNCHANGED <<session, locked>>
       \/ /\ SharedSession /\ booting = <<>> /\ \A t \in Strategies : call[t] = Idle
          /\ session' = [session EXCEPT ![s] = [Seen(s) EXCEPT !.desired = d, !.pattern = p]]
          /\ row' = [t \in Strategies |-> IF t = s \/ t \in locked THEN session'[t] ELSE row[t]]
          /\ locked' = {}
=============================================================================
