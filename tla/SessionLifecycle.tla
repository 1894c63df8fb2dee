-------------------------- MODULE SessionLifecycle --------------------------
(***************************************************************************)
(* The lifecycle of one session as the command line drives it              *)
(* (src/internal/session: service.go, store.go, model.go).  Every          *)
(* invocation is a process of its own: it loads the session's record,      *)
(* talks to the container engine, and saves the record it has in memory.   *)
(* The store writes a record atomically and takes no lock across a load and *)
(* a save, so invocations interleave at every load, engine call and save,   *)
(* and a crash may end one between any two of them.                         *)
(*                                                                          *)
(* The engine is external: it refuses a name in use, a container it no      *)
(* longer has, and, MaxRefusals times, anything else.                       *)
(***************************************************************************)
EXTENDS Naturals, FiniteSets

CONSTANTS
    CLIs,           \* processes that invoke wlvision on the session
    Containers,     \* identifiers the engine may give
    None,           \* no record, no container
    MaxRefusals,    \* bound on the engine's faults: a failed call, a dead container
    MaxCrashes      \* bound on the invocations that crash

ASSUME LifecycleAssumption ==
    /\ None \notin Containers
    /\ MaxRefusals \in Nat /\ MaxCrashes \in Nat

States == {"creating", "ready", "running", "failed", "closing", "closed"}
Record == [state : States, cid : Containers \cup {None}]
NoRecord == [state |-> "none", cid |-> None]

transitions ==
    [creating |-> {"ready", "failed", "closing"},
     ready    |-> {"running", "failed", "closing"},
     running  |-> {"ready", "failed", "closing"},
     failed   |-> {"closing", "closed"},
     closing  |-> {"closed", "failed"},
     closed   |-> {},
     none     |-> {}]

Interactive(state) == state \in {"ready", "running"}

VARIABLES
    store,      \* the record on disk
    container,  \* what the engine has under each identifier
    apps,       \* invocations whose application is alive in the container
    cli,        \* where each invocation is and the record it holds
    refusals,   \* faults of the engine so far
    crashes     \* invocations killed so far

vars == <<store, container, apps, cli, refusals, crashes>>

Saves == {"save_creating", "save_id", "save_ready", "save_failed", "save_running", "save_exit",
          "save_closing", "save_last"}
Places == Saves \cup {"idle", "create", "engine_create", "start", "engine_start", "wait_load",
                      "wait_ready", "run", "exec", "executing", "stream", "close", "stop",
                      "remove", "remove_failing", "observe"}
Goals == {"create", "wait", "run", "ephemeral", "inject", "close", "inspect"}

Idle == [pc |-> "idle", goal |-> "create", record |-> NoRecord, probe |-> None]

TypeOK ==
    /\ store \in Record \cup {NoRecord}
    /\ container \in [Containers -> {"none", "created", "running", "stopped", "removed"}]
    /\ apps \subseteq CLIs
    /\ cli \in [CLIs -> [pc : Places, goal : Goals, record : Record \cup {NoRecord},
                         probe : Containers \cup {None}]]
    /\ refusals \in 0 .. MaxRefusals /\ crashes \in 0 .. MaxCrashes

Init ==
    /\ store = NoRecord
    /\ container = [k \in Containers |-> "none"]
    /\ apps = {}
    /\ cli = [c \in CLIs |-> Idle]
    /\ refusals = 0 /\ crashes = 0

-----------------------------------------------------------------------------
Existing == {k \in Containers : container[k] \in {"created", "running", "stopped"}}
Running(k) == k # None /\ container[k] = "running"

\* The invocation goes on at a place, with the record in its memory.
Goes(c, place, record) ==
    cli' = [cli EXCEPT ![c].pc = place, ![c].record = record]

Moves(c, place) == Goes(c, place, cli[c].record)
Ends(c) == cli' = [cli EXCEPT ![c] = Idle]

As(record, state) == [record EXCEPT !.state = state]

At(c, place) == cli[c].pc = place

\* The engine fails a call for no reason the model knows.
EngineFails == refusals < MaxRefusals /\ refusals' = refusals + 1
Unrefused == refusals' = refusals

\* run --ephemeral closes the session when it cannot go on.
Bail(c) == IF cli[c].goal = "ephemeral" THEN "close" ELSE "idle"

Begin(c, goal, place, record) ==
    cli' = [cli EXCEPT ![c] = [pc |-> place, goal |-> goal, record |-> record, probe |-> None]]

-----------------------------------------------------------------------------
(***************************************************************************)
(* store.Save: the record in memory replaces the one on disk, whatever that *)
(* has become meanwhile; then the invocation goes on.                       *)
(***************************************************************************)
AfterSave(c) ==
    [save_creating |-> "engine_create",
     save_id |-> IF cli[c].goal = "create" THEN "idle" ELSE "start",
     save_ready |-> IF cli[c].goal = "wait" THEN "idle" ELSE "run",
     save_failed |-> Bail(c),
     save_running |-> "exec",
     save_exit |-> Bail(c),
     save_closing |-> "stop",
     save_last |-> "idle"]

Save(c) ==
    /\ cli[c].pc \in Saves
    /\ store' = cli[c].record
    /\ LET next == AfterSave(c)[cli[c].pc] IN IF next = "idle" THEN Ends(c) ELSE Moves(c, next)
    /\ UNCHANGED <<container, apps, refusals, crashes>>

-----------------------------------------------------------------------------
(***************************************************************************)
(* Create.                                                                 *)
(***************************************************************************)
BeginCreate(c) ==
    /\ At(c, "idle")
    /\ \E goal \in {"create", "wait"} : Begin(c, goal, "create", NoRecord)
    /\ UNCHANGED <<store, container, apps, refusals, crashes>>

\* Mutant: the container is created before the record is saved.
CreateContainerFirst(c) ==
    /\ At(c, "create")
    /\ IF store.state \in {"none", "closed"}
       THEN Goes(c, "engine_create", [state |-> "creating", cid |-> None])
       ELSE Ends(c)
    /\ UNCHANGED <<store, container, apps, refusals, crashes>>

\* A session that exists and is not closed is not created again.
CreateLoads(c) ==
    /\ At(c, "create")
    /\ IF store.state \in {"none", "closed"}
       THEN Goes(c, "save_creating", [state |-> "creating", cid |-> None])
       ELSE Ends(c)
    /\ UNCHANGED <<store, container, apps, refusals, crashes>>

EngineCreates(c) ==
    /\ At(c, "engine_create") /\ Existing = {}
    /\ \E k \in Containers :
          /\ container[k] = "none"
          /\ container' = [container EXCEPT ![k] = "created"]
          /\ Goes(c, "save_id", [cli[c].record EXCEPT !.cid = k])
    /\ UNCHANGED <<store, apps, refusals, crashes>>

\* Create fails: Run returns without closing, ephemeral or not.
EngineRefusesCreate(c) ==
    /\ At(c, "engine_create")
    /\ (Existing # {} /\ Unrefused) \/ EngineFails
    /\ Goes(c, "save_last", As(cli[c].record, "failed"))
    /\ UNCHANGED <<store, container, apps, crashes>>

-----------------------------------------------------------------------------
(***************************************************************************)
(* Start and WaitReady.                                                    *)
(***************************************************************************)
StartLoads(c) ==
    /\ At(c, "start")
    /\ IF store.state = "creating" THEN Goes(c, "engine_start", store)
       ELSE IF Bail(c) = "idle" THEN Ends(c) ELSE Moves(c, "close")
    /\ UNCHANGED <<store, container, apps, refusals, crashes>>

EngineStarts(c) ==
    /\ At(c, "engine_start") /\ cli[c].record.cid \in Existing
    /\ container' = [container EXCEPT ![cli[c].record.cid] = "running"]
    /\ Moves(c, "wait_load")
    /\ UNCHANGED <<store, apps, refusals, crashes>>

\* Mutant: a container that did not start is taken for a started one.
StartFailureIgnored(c) ==
    /\ At(c, "engine_start")
    /\ (cli[c].record.cid \notin Existing /\ Unrefused) \/ EngineFails
    /\ Goes(c, "save_ready", As(cli[c].record, "ready"))
    /\ UNCHANGED <<store, container, apps, crashes>>

EngineRefusesStart(c) ==
    /\ At(c, "engine_start")
    /\ (cli[c].record.cid \notin Existing /\ Unrefused) \/ EngineFails
    /\ Goes(c, "save_failed", As(cli[c].record, "failed"))
    /\ UNCHANGED <<store, container, apps, crashes>>

\* WaitReady loads the record once more, for the container it probes.
WaitLoads(c) ==
    /\ At(c, "wait_load")
    /\ cli' = [cli EXCEPT ![c].pc = "wait_ready", ![c].probe = store.cid]
    /\ UNCHANGED <<store, container, apps, refusals, crashes>>

ProbeIsReady(c) ==
    /\ At(c, "wait_ready") /\ Running(cli[c].probe)
    /\ Goes(c, "save_ready", As(cli[c].record, "ready"))
    /\ UNCHANGED <<store, container, apps, refusals, crashes>>

\* A process that exited, a timeout, an engine error, an interrupted wait.
ProbeGivesUp(c) ==
    /\ At(c, "wait_ready")
    /\ (~Running(cli[c].probe) /\ Unrefused) \/ EngineFails
    /\ Goes(c, "save_failed", As(cli[c].record, "failed"))
    /\ UNCHANGED <<store, container, apps, crashes>>

-----------------------------------------------------------------------------
(***************************************************************************)
(* Run: reuse a ready session or create one, execute, record the exit.     *)
(***************************************************************************)
RunLoads(c) ==
    /\ At(c, "idle") /\ c \notin apps
    /\ \E goal \in {"run", "ephemeral"} :
          \/ store = NoRecord /\ Begin(c, goal, "create", NoRecord)
          \/ store.state = "ready" /\ Begin(c, goal, "run", store)
    /\ UNCHANGED <<store, container, apps, refusals, crashes>>

RunBegins(c) ==
    /\ At(c, "run")
    /\ Goes(c, "save_running", As(cli[c].record, "running"))
    /\ UNCHANGED <<store, container, apps, refusals, crashes>>

ExecStarts(c) ==
    /\ At(c, "exec") /\ Running(cli[c].record.cid)
    /\ apps' = apps \cup {c}
    /\ Moves(c, "executing")
    /\ UNCHANGED <<store, container, refusals, crashes>>

\* However the execution ended, the session is no longer running it.
ExecReturns(c) ==
    /\ \/ At(c, "exec") /\ ~Running(cli[c].record.cid) /\ Unrefused
       \/ At(c, "exec") /\ EngineFails
       \/ At(c, "executing") /\ c \notin apps /\ Unrefused
    /\ Goes(c, "save_exit", As(cli[c].record, "ready"))
    /\ UNCHANGED <<store, container, apps, crashes>>

-----------------------------------------------------------------------------
(***************************************************************************)
(* Inject.                                                                 *)
(***************************************************************************)
InjectLoads(c) ==
    /\ At(c, "idle") /\ Interactive(store.state)
    /\ Begin(c, "inject", "stream", store)
    /\ UNCHANGED <<store, container, apps, refusals, crashes>>

StreamReturns(c) ==
    /\ At(c, "stream")
    /\ \/ Running(cli[c].record.cid) /\ Moves(c, "save_last") /\ Unrefused
       \/ ~Running(cli[c].record.cid) /\ Ends(c) /\ Unrefused
       \/ EngineFails /\ Ends(c)
    /\ UNCHANGED <<store, container, apps, crashes>>

-----------------------------------------------------------------------------
(***************************************************************************)
(* Close, also for Purge, which closes what it listed and found expired.   *)
(***************************************************************************)
BeginClose(c) ==
    /\ At(c, "idle")
    /\ Begin(c, "close", "close", NoRecord)
    /\ UNCHANGED <<store, container, apps, refusals, crashes>>

\* Mutant: the state machine's refusal of closing -> closing ends a retry.
CloseRefusesClosing(c) ==
    /\ At(c, "close")
    /\ IF store.state \in {"none", "closed", "closing"} THEN Ends(c)
       ELSE Goes(c, "save_closing", As(store, "closing"))
    /\ UNCHANGED <<store, container, apps, refusals, crashes>>

CloseLoads(c) ==
    /\ At(c, "close")
    /\ IF store.state \in {"none", "closed"} THEN Ends(c)
       ELSE IF store.state = "closing" THEN Goes(c, "stop", store)
       ELSE Goes(c, "save_closing", As(store, "closing"))
    /\ UNCHANGED <<store, container, apps, refusals, crashes>>

\* A session that never reached a container has nothing to stop.
CloseWithoutContainer(c) ==
    /\ At(c, "stop") /\ cli[c].record.cid = None
    /\ Goes(c, "save_last", As(cli[c].record, "closed"))
    /\ UNCHANGED <<store, container, apps, refusals, crashes>>

StopReturns(c) ==
    /\ At(c, "stop") /\ cli[c].record.cid # None
    /\ \/ /\ container' = IF Running(cli[c].record.cid)
                          THEN [container EXCEPT ![cli[c].record.cid] = "stopped"]
                          ELSE container
          /\ apps' = IF Running(cli[c].record.cid) THEN {} ELSE apps
          /\ Moves(c, "remove") /\ Unrefused
       \/ EngineFails /\ Moves(c, "remove_failing") /\ UNCHANGED <<container, apps>>
    /\ UNCHANGED <<store, crashes>>

\* Mutant: a failure of the engine is not recorded.
ClosedAnyway(failed) == "closed"

\* What Close records, given whether the engine failed one of its calls.
CloseOutcome(failed) == IF failed THEN "failed" ELSE "closed"

\* A container the engine no longer has is a success.
RemoveReturns(c) ==
    /\ cli[c].pc \in {"remove", "remove_failing"}
    /\ \/ /\ container' = [container EXCEPT ![cli[c].record.cid] = "removed"]
          /\ apps' = IF Running(cli[c].record.cid) THEN {} ELSE apps
          /\ Goes(c, "save_last", As(cli[c].record, CloseOutcome(At(c, "remove_failing"))))
          /\ Unrefused
       \/ /\ EngineFails
          /\ Goes(c, "save_last", As(cli[c].record, CloseOutcome(TRUE)))
          /\ UNCHANGED <<container, apps>>
    /\ UNCHANGED <<store, crashes>>

-----------------------------------------------------------------------------
(***************************************************************************)
(* Inspect and List: reconcile the record against the engine.              *)
(***************************************************************************)
\* fail: a cleanup in progress and a recorded failure are left alone.
Fail(record) ==
    IF record.state \in {"closed", "closing", "failed"} THEN record ELSE As(record, "failed")

Reconcile(record) ==
    IF record.state = "creating" \/ ~Running(record.cid) THEN Fail(record) ELSE record

InspectLoads(c) ==
    /\ At(c, "idle") /\ store # NoRecord
    /\ Begin(c, "inspect", "observe", store)
    /\ UNCHANGED <<store, container, apps, refusals, crashes>>

Observes(c) ==
    /\ At(c, "observe")
    /\ \/ LET updated == Reconcile(cli[c].record)
          IN /\ IF updated # cli[c].record THEN Goes(c, "save_last", updated) ELSE Ends(c)
             /\ Unrefused
       \/ EngineFails /\ Ends(c)
    /\ UNCHANGED <<store, container, apps, crashes>>

-----------------------------------------------------------------------------
(***************************************************************************)
(* The world: an application exits, a container dies, an invocation is     *)
(* killed.  What it executed in the container lives on.                    *)
(***************************************************************************)
AppExits(c) ==
    /\ c \in apps
    /\ apps' = apps \ {c}
    /\ UNCHANGED <<store, container, cli, refusals, crashes>>

ContainerDies(k) ==
    /\ EngineFails /\ container[k] = "running"
    /\ container' = [container EXCEPT ![k] = "stopped"]
    /\ apps' = {}
    /\ UNCHANGED <<store, cli, crashes>>

Crash(c) ==
    /\ crashes < MaxCrashes /\ ~At(c, "idle")
    /\ crashes' = crashes + 1
    /\ Ends(c)
    /\ UNCHANGED <<store, container, apps, refusals>>

-----------------------------------------------------------------------------
\* What an invocation does once it began.
Step(c) ==
    \/ Save(c)
    \/ CreateLoads(c) \/ EngineCreates(c) \/ EngineRefusesCreate(c)
    \/ StartLoads(c) \/ EngineStarts(c) \/ EngineRefusesStart(c)
    \/ WaitLoads(c) \/ ProbeIsReady(c) \/ ProbeGivesUp(c)
    \/ RunBegins(c) \/ ExecStarts(c) \/ ExecReturns(c)
    \/ StreamReturns(c)
    \/ CloseLoads(c) \/ CloseWithoutContainer(c) \/ StopReturns(c) \/ RemoveReturns(c)
    \/ Observes(c)

Invoke(c) ==
    BeginCreate(c) \/ RunLoads(c) \/ InjectLoads(c) \/ BeginClose(c) \/ InspectLoads(c)

Next ==
    \/ \E c \in CLIs : Step(c) \/ Invoke(c) \/ AppExits(c) \/ Crash(c)
    \/ \E k \in Containers : ContainerDies(k)

Spec == Init /\ [][Next]_vars

\* An invocation that began goes on, and somebody keeps closing the session.
\* Applications owe nobody an exit.
FairSpec ==
    /\ Spec
    /\ \A c \in CLIs : WF_vars(Step(c)) /\ SF_vars(BeginClose(c))

-----------------------------------------------------------------------------
\* "A crash of the outer CLI can never orphan a container without a record":
\* whatever interleaves or crashes, a container that exists has a record of its
\* session on disk.
ContainerHasRecord == Existing # {} => store # NoRecord

\* No record says ready or running before its container was started.
UsableWasStarted ==
    Interactive(store.state) =>
        store.cid # None /\ container[store.cid] \notin {"none", "created"}

\* A record says closed only when the container it names is gone, however many
\* invocations closed it and whatever the engine refused.
ClosedContainerIsGone ==
    store.state = "closed" /\ store.cid # None => container[store.cid] = "removed"

\* While nobody crashed and one invocation runs at a time nobody loses track of a
\* container, whatever the engine refuses: the record names it, or the invocation
\* about to save its identifier does.
EveryContainerIsNamed ==
    crashes = 0 =>
        \A k \in Existing :
            store.cid = k \/ \E c \in CLIs : At(c, "save_id") /\ cli[c].record.cid = k

\* A retried close converges: a session left closing by a crash is closed in
\* the end by whoever closes it again.
CloseConverges == store.state = "closing" ~> store.state = "closed"

-----------------------------------------------------------------------------
(***************************************************************************)
(* What the comments and the documentation say and the code does not do.   *)
(***************************************************************************)
\* service.go: "A session runs one application at a time".
OneApplicationAtATime == Cardinality(apps) <= 1

\* service.go: "Close stops and removes a session's container and marks the
\* record closed".
ClosedLeavesNoContainer == store.state = "closed" => Existing = {}

=============================================================================
