----------------------------- MODULE Supervisor -----------------------------
(***************************************************************************)
(* The session supervisor, PID 1 of the container                          *)
(* (src/cmd/wlvision-supervisor/main.go): Run starts the compositor and    *)
(* the controller and waits for a stop request or an exit; reapLoop        *)
(* collects every child; watchReadiness turns the controller's marker into *)
(* readiness; ReadStatus is the probe another process runs.                *)
(*                                                                         *)
(* Run, the reaper and the watcher are goroutines: they interleave at every *)
(* channel operation, critical section, system call and file write.  Pids  *)
(* are not reused, so the reaper's duplicate filter never matters.         *)
(***************************************************************************)
EXTENDS Naturals, Sequences, FiniteSets

CONSTANTS
    Orphans,            \* processes reparented to the supervisor
    EventCap,           \* capacity of the exit channel (16 in the code)
    Events              \* what the world may do: "exit", "stop", "timeout", "fail"

\* A process is none of the names of the children and of the reaper's places.
ASSUME SupervisorAssumption ==
    /\ {"weston", "agent", "running", "returned"} \cap Orphans = {}
    /\ EventCap \in Nat \ {0}
    /\ Events \subseteq {"exit", "stop", "timeout", "fail"}

Children == {"weston", "agent"}
Processes == Children \cup Orphans

VARIABLES
    run,        \* where Run is
    process,    \* what the kernel knows of each process
    started,    \* children Run recorded (s.weston, s.agent)
    exited,     \* children whose exit Run observed (child.exited)
    reaper,     \* the reap loop: running, holding a reaped exit, or returned
    events,     \* the exit channel
    owed,       \* children stopAll still waits for
    stopping,   \* the context is cancelled
    socket,     \* the compositor published its display socket
    marker,     \* the controller published agent.ready
    ready,      \* Supervisor.ready
    watcher,    \* where watchReadiness is
    writing,    \* Run has read the status it is about to write
    draft,      \* the status each writer read last
    statusFile  \* the status file

vars == <<run, process, started, exited, reaper, events, owed, stopping, socket, marker,
          ready, watcher, writing, draft, statusFile>>

worldVars == <<process, stopping, socket, marker>>
fileVars == <<writing, draft, statusFile>>

Status == [ready : BOOLEAN, weston : {"not_started", "running", "exited"},
           agent : {"not_started", "running", "exited"}]

NoStatus == [ready |-> FALSE, weston |-> "not_started", agent |-> "not_started"]

TypeOK ==
    /\ run \in {"start", "abort", "socket", "agent", "publish", "watching", "report",
                "stopAll", "waitStop", "final", "done"}
    /\ process \in [Processes -> {"none", "alive", "zombie", "reaped"}]
    /\ started \subseteq Children /\ exited \subseteq Children /\ owed \subseteq Children
    /\ reaper \in Processes \cup {"running", "returned"}
    /\ events \in Seq(Processes) /\ Len(events) <= EventCap
    /\ stopping \in BOOLEAN /\ socket \in BOOLEAN /\ marker \in BOOLEAN
    /\ ready \in BOOLEAN
    /\ watcher \in {"off", "polling", "announcing", "reading", "writing", "returned"}
    /\ writing \in BOOLEAN
    /\ draft \in [{"run", "watcher"} -> Status]
    /\ statusFile \in Status

Init ==
    /\ run = "start" /\ process = [p \in Processes |-> "none"]
    /\ started = {} /\ exited = {} /\ owed = {}
    /\ reaper = "running" /\ events = <<>>
    /\ stopping = FALSE /\ socket = FALSE /\ marker = FALSE /\ ready = FALSE
    /\ watcher = "off"
    /\ writing = FALSE /\ draft = [w \in {"run", "watcher"} |-> NoStatus]
    /\ statusFile = NoStatus

-----------------------------------------------------------------------------
(***************************************************************************)
(* The status: read under the lock, written to the file afterwards.        *)
(***************************************************************************)
StateOf(child) ==
    IF child \notin started THEN "not_started"
    ELSE IF child \in exited THEN "exited" ELSE "running"

CurrentStatus ==
    [ready |-> ready, weston |-> StateOf("weston"), agent |-> StateOf("agent")]

\* kill(pid, 0) succeeds for a process that died and was not reaped.
Alive(child) == process[child] \in {"alive", "zombie"}

\* ReadStatus: what a probe run through an exec reports.
Probe ==
    LET gone(child) == statusFile[child] = "running" /\ ~Alive(child)
        state(child) == IF gone(child) THEN "exited" ELSE statusFile[child]
    IN [ready |-> statusFile.ready /\ ~gone("weston") /\ ~gone("agent") /\ marker,
        weston |-> state("weston"), agent |-> state("agent")]

-----------------------------------------------------------------------------
(***************************************************************************)
(* The world: children exit, orphans appear, the compositor publishes its  *)
(* socket, the controller its marker, somebody asks for a stop.            *)
(***************************************************************************)
Exits(p) ==
    /\ process[p] = "alive"
    /\ p \in Orphans \/ "exit" \in Events \/ run = "waitStop"
    /\ process' = [process EXCEPT ![p] = "zombie"]
    /\ UNCHANGED <<run, started, exited, reaper, events, owed, stopping, socket, marker, ready,
                   watcher, fileVars>>

OrphanAppears(p) ==
    /\ p \in Orphans /\ process[p] = "none" /\ process["weston"] = "alive"
    /\ process' = [process EXCEPT ![p] = "alive"]
    /\ UNCHANGED <<run, started, exited, reaper, events, owed, stopping, socket, marker, ready,
                   watcher, fileVars>>

PublishesSocket ==
    /\ process["weston"] = "alive" /\ ~socket
    /\ socket' = TRUE
    /\ UNCHANGED <<run, process, started, exited, reaper, events, owed, stopping, marker, ready,
                   watcher, fileVars>>

PublishesMarker ==
    /\ process["agent"] = "alive" /\ ~marker
    /\ marker' = TRUE
    /\ UNCHANGED <<run, process, started, exited, reaper, events, owed, stopping, socket, ready,
                   watcher, fileVars>>

StopRequested ==
    /\ "stop" \in Events /\ ~stopping
    /\ stopping' = TRUE
    /\ UNCHANGED <<run, process, started, exited, reaper, events, owed, socket, marker, ready,
                   watcher, fileVars>>

-----------------------------------------------------------------------------
(***************************************************************************)
(* The reaper.  wait4 fails with ECHILD when no child exists, and the loop *)
(* ends for good: also when its first call precedes the first child, for   *)
(* the loop is a goroutine that Run starts before the compositor.          *)
(***************************************************************************)
Reap(p) ==
    /\ reaper = "running" /\ process[p] = "zombie"
    /\ process' = [process EXCEPT ![p] = "reaped"]
    /\ reaper' = p
    /\ UNCHANGED <<run, started, exited, events, owed, stopping, socket, marker, ready, watcher,
                   fileVars>>

\* Mutant: an exit that finds the channel full is dropped.
DeliverOrDrop ==
    /\ reaper \in Processes
    /\ events' = IF Len(events) < EventCap THEN Append(events, reaper) ELSE events
    /\ reaper' = "running"
    /\ UNCHANGED <<run, process, started, exited, owed, stopping, socket, marker, ready, watcher,
                   fileVars>>

Deliver ==
    /\ reaper \in Processes /\ Len(events) < EventCap
    /\ events' = Append(events, reaper)
    /\ reaper' = "running"
    /\ UNCHANGED <<run, process, started, exited, owed, stopping, socket, marker, ready, watcher,
                   fileVars>>

NoChildren == \A p \in Processes : process[p] \in {"none", "reaped"}

ReaperReturns ==
    /\ reaper = "running" /\ NoChildren
    /\ reaper' = "returned"
    /\ UNCHANGED <<run, process, started, exited, events, owed, stopping, socket, marker, ready,
                   watcher, fileVars>>

-----------------------------------------------------------------------------
(***************************************************************************)
(* Run.                                                                    *)
(***************************************************************************)
\* startCompositor; without a compositor the session ends.  A pid file that
\* cannot be written fails it after the process started.
StartCompositor ==
    /\ run = "start"
    /\ process' = [process EXCEPT !["weston"] = "alive"]
    /\ started' = {"weston"}
    /\ run' = "socket"
    /\ UNCHANGED <<exited, reaper, events, owed, stopping, socket, marker, ready, watcher, fileVars>>

CompositorFails ==
    /\ run = "start" /\ "fail" \in Events
    /\ \/ UNCHANGED <<process, started>>
       \/ /\ process' = [process EXCEPT !["weston"] = "alive"]
          /\ started' = {"weston"}
    /\ run' = "abort"
    /\ UNCHANGED <<exited, reaper, events, owed, stopping, socket, marker, ready, watcher, fileVars>>

\* observe: the exit of an orphan is nobody's.
Observe(p) == exited' = exited \cup ({p} \cap started)

SocketReady ==
    /\ run = "socket" /\ socket
    /\ run' = "agent"
    /\ UNCHANGED <<worldVars, started, exited, reaper, events, owed, ready, watcher, fileVars>>

\* waitForSocket gives up: stop request, timeout, or the compositor's exit.
SocketFails ==
    /\ run = "socket"
    /\ \/ stopping /\ UNCHANGED <<events, exited>>
       \/ "timeout" \in Events /\ UNCHANGED <<events, exited>>
       \/ /\ events # <<>> /\ Head(events) = "weston"
          /\ events' = Tail(events) /\ Observe("weston")
    /\ run' = "report"
    /\ UNCHANGED <<worldVars, started, reaper, owed, ready, watcher, fileVars>>

SocketSeesOther ==
    /\ run = "socket" /\ events # <<>> /\ Head(events) # "weston"
    /\ events' = Tail(events) /\ Observe(Head(events))
    /\ UNCHANGED <<worldVars, run, started, reaper, owed, ready, watcher, fileVars>>

StartAgent ==
    /\ run = "agent"
    /\ process' = [process EXCEPT !["agent"] = "alive"]
    /\ started' = started \cup {"agent"}
    /\ run' = "publish"
    /\ UNCHANGED <<exited, reaper, events, owed, stopping, socket, marker, ready, watcher, fileVars>>

AgentFails ==
    /\ run = "agent" /\ "fail" \in Events
    /\ \/ UNCHANGED <<process, started>>
       \/ /\ process' = [process EXCEPT !["agent"] = "alive"]
          /\ started' = started \cup {"agent"}
    /\ run' = "report"
    /\ UNCHANGED <<exited, reaper, events, owed, stopping, socket, marker, ready, watcher, fileVars>>

\* writeStatus on Run's goroutine: where Run goes once the file is written.
AfterStatus == [abort |-> "done", publish |-> "watching", report |-> "stopAll", final |-> "done"]

RunReadsStatus ==
    /\ run \in DOMAIN AfterStatus /\ ~writing
    /\ writing' = TRUE
    /\ draft' = [draft EXCEPT !["run"] = CurrentStatus]
    /\ UNCHANGED <<worldVars, run, started, exited, reaper, events, owed, ready, watcher, statusFile>>

RunWritesStatus ==
    /\ writing
    /\ writing' = FALSE
    /\ statusFile' = draft["run"]
    /\ run' = AfterStatus[run]
    /\ watcher' = IF run = "publish" THEN "polling" ELSE watcher
    /\ UNCHANGED <<worldVars, started, exited, reaper, events, owed, ready, draft>>

RunStops ==
    /\ run = "watching" /\ stopping
    /\ run' = "stopAll"
    /\ UNCHANGED <<worldVars, started, exited, reaper, events, owed, ready, watcher, fileVars>>

\* Mutant: any exit ends the session.
EndsSessionAlways(p) == TRUE

\* Mutant: only the compositor's exit is acted upon.
EndsWithCompositor(p) == p = "weston"

EndsSession(p) == p \in started

\* setReason withdraws readiness before the status is written.
RunSeesExit ==
    /\ run = "watching" /\ events # <<>>
    /\ events' = Tail(events) /\ Observe(Head(events))
    /\ IF EndsSession(Head(events)) THEN run' = "report" /\ ready' = FALSE
       ELSE UNCHANGED <<run, ready>>
    /\ UNCHANGED <<worldVars, started, reaper, owed, watcher, fileVars>>

\* Mutant: stopAll waits for every child, also for one that already exited.
OwedByAll == started

OwedExits == started \ exited

\* stopAll sends SIGTERM and waits for the children that still owe an exit.
StopChildren ==
    /\ run = "stopAll"
    /\ owed' = OwedExits
    /\ run' = "waitStop"
    /\ UNCHANGED <<worldVars, started, exited, reaper, events, ready, watcher, fileVars>>

StopSeesExit ==
    /\ run = "waitStop" /\ owed # {} /\ events # <<>>
    /\ events' = Tail(events) /\ Observe(Head(events))
    /\ owed' = owed \ {Head(events)}
    /\ UNCHANGED <<worldVars, run, started, reaper, ready, watcher, fileVars>>

\* The stop window closes: what is left is killed and nobody waits for it.
StopDeadline ==
    /\ run = "waitStop" /\ owed # {}
    /\ process' = [p \in Processes |->
                     IF p \in owed /\ process[p] = "alive" THEN "zombie" ELSE process[p]]
    /\ owed' = {}
    /\ UNCHANGED <<run, started, exited, reaper, events, stopping, socket, marker, ready, watcher,
                   fileVars>>

StopEnds ==
    /\ run = "waitStop" /\ owed = {}
    /\ run' = "final"
    /\ UNCHANGED <<worldVars, started, exited, reaper, events, owed, ready, watcher, fileVars>>

-----------------------------------------------------------------------------
(***************************************************************************)
(* watchReadiness.  Its select may take a tick although Run has closed the *)
(* done channel already.                                                   *)
(***************************************************************************)
\* Mutant: readiness is announced without the controller's marker.
TickWithoutMarker ==
    /\ watcher = "polling"
    /\ ready' = TRUE
    /\ watcher' = IF ready THEN "polling" ELSE "announcing"
    /\ UNCHANGED <<worldVars, run, started, exited, reaper, events, owed, fileVars>>

\* Mutant: the tick that sets readiness takes it for published already.
TickTakenForOld ==
    /\ watcher = "polling" /\ marker
    /\ ready' = TRUE
    /\ UNCHANGED <<worldVars, run, started, exited, reaper, events, owed, watcher, fileVars>>

WatcherTick ==
    /\ watcher = "polling" /\ marker
    /\ ready' = TRUE
    /\ watcher' = IF ready THEN "polling" ELSE "announcing"
    /\ UNCHANGED <<worldVars, run, started, exited, reaper, events, owed, fileVars>>

\* currentStatus releases the lock between the readiness and the children.
WatcherReadsReady ==
    /\ watcher = "announcing"
    /\ draft' = [draft EXCEPT !["watcher"].ready = ready]
    /\ watcher' = "reading"
    /\ UNCHANGED <<worldVars, run, started, exited, reaper, events, owed, ready, writing, statusFile>>

WatcherReadsChildren ==
    /\ watcher = "reading"
    /\ draft' = [draft EXCEPT !["watcher"].weston = StateOf("weston"),
                              !["watcher"].agent = StateOf("agent")]
    /\ watcher' = "writing"
    /\ UNCHANGED <<worldVars, run, started, exited, reaper, events, owed, ready, writing, statusFile>>

WatcherWritesStatus ==
    /\ watcher = "writing"
    /\ statusFile' = draft["watcher"]
    /\ watcher' = "polling"
    /\ UNCHANGED <<worldVars, run, started, exited, reaper, events, owed, ready, writing, draft>>

WatcherReturns ==
    /\ watcher = "polling"
    /\ stopping \/ run \in {"stopAll", "waitStop", "final", "done"}
    /\ watcher' = "returned"
    /\ UNCHANGED <<worldVars, run, started, exited, reaper, events, owed, ready, fileVars>>

-----------------------------------------------------------------------------
World ==
    \/ \E p \in Processes : Exits(p) \/ OrphanAppears(p)
    \/ PublishesSocket \/ PublishesMarker \/ StopRequested

Reaper == (\E p \in Processes : Reap(p)) \/ Deliver \/ ReaperReturns

RunStep ==
    \/ StartCompositor \/ CompositorFails
    \/ SocketReady \/ SocketFails \/ SocketSeesOther
    \/ StartAgent \/ AgentFails
    \/ RunReadsStatus \/ RunWritesStatus \/ RunStops \/ RunSeesExit
    \/ StopChildren \/ StopSeesExit \/ StopDeadline \/ StopEnds

Watcher ==
    \/ WatcherTick \/ WatcherReadsReady \/ WatcherReadsChildren
    \/ WatcherWritesStatus \/ WatcherReturns

\* Nothing of the container outlives its PID 1.
Next == run # "done" /\ (World \/ Reaper \/ RunStep \/ Watcher)

Spec == Init /\ [][Next]_vars

(***************************************************************************)
(* The goroutines keep running and the stop window closes.  Children and   *)
(* callers promise nothing: no fairness for World.                         *)
(***************************************************************************)
FairSpec ==
    /\ Spec
    /\ WF_vars(run # "done" /\ Reaper)
    /\ WF_vars(run # "done" /\ RunStep)
    /\ WF_vars(run # "done" /\ Watcher)

-----------------------------------------------------------------------------
Owing == {p \in Processes : process[p] = "reaped" /\ p \notin exited}
Delivered == {events[i] : i \in 1 .. Len(events)}

\* No exit is lost between wait4 and the goroutine that acts on it, however
\* full the channel is: a reaped child is observed, queued, or in the reaper's
\* hand.
NoExitIsLost ==
    \A c \in Children : c \in Owing => c \in Delivered \cup {reaper}

\* Run ends a session that came up only for a stop request or for the observed
\* exit of one of its own children: collecting an orphan keeps it running.
OrphanKeepsSession ==
    run \in {"report", "stopAll", "waitStop", "final", "done"} /\ watcher # "off"
        => stopping \/ exited \cap started # {}

\* Readiness arrives from the controller, not from a timer: neither the file nor
\* a status about to be written claims it before the marker exists.
ReadinessHasMarker ==
    (ready \/ statusFile.ready \/ \E w \in DOMAIN draft : draft[w].ready) => marker

\* stopAll never waits for an exit that Run has consumed already: the reaper
\* tells each exit once, so such a wait lasts until the deadline.  A collected
\* exit it waits for is queued or in the reaper's hand.  That the exit of a child
\* nobody has collected yet will be collected is not promised here.
OwedCanArrive ==
    \A c \in owed :
        c \notin exited /\ (process[c] = "reaped" => c \in Delivered \cup {reaper})

\* The death of the compositor or of the controller ends the session while the
\* reap loop lives: a loop that sees the dead child collects it before it may
\* return, however full the channel is.
ExitEndsSession ==
    \A c \in Children :
        (run = "watching" /\ process[c] = "zombie" /\ reaper # "returned") ~> run = "done"

\* The controller's marker becomes the session's readiness, or the session ends.
MarkerBecomesReadiness == marker ~> (statusFile.ready \/ run = "done")

-----------------------------------------------------------------------------
(***************************************************************************)
(* What the documentation says and the code does not do.                   *)
(***************************************************************************)
\* Run: the reaper is "started before the first child so no exit can be missed",
\* and so the death of either child ends the session.
NoExitIsMissed ==
    \A c \in Children : (run = "watching" /\ process[c] = "zombie") ~> run = "done"

\* session-runtime.md: "a probe run through an exec reports a session whose
\* processes died instead of the supervisor's last optimistic observation".
ProbeReportsDeadProcesses ==
    Probe.ready => Probe.weston = "running" /\ Probe.agent = "running"

=============================================================================
