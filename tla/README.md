# TLA+ verification of wlvision

wlvision runs a graphical application inside a container, under a headless Weston
compositor, and lets a tool look at it and act on it: list, move and resize
windows, inject input, take screenshots. This directory holds the specifications
of the program from the compositor module to the host's commands, the TLC instances
that check them and the TLAPS proofs.

Paths below are relative to the repository (`src/`). `PROJECT.json` maps every
definition to the lines it stands for.

## 1. The system

```
 host                          |  container
 wlvision CLI (one process     |  wlvision-supervisor (PID 1)
 per command)                  |    |- weston + wlvision-shell.so
   session.Service             |    |      ^ wlvision_control_v1 (one client)
     |- Store (JSON records)   |    |- wlvision-agent: control.Client, capture
     |- engine (podman/docker)-+--> exec: supervisor status, wlvision-call, app
```

| Component | Source | State | Operations | What is hard | What makes it correct |
|---|---|---|---|---|---|
| Shell module | `weston-module/wlvision-shell.c` | window list, session revision, activation and focus, pending resizes, controller, capture authorization, frame number | ten protocol requests, the desktop callbacks, repaint, controller creation and destruction | one thread, but requests act on what the caller saw earlier; a resize is answered by a later commit or by nobody; ids restart with each connection | a stale request is refused; a request is answered once; frames claim only their own authorization |
| Control client | `internal/control/client.go` | calls in flight, cache of the windows, removed handles, resize progress, frames channel | `Snapshot`, `Activate`, `Move`, `Resize`, `CloseWindow`, input, `AuthorizeCapture`, `Close`; nine event handlers | a dispatcher and any number of callers; deadlines; loss of the connection at any point; snapshots merged after later events | what a caller is given is right for the revision it carries; nobody waits for ever; no answer reaches the wrong caller |
| Session supervisor | `cmd/wlvision-supervisor/main.go` | children, exits, readiness, the status file | start, wait for the socket, watch readiness, reap, stop; `status` from another process | three goroutines and the kernel; a bounded channel; a file written by two goroutines | no exit is lost; a death ends the session, an orphan's does not; readiness needs the controller's marker |
| Session lifecycle | `internal/session/service.go`, `store.go`, `model.go` | one JSON record per session; containers | create, start, run, inject, inspect, list, close, purge | every command is a process: they interleave at every load, engine call and save, and may be killed anywhere | a container has a record; closed means gone; closing converges |
| Controller agent | `cmd/wlvision-agent/main.go` | the operation it serves, the control client, the capture source | start-up, `handle` with one case per operation, `capture` | a budget per operation; a deadline that leaves an operation half done; the frame read after a capture | an operation is refused, done, or reported as unknown; a capture reports its own picture |
| RPC | `internal/rpc/rpc.go`, `cmd/wlvision-call` | listener, one connection, queue of connections | dial, write, serve, reply, close | serial service, callers killed while their request is in the socket, a caller that sends nothing | everyone is served in the end; a request is executed once or not at all |
| Session agent calls | `internal/session/agent.go`, `internal/agentapi` | none | one exec per call | the exec may be killed while the caller lives on | a call that failed is reported as failed |
| Input service | `internal/input/service.go` | what the command has pressed | click, tap, type, pointer, scroll, raw keys, window operations | press and release are separate calls and either may fail; commands interleave between them; the target comes from an earlier call | nothing stays held after success; the keys pressed are those of the text given; the named revision is the one acted on |
| Capture source | `internal/capture/screenshot.go`, `shm.go` | one buffer, one capture in flight, three one-slot channels | set-up, screenshot, retry, retirement | late answers of an abandoned capture; answers without a number | a screenshot holds a frame painted for it |
| Waits and bursts | `internal/capture/stability.go`, `burst.go`, `cmd/wlvision/wait.go`, `vision.go` | observations, samples, a schedule | screenshot, burst, stability wait, exit wait | captures that outlast their interval; files two commands share; clocks compared | what the result claims was observed, on its own schedule |
| Export, burst manifests | `internal/export`, `internal/capture/burst.go` | files of the host | whole-file replacement | a manifest and its pictures are several files | the manifest describes the pictures beside it |
| Payload receiver | `internal/inject/receiver.go`, `session.Service.Inject` | staging directory, payload directory | receive a binary or an archive, install, clean up | failure, limits and death between staging and rename; two receivers and one name | a visible payload is whole; nothing is left beside it |
| Manifest and image build | `internal/manifest`, `internal/session/image.go`, `internal/engine/docker.go` | build contexts, the engine's tags | load, plan, stage, check the base, build, tag | links and cycles in a tree that changes meanwhile; a tag other builds move | the image holds what the manifest declares |

The CLI talks to the session only through the engine: it starts the container,
runs `wlvision-supervisor status` and `wlvision-call` in it by exec, and keeps the
record. A window, input or capture command execs `wlvision-call` once per call, which
dials the agent's socket. The supervisor starts the compositor, then the agent; the agent publishes
`agent.ready` and is the one client of the shell module. Protocol requests and
events travel over one Wayland socket, in order and without loss.

## 2. Modules

| Module | Models | How it corresponds |
|---|---|---|
| `ControlWire` | `protocol/wlvision-control.xml` | requests and events as records in two FIFO queues; text, positions and geometry left out |
| `WlvisionShell` | the shell module | one action per protocol request and per desktop callback; each is atomic, because Weston is single-threaded |
| `ControlClient` | the control client | one step per critical section of `client.mu`: a handler that takes the lock twice (`OnRequestDone`, `OnResizeDone`) is two steps; a caller is seen registered, waiting, expired, and reading the cache |
| `ControlPlane` | the two joined by the wire | `Connect` and `Disconnect` on both ends, fairness, and the properties |
| `Supervisor` | the supervisor | `Run`, `reapLoop` and `watchReadiness` interleave at channel operations, critical sections, system calls and file writes; `Probe` is `ReadStatus` |
| `SessionWindows` | the abstract session: a revision that rises by one with every change, handles given once | `ControlPlane!ImplementsSession` maps the shell module onto it; `AgentCalls` is built on it |
| `AgentCalls` | `cmd/wlvision-agent`'s `handle`, `internal/rpc`, `cmd/wlvision-call` | a call is a record `calls[<<command, n>>]` with the point it has reached; `queue` holds the connections in order, of which the agent handles the first (`stage`, `outcome`); the session below it is `SessionWindows`, the seat the keys held with who pressed them |
| `Interaction` | `cmd/wlvision/interaction.go`, `internal/input/service.go`, `internal/session/agent.go` | `host[m]` is one command: the calls it still has to make (`todo`), what it recorded as pressed, whether it is cleaning up; `Issue` starts an exec, `Respond`, `ExecFails` and `HostGivesUp` end it |
| `AgentCapture` | `capture` of the agent, `internal/capture/screenshot.go` and `shm.go`, the module's capture side | `answers` holds the occupied ones of the channels complete, retry and failed; a buffer is named after the capture that mapped it; an answer on the wire names nothing |
| `TemporalVision` | the burst, the stability wait, the exit wait, the screenshot command and the export | `run[m]` carries the loop variables of the command; `clock` counts ticks; the scratch file of the session and the files of the host are shared |
| `PayloadReceiver` | `internal/inject/receiver.go` with `Service.Inject` at the other end | one action per entry read and per step of staging, rename and clean-up; the stream is a number of bytes |
| `ImageBuild` | `internal/manifest`, `internal/session/image.go`, docker's build | a host tree of files, directories and links is a constant; `build[b]` is one invocation with its plan, its layers and its walk; `contexts` and `tags` are the directories and the engine's references |
| `SessionLifecycle` | the session service over the store | an invocation carries the record it loaded in memory; each load, engine call and save is a step |
| `MC*` | instances for TLC | symmetry sets; the combinations of commands, payloads, manifests and trees the runs start from |
| `ControlPlane_proofs` | | in three parts: type correctness, the refinement of `SessionWindows` and `CurrentViewIsLive`; what a caller is told is the answer to what it asked; what a `State` shows |
| `Supervisor_proofs`, `SessionLifecycle_proofs`, `Interaction_proofs`, `AgentCapture_proofs`, `TemporalVision_proofs`, `PayloadReceiver_proofs`, `ImageBuild_proofs` | | for each of these modules its types, an inductive invariant, and the theorems about its safety properties |

What composes what: `ControlPlane` joins `WlvisionShell` and `ControlClient` over
`ControlWire` and implements `SessionWindows`; `AgentCalls` extends `SessionWindows`, and
`Interaction` extends `AgentCalls`, so that what the host's commands do to the windows is
checked against the promise the control plane was shown to keep and not against all of its
steps. `AgentCapture` opens the capture operation that `AgentCalls` does not have;
`TemporalVision` takes it as one call that stores a picture. `Supervisor`,
`SessionLifecycle`, `PayloadReceiver` and `ImageBuild` stand alone: they meet the others
only through the engine.

Correspondences that need a word:

- `call[c]` is a caller goroutine with its `pendingCall`; `pending` is the map
  `client.pending`. A call that returns because the `closed` channel is closed leaves
  its entry in the code for `failAll`, which finds nobody listening; the model drops it
  at once.
- `view[c]` is the last `State` the client returned to that caller: what it passes to
  later operations. It survives a reconnection, as a value does.
- In `Supervisor` the reap loop may ask for a child before the first was started: then, as
  whenever no child is left, it returns for good (`ReaperReturns`).
- A status of the supervisor is read under the lock (`draft`) and written to the file
  afterwards, so the older of two may be written last. The status file itself is written
  in one step; the small window of a half-written file, which `ReadStatus` reports as
  unreadable, is left out.
- In `SessionLifecycle` a `Save` writes the invocation's own copy over whatever the store
  holds; the store takes no lock between a load and a save. `Purge` is a close that begins
  at an arbitrary time. The engine is external: it refuses a name in use and a container
  it no longer has, and `MaxRefusals` times anything else.
- In `AgentCalls` a caller that is killed leaves its connection, and perhaps its request,
  in the listener's queue (`hungup`, `abandoned`): the agent finds out when it reads, or
  serves the request for nobody. `Survives` says whether a caller may outlive the exec that
  started it. A press or release goes to the focused application as it comes
  (`inject_key` of the shell module); what it types, the application derives from the
  modifiers of the seat, which is external (`Shifted`). `held` records which command pressed
  a key, `lifted` whose key another command released, and an entry of `typed` whether another
  command had its hand on the modifier (`Meddled`): the seat knows none of it, and no action
  reads it but to keep it, so that a property can tell whose press was left behind and whose
  shift a character got.
- `HandleResize` is the one operation that takes several steps in the agent
  (`ResizeCommitted`, `ResizeEnds`); during it the application goes on and so does the
  queue's growth.
- `host[m].named` is the revision the user gave, or 0: then the operation uses the revision
  of the snapshot it resolved its window from.
- In `AgentCapture` a buffer that is unmapped while the compositor may still write to it is
  kept (`buffers`): that is what retirement is for.
- In `Interaction` a single transition (`Raw`, the command `wlvision key`) is a press or a
  release of any key, shift included, and so is the key of a tap.
- `run[m].frames` is the number of samples a burst was asked for, up to `FrameCount`.
- In `TemporalVision` a timer wakes its command when it is due or any number of ticks later, and
  a capture, its answer and a look at the record take any number of ticks.
- `exitAt` is the end the record holds, `savedAt` when it was saved, `held` the ends that other
  invocations hold in memory: one that just ended (`ApplicationExits` stamps it) or the one that
  was on record when they loaded it (`RecordLoads`). `RecordSaves` writes one of them, fresh or
  stale. A look that fails (`LookFails`) makes the exit wait `blind` until the next one.
- `PayloadReceiver` counts a header of an archive as one byte and a file's body as its size,
  so that the stream limit and the declared-size limit can be met separately. A receiver whose
  clean-up fails ends `littered`, with the staged files still there; one that could not prepare
  or remove an empty directory ends `broken`.
- `ImageBuild` steps through `copyTree` node by node (`WalkLink`, `WalkDirectory`, `CopyFile`),
  while `HostEdits` and `HostRemoves` change the checkout. A path is a sequence of names.

## 3. Runs

Every cfg but those of `Interaction` sets `CHECK_DEADLOCK FALSE`: each of the other
systems may really stop (a closed connection, a session that ended, a CLI with no invocation
left within the bounds, commands that are over).

| Run | States | What it shows | Bounds, and why they are enough |
|---|---|---|---|
| `plane_windows` | 1.0 M | while a `State`'s revision is the module's, it lists no dead window (`CurrentViewIsLive`), a snapshot misses none (`CurrentSnapshotIsComplete`), no activated window is shown inactive (`CurrentViewShowsActive`); a window the caller saw is never "not found" (`SeenWindowIsNeverNotFound`); a removed window never returns to the cache; the client's revision never drops; the control plane implements `SessionWindows` (`ImplementsSession`) | 2 callers, 2 windows, 2 requests, revision up to 3 by application events: a snapshot overlaps an operation, and an addition, a change and a removal may fall anywhere around both |
| `plane_resize` | 2.0 M | a successful resize reports the size its own caller asked for (`ResizeReportsOwnSize`), a timed-out one never its successor's (`TimeoutReportsOwnSize`), and no request is ever in two unsettled places - on the wire, pending in the module, an event on its way or taken by the dispatcher, a reply (`AnsweredAtMostOnce`) | 2 callers and 2 sizes so that resizes supersede each other; 2 connections so that ids repeat; 1 window, since resizes of different windows do not meet |
| `plane_capture` | 140 k | no frame claims an authorization before it is granted, across connections (`FrameFollowsAuthorization`); every call through `send` returns without its deadline (`SendReturns`) | 2 callers, 2 connections, 2 repaints, a frames channel of 2, loss and close at any point |
| `supervisor_session` | 52 k | `NoExitIsLost`; `OrphanKeepsSession`; `OwedCanArrive` (the stop never waits for an exit already consumed, and a collected exit it waits for is on its way); `ReadinessHasMarker`; `ExitEndsSession` (while the reap loop lives, the death of a child ends the session); `MarkerBecomesReadiness` | both children, 1 orphan and an exit channel of 1, so that it is full as soon as two processes have exited; the loop may end before the first child was started |
| `lifecycle_alone` | 20 k | the record leads to the container (`EveryContainerIsNamed`), and closing again finishes a crashed close (`CloseConverges`) | 1 invocation at a time, 3 containers, 2 crashes, 2 engine faults: a crash during the recovery from a crash |
| `lifecycle_concurrent` | 519 k | `ContainerHasRecord`, `UsableWasStarted`, `ClosedContainerIsGone` under concurrent invocations | 2 invocations, 2 containers, 1 crash, 2 engine faults: every pair of commands at every interleaving |
| `interaction_commands` | 906 k | a click, tap or text that succeeds leaves nothing held, whatever others did (`SuccessLeavesNothingHeld`); an operation with a named revision acts at it or not at all (`ActsOnNamedRevision`); a text that succeeds pressed its keys in order and each once, and each with its own shift unless another command held the modifier at that press or had released the one of this text (`SuccessTypedText`); every command returns (`CommandReturns`) | 2 commands in eight pairs that use every operation, 1 window, 1 fault: a failed exec, a lost answer, a hung caller or a killed command at every point. A text of one shifted character (four calls, two keys) beside a second one, a tap, a press or a release of any key, shift too, at every point between its strokes. An application acts only beside commands that look at windows (`Looking`): what keys do takes no notice of them. Deadlock is checked |
| `agent_capture` | 145 k | as long as the compositor announces formats the agent decodes, a reported picture was painted into its own request's buffer (`PictureIsItsOwn`); without a deadline a capture is answered (`CaptureReturns`) | 2 captures, 2 sizes and 1 change of the output, 4 repaints, 1 timeout, a frames channel of 2: an abandoned capture, its late answer and the next capture |
| `vision_session` | 685 k | a picture called stable was seen unchanged in a capture of its own between each two deadlines of the whole time (`StableWasStill`); a deadline of a burst gets a sample, not before its time, or is missed if a capture before it lasted past it (`SamplesOnSchedule`); a manifest describes the pictures beside it (`ManifestDescribesFrames`); an exit wait that times out missed no end that was on record at its last look, which came no earlier than the last deadline before its own unless the record could not be read then (`TimeoutMissesNoExit`); every command ends (`CommandEnds`) | a stability wait, a burst of 3 samples (2 of which may be stored) and an exit wait, each beside a screenshot, and bursts of 2 and 1 into outputs of their own over the one scratch file; deadlines a tick apart, waits of 3 ticks; 1 change of the scene, 1 failed capture or look or interruption, 2 ends held by other invocations at once, so that a stale one is saved over a new one. A capture may outlast one interval and several, a timer may be late by as much, at every phase. The scene changes only beside commands that compare pictures (`Compared`), and applications end only beside those that wait for it (`Watched`) |
| `payload_contested` | 152 k | what is visible under a name is one whole payload (`VisibleIsWhole`); what the receiver stages entry by entry is what is acceptable as a whole, and what it refuses is not, unless a directory stands in the name's way (`StagesExactlyTheAcceptable`); staged files stay only where the clean-up itself failed or was killed, and never of an installed payload (`NoStagingIsLeft`) | every archive of up to 2 of 8 entries, and some of 3 and 4, binaries below, at and above the limit, beside a second payload of the same name or of another; 1 failed write or clean-up, dead host or dead receiver |
| `image_checkouts` | 111 k | an image holds what its manifest's trees hold, seen through their links, the last declaration winning (`ImageIsTheTree`); the image a build reports under the tag its manifest produces is of that manifest (`ReportedIsOwnManifest`) | 2 builds; trees with links to files, directories, ancestors, nothing and `.git`; each rule of validation broken once; 1 edit, 1 failure |

The type invariants of the modules are named `TypeOK`. That of the control plane is listed
with `plane_windows` and proved; the others were checked by TLC under the same cfgs and
are kept in the modules for whoever extends them.

`MaxRevision` bounds application events only; requests and completed resizes still raise
the revision beyond it, and `MaxRequests` bounds those. Callers (and, for resizes, sizes)
are permuted where no liveness is checked; containers and invocations likewise.

One run shows a disagreement, and `PROJECT.json` lists it as a finding:

| Run | Property | What the code does |
|---|---|---|
| `lifecycle_two_applications` | `OneApplicationAtATime` | `Run` refuses a record that is already `running` (`service.go:393`), but two invocations load a ready record and both start an application |

### Known differences

Each of these cfgs checks one property that the repository's words suggest, and TLC finds it
violated (`tlc -config X.cfg M`):

| Cfg (module) | Property | What the code does |
|---|---|---|
| `ControlPlane_lost_capture` (MCControlPlane) | `LossWakesCapture` | `AuthorizeCapture` registers without the `closedFlag` test of `send`; begun after the dispatcher lost the compositor, it is woken by nobody but its own deadline or a `Close` |
| `Supervisor_stopped_ready` (MCSupervisor) | `ProbeReportsDeadProcesses` | a stop request leaves `ready` set in the status file, next to exited children, and the probe believes it |
| `Supervisor_early_reaper` (MCSupervisor) | `NoExitIsMissed` | the reaper is "started before the first child so no exit can be missed" (`main.go:240`); its first `wait4` may precede that child, gets `ECHILD`, and the loop ends for good (`main.go:307`): no exit of the session is collected after that. `ExitEndsSession` is therefore stated of a loop that lives, in a run where the loop may end so |
| `SessionLifecycle_close_orphans` (MCSessionLifecycle) | `ClosedLeavesNoContainer` | a create killed before it saved the container's identifier leaves a record that a close marks closed without touching the container |
| `Interaction_straggling_press` (MCInteraction) | `FailureLeavesNothingHeld` | a press whose exec is killed is still in the agent's queue when the release that cleans up is served: dialled later, it may be served later, and the key stays down |
| `AgentCapture_foreign_frame` (AgentCapture) | `ReplyNamesOwnFrame` | after a capture the agent reads one frame from a buffered channel (`main.go:363`): it may be of an earlier repaint, whose sequence and identifier are then reported |
| `TemporalVision_late_probe` (MCTemporalVision) | `ProbesOnDeadline` | "a probe that could not be issued at its deadline resets the run" (`docs/session-runtime.md:108`); the code resets it only when the previous capture was still in flight (`stability.go:153`), and counts a probe that a late timer delayed. `StableWasStill` states what the result is worth all the same |
| `TemporalVision_shared_output` (MCTemporalVision) | `ManifestDescribesFrames` | two bursts into one output replace each other's pictures and manifest file by file |
| `PayloadReceiver_late_failure` (MCPayloadReceiver) | `RefusedIsInvisible` | a payload is reported rejected although it is installed, when removing its staging directory fails after the rename; a binary whose host died is installed cut short, because the end of its stream looks the same |
| `ImageBuild_reused_staging` (MCImageBuild) | `NothingElseGoesIn` | a context assembled in a directory named by `--staging` keeps what an earlier build put there and the checkout no longer has |
| `ImageBuild_moving_base` (MCImageBuild) | `BaseIsPinned` | the base's digest is compared before the build, which resolves the reference again |

And some that no cfg states, because nothing else depends on them:

- `Snapshot` labels the whole cache, as it is when the caller wakes up, with the revision
  of the answer: a window announced in between is listed under the earlier revision
  (`client.go:430`; the interface says "at one revision"). What does hold is
  `CurrentViewIsLive` and `CurrentSnapshotIsComplete`: as long as the revision is current
  nothing is missing and nothing is dead.
- The first commit of a window maps it without a new revision or an event
  (`wlvision-shell.c:961`), and activating a window silently deactivates the one that had
  the focus (`wlvision-shell.c:442`), although the revision is said to increase with every
  observable change.
- A record may leave `closed`: `Run` saves the record it loaded before its application ran
  over a close that finished meanwhile (`service.go:421`; `model.go:34` calls it terminal).
- A crash of the CLI while its application runs leaves the record `running` as long as the
  container lives (`service.go:401`, `model.go:27`).
- Between a child's death and its reaping a probe takes the zombie for alive
  (`cmd/wlvision-supervisor/main.go:701`).
- A window operation that fails at its deadline may still happen: the agent does not cancel a
  handler whose client went away (`rpc.go:240`). `ActsOnNamedRevision` holds of it all the
  same.
- A capture that times out retires the source for good (`screenshot.go:265`): every later
  capture fails until the agent is started again. A pixel format the agent does not know is
  announced into the channel of failed captures and ends the capture in flight without
  retiring the source, so that the next one may take its answer; `PictureIsItsOwn` therefore
  assumes known formats (`misled`).
- A staging directory that could not be prepared (its `chmod` fails) is left behind empty,
  although `receiver.go:124` promises otherwise, and a refusal ignores the error of its clean-up
  (`receiver.go:169`), which may leave the staged files; `NoStagingIsLeft` allows both.
- Two texts typed at once, or `wlvision key` with shift between the strokes of one, may give a
  character the wrong shift, and both commands succeed: the modifier is the seat's.
  `SuccessTypedText` says which characters this can happen to.
- A save over a newer record takes the end of an application off it again (`service.go:421`), and
  an exit wait that looks afterwards times out.
- A deadline of a burst is missed when the capture before it ended later (`burst.go:160`), also
  when that capture only began late because its timer was: the sample before it shows which
  (`Requested`).
- A manifest's fingerprint leaves out `base.digest`, two modules with one base name share
  `/src/<name>`, a link to a `.git` directory is followed although the directory itself is
  skipped, and credential names are looked for in the declared source paths only, not in the
  trees below them.
- A copy that is killed leaves its temporary `.wlvision-*` file in the context.

## 4. Fairness

- `ControlPlane.Fairness`: Weston's event loop handles requests, the dispatcher dispatches
  what has arrived and finishes a handler it began, and a caller goroutine that can step
  does. Applications, deadlines, the loss of the connection and the creation of a new one are
  not fair: no property relies on an application committing or a caller giving up.
- `Supervisor.FairSpec`: the three goroutines keep running, and the stop deadline passes (it
  is a timer). No fairness for the world: children need not exit and the controller need
  not publish its marker.
- `SessionLifecycle.FairSpec`: an invocation that began goes on unless it crashes, and
  somebody closes the session again and again (strong fairness of beginning a close, since
  other invocations may occupy the single slot). Applications need not exit; the engine may
  fail finitely often, which `MaxRefusals` expresses.

- `Interaction.Fairness`: a command that can issue its next call does; the processes that
  exec started dial and read their reply; the agent serves, and its read deadline and its
  operation budget pass (both are timers in the code, part of `AgentStep`). A caller that has
  dialled may stop for ever: that is what the deadline is for. Applications do nothing fairly.
- `AgentCapture.FairSpec`: the module, the dispatcher and the agent run, and the compositor
  repaints while a capture is waiting for it (the authorization schedules a repaint). Deadlines
  are not fair, so `CaptureReturns` does not rest on them.
- `TemporalVision.FairSpec`: time passes, and every command's own step is taken in the end;
  a call is bounded by its deadline in the code.

`PayloadReceiver` and `ImageBuild` are checked for safety only.

## 5. Proofs

`ControlPlane_proofs` proves `TypeCorrect == Spec => []TypeOK` for all values of the
constants: every request and event on the wire, every reply, view and cache entry has
its type. The lemmas are one per handler and one per client step.

It then proves `ViewsLive == Spec => []CurrentViewIsLive` for any number of callers,
windows, revisions, requests and connections, with or without faults. The statement is not
inductive: a view is filled from the client's cache, the cache from events still on the wire, and
those by the module. The inductive invariant `IInv` is

- `SilentWithoutController`: without a controller nothing is on the wire;
- `PendingIsUnanswered`: a registered call has no answer yet, so a reply and the revision
  in it belong together;
- `RevisionIsNewest`: no revision on the wire, in the client, in a reply, in the cache or
  in a view exceeds the module's;
- `CacheExcused`, `ListsExcused`, `ChangesExcused`: every handle in the cache, in the list
  a snapshot collects, or in a `toplevel_changed` event is alive, or its removal is
  announced later on the wire, or the connection is severed and the client is behind;
- `RemovalsOutrun`: until the client has heard of a removal, everything it knows of the
  revision is older than the module's;
- `CurrentViewIsLive` itself.

The argument: the module announces a removal and only then raises the revision, with no
message in between. So as long as a removal is on the wire, whatever the client can label a
`State` with is behind the module's revision; and once the client has dispatched the
removal, the handle has left the cache and the lists. A call whose answer carries the
current revision therefore reads a cache in which every handle is alive. One lemma per
kind of step (`AppendKeeps`, `GrowthKeeps`, `RemovalKeeps`, `QuietKeeps`, `DeliveryKeeps`,
`ReceiveKeeps`, ...) carries it through every action of `Next`.

`ControlPlane_proofs` also proves `SessionImplemented == Spec => ImplementsSession`: with
`rev`, `live` and `given` read off the shell module's revision, its windows and its handle
counter, every behaviour of the control plane is one of `SessionWindows`. Initial states
map by definition; every action of the module either raises the revision by one together
with one appearance, removal or alteration, or leaves all three alone; every action of the
client, of the wire and of the callers is a stutter. The
invariant it needs besides `TypeOK` is `HandlesDistinct`: no window is listed twice and no
handle is above the counter, or a removal would not take a handle away and an addition
might repeat one. This is what allows `AgentCalls` to stand on `SessionWindows`.

The second part of `ControlPlane_proofs` (from `InFlight` on) proves
`ResizeReportsOwnSize`, `TimeoutReportsOwnSize`,
`SeenWindowIsNeverNotFound`, `AnsweredAtMostOnce` and `FrameFollowsAuthorization`, for the same
values of the constants. The numbers of requests start again at 1 with every connection, so
none of them is about one message: the invariant (`AInv`, inductive together with `IInv`) is about
everything that bears a number.

- `Numbered`: every number on the wire, in the module, in the client and with a caller was given
  on this connection, and to one call; without a controller nothing of it is left in the module.
- `Fits`: whatever bears the number of a call in flight - its request, its pending resize, an
  event, an entry of `resizeProgress`, the answer `FinishHandler` holds, the reply - was made for that
  call: it carries its size, and it says "not found" only of a window that is not in the
  caller's `State`. For the last the module must be caught in the act: it reads the request at the
  revision it names, which is then that of the caller's `State`, and `CurrentViewIsLive` says that
  the window is alive.
- `OnePlace`: a request is with its caller, on the wire, pending in the module, answered or in the
  dispatcher's hand between the two halves of a handler, in one of these only and once.
- `FramesLag`: a request the module has not read is claimed by no frame, and on the wire a frame
  comes after the authorization it claims; frames the client still buffers of an earlier
  connection claim none of this one's that is not granted yet.

`HandledSays` and `EventsSay` say once what a request and an application's step put on the wire;
`GoesOn` says what a step of the client may do to a call it is not about. One lemma per kind of
step carries the four parts over.

The third part of `ControlPlane_proofs` (from `RevisionsRise` on) proves
`RemovedStaysRemoved`, `CurrentViewShowsActive`,
`CurrentSnapshotIsComplete` and the action property `ClientRevisionNeverDrops`. Its invariant
(`VInv`, inductive together with `IInv` and `AInv`) is about what the client will have heard when
it comes to the k-th event on the wire.

- `RevisionsRise`: the revisions on the wire never drop and none is below the client's, so that
  `OnSnapshot` and `OnToplevelChanged`, which assign the revision without comparing, never lower
  it, and nothing a snapshot has collected is newer than what is announced next.
- `GoneStaysGone`: a handle that was removed, or whose removal is on the wire, is dead, was given
  (`Buried`) and is not announced again, because handles are given once (`HandlesDistinct`).
- `ActiveShown`: a window in the cache has its flag if it is activated; or the announcement of its
  activation is on the wire and everything the client and the callers hold is older (`Activates`);
  or the connection is severed and they are behind. The window of a snapshot's list may also be
  removed, or `Superseded`: the cache has it as new and `mergeSnapshot` will not take it. A `State`
  with the module's revision excludes all but the first.
- `SnapshotsCollect`: when the answer of a snapshot is dispatched, its list has every window
  (`Collected`): it had it, and no list begins before the answer, or the window is announced
  before the answer and no list begins in between. Overlapping snapshots of several callers
  reset each other's lists, and this is why none of them loses a window. What the merge leaves
  out is in the cache as new already, or dead.

`Shows` says once what a step of the module does to the windows and tells the client, `Takes` what
the dispatch of one event does to the client, `Returns` what a caller's return does to the cache and
the `State`s; every other step of the client is shown to observe nothing (`Observes`).

`Supervisor_proofs` proves `NoExitIsLost`, `OrphanKeepsSession`, `ReadinessHasMarker` and
`OwedCanArrive` for any number of orphans and any capacity of the exit channel. The inductive
invariant adds to them what each goroutine may rely on: a child is recorded when it is started
(`StartedIsRecorded`); an exit is told once, so that what is queued or in the reaper's hand was
reaped and not observed before (`ToldOnce`); what `Run` started, writes and still waits for
follows from where it is (`RunKnows`); the watcher is off until the session was published
(`WatcherFollowsPublish`). `ToldOnce` is why blocking on a full channel loses nothing: `reapLoop`
holds the one exit it could not send, and nobody else reaps. `OwedCanArrive` follows: it speaks of
exits that were collected, and of those still to be collected only that they were not consumed.
That a child's exit will be collected is not a theorem, and `Supervisor_early_reaper.cfg` shows why.

`SessionLifecycle_proofs` proves `ContainerHasRecord`, `UsableWasStarted` and
`ClosedContainerIsGone` for any number of invocations, containers, faults and crashes. What
makes them inductive is `MemoryIsSane`, about the copies in the invocations' memories and not
about the store: a copy that says `ready` or `running` names a container that was started, and
one that says `closed` names none that is left - both are properties of a container that no step
undoes, so a copy that is saved late is stale and yet not wrong. `SoleInvocationNamesContainers`
proves `EveryContainerIsNamed` under the hypothesis that there is one invocation at a time, which
is what the run checks; with two, a close that loaded the record before the container's name was
saved writes it back without the name.

`AgentCapture_proofs` proves `PictureIsItsOwn` for any number of captures, repaints, timeouts and
buffers. An answer names no request, so the invariant places it: while the source is not retired,
`OneInFlight` says that a request on the wire, a task in the compositor, an answer on its way and an
answer in a channel exclude each other, and `FlightIsOwn` that whichever there is belongs to the
capture under way, whose buffer is filled if it says complete. A retired source is never asked
again (`RetiredIsIdle`). As in the property, a format the agent does not know (`misled`) ends
what is claimed.

`TemporalVision_proofs` proves `SamplesOnSchedule`, `StableWasStill` and `TimeoutMissesNoExit` for
any commands, schedules, lengths of captures and delays of timers. The invariant is one of each
command against the clock and the record (`OnSchedule`): a burst is at the first deadline that no
sample lasted past, and asks at that deadline or later (`BurstOnTime`); a stability wait that
remembers a picture has, since the picture last changed, a probe for each deadline, asked for after
it and answered before the next (`StableOnTime`); an end that an exit wait goes on without was saved
after its last look, and a look that succeeded came no earlier than the deadline it was due at
(`ExitOnTime`). `ManifestsDescribe` proves `ManifestDescribesFrames` under
`Separate`: no two bursts of a scenario share an output. The run `TemporalVision_shared_output`
shows what happens without it. Its invariant (`SeparateInv`) says that the pictures of a burst are
where its samples say, under the names of the frames it has dealt with, so that the next one
replaces none of them; the scratch file needs no assumption, because what is fetched is compared
with the digest.

`Interaction_proofs` is the longest. Its first part proves `TypeOK` and `ActsOnNamedRevision` from
`CallsInv`: a command that waits has its call under way, which carries the request at the head of
its list (`WaitsForItsCall`); the agent serves the first of the queue (`ServesTheFirst`); only a
command that failed leaves a call behind (`CallSound`); and every window operation, still to be
made or under way, carries the revision its user named (`CarriesNamed`). The second part is about
what a command has pressed:

- `SeatSound` says, of a command that has not failed, that what it still has to do leads from the
  keys it has down and the characters it has typed to no key down and the whole text (`Leads`, a
  run of the little machine `Does`). It is stated of the moment the agent acts and not of the
  moment the command hears: between the two the call has happened and the command does not
  know yet (`Moved`).
- `StepOf` sorts the steps of `Next` by what they mean to one command - its call is served,
  another's is, it hears of success or of failure, it starts, it issues, or it stays as it is - and
  one lemma for each carries `SeatSound` over it.
- That a text of any length is a sequence of strokes that leads from nothing to the text is an
  induction over the text. `SequencesExt!FlattenSeq` is a fold over a recursive function, and the
  library's induction theorems have an operator for a parameter, which these provers cannot
  instantiate; `Least` and `Induction` are their forms for sets, from the theorem that `<` is
  well-founded on the naturals, and `UnfoldingExists` and `FlattenUnfolds` give the recursive
  function its equation.

Neither `NothingHeldAfterSuccess` nor `SuccessTypes` needs a hypothesis on what the other commands
do. Their releases, late or not, may take this command's keys away but never add one of its own.
Shift is the seat's and not the command's, so `SeatSound` compares the characters typed with those
of the little machine by `Renders`, which excuses a meddled one, and keeps that the shift this text
pressed is held or was lifted by somebody else: a character with neither mark has its own shift.

`PayloadReceiver_proofs` proves `VisibleIsWhole`, `NoStagingIsLeft` and
`StagesExactlyTheAcceptable` for archives of any length, any limits and any number of receivers and
names, whatever step of the file system fails. What a receiver has staged is what the entries it
has read describe (`WholeAt`), and those entries fit together (`CheckedAt`); what is shown under a
name is what its receiver had staged when it renamed it (`ShownAt`). The two ends of the stream meet in bytes: as every entry
has a header, a stream that has ended within the limit has no entry left (`EndIsTheEnd`), and an
entry refused where it stands makes the whole archive unacceptable (`RefusedIsUnacceptable`,
`JudgedAt`), whichever of two conflicting entries comes first. The sum over the entries is a
fold, which gets its equation as the text of `Interaction` does.

`ImageBuild_proofs` proves two things for any file trees, manifests and builds. Both stand on
`Basics`: the tree is a tree, only files are removed or rewritten, and every build keeps the
fields it has.

`ReportsItsManifest` proves `ReportedIsOwnManifest`. Its invariant, `Recipes`, says that from
staging to the tag the recipe is the build's own (`OwnRecipe`), and that what the engine holds
under the tag a manifest produces declares what that manifest does (`OwnTag`), since whoever
moves that tag has a manifest with the same fingerprint (`CanonicalTells`). So it does not
matter that docker is asked for the image by a tag that another build may have moved. The property
has the hypothesis `Apart`: no two builds share a directory for their context, and nobody is
given by hand, or holds beforehand, the tag that another manifest produces. Without it `--staging`
or `--tag` lets one build take the context or the name of another, as they are meant to.

`ImagesAreTheTree` proves `ImageIsTheTree`: a build that stages in its own temporary directory
makes exactly the files that its declared sources and modules have, seen through their links,
the last declaration's where two meet, and none older than the build. The proof has two halves.

- What the operators compute. Paths, walks and file systems are folds of the community modules,
  over sequences or over finite sets in an unknown order; each gets its equation first (`FoldExists`,
  `RealEnters`, `EntriesAre`, `FilesAre`). Then what the host can change while a build runs:
  `Remains` says that a path means what it meant or, if it meant the removed file, nothing.
  `Standing` and `Fit` say of a plan that the layers, resolved anew for the Containerfile, still
  go where they were staged: this is where it is used that only files disappear.
- The walk. While a build stages, `Staging` says that every item leads where its name does
  (`Leads`, with a link still to be followed), that every file in the context is what its key
  means in the tree, or has been removed since (`Faithful`), and that every file of the tree is in
  the context or below an item still to be walked (`Found`, `Covers`). A link, a directory and a
  file each carry it over (`StagingLink`, `StagingDirectory`, `StagingFile`), and so does every
  removal (`StagingRemains`). When nothing is left to walk, the COPY lines make the whole tree
  (`WholeFirst`).

`OwnTrees` carries this through the steps of `Next`; it uses that nobody else writes to a temporary
directory (`PlaceIs`).

The inductive invariants were checked by TLC on the instances of section 3 before they were
proved, with the exception of `OwnTrees`, which speaks of all names and cannot be evaluated.

The proofs assume only the named `ASSUME`s of the modules, which TLC evaluates on every run: the
bounds are naturals; placeholders differ from what they stand beside; a schedule's intervals,
its number of frames and its end are not zero; a text is not empty (`Type` refuses an empty one);
no orphan bears the name of a child or of a state of the reaper; a payload is a sequence of
entries with a path, a type and a size, and a binary is one entry; the host's files form a tree, in
which a link's target, its own links resolved, is no link; a manifest has its fields. Beyond
those there are only the hypotheses above: one invocation (`SoleInvocationNamesContainers`),
separate outputs (`ManifestsDescribe`), builds that are `Apart` (`ReportsItsManifest`). Each is met
by states the runs reach, and each is needed.

Every safety property of a passing run is proved. Checked by TLC only: all liveness
(`SendReturns`, `ExitEndsSession`, `MarkerBecomesReadiness`, `CloseConverges`, `CommandReturns`,
`CaptureReturns`, `CommandEnds`), which is out of the prover's reach together with `ENABLED`; the
type invariant of `ImageBuild`, of which `Basics` proves the host's half; and the counterexamples
of section 3, which are found and not proved.

## 6. Not modelled

- In the shell module: access control by client credentials, views and geometry, allocation
  failures, the wrap of the 32-bit handle counter and of the 64-bit revision.
- In the supervisor: pid files and their failure, pid reuse, environment and arguments, logs.
- In the lifecycle: payload entries, limits and retention times as data; failures of the
  store's own writes (a save is atomic: it writes a temporary file and renames it).
- In the agent, RPC and agent calls: framing, peer credentials, message sizes, the decoding of
  requests and replies; several sessions at once, which share nothing.
- In the input service: coordinates, key names and the keyboard layout, which are conversions;
  a window's geometry in a click.
- In the captures: pixel formats as data, the PNG encoder, strides. A format is known or not.
- In the waits: the wait for a new frame, for a number of windows and for the state of a
  window, which poll like the exit wait without its clock comparison; contact sheets; a screenshot
  whose `--output` names a frame of a burst.
- In the payload receiver: file modes, digests, ownership; the refusal of names that leave the
  directory, which is a conversion of a string.
- In the image build: the text of the Containerfile, packages, commands, environment and file
  modes, directories without files; podman's adapter, which differs from docker's in its command
  line; the engine is external beyond the tag it is asked for.
- Result envelope, flag parsing, printing, `doctor`, `logs`: sequential conversions between data
  formats without state of their own.
- Generated code, fakes, probes, fixtures, scripts, build files: not part of the running system.

## 7. Plan

Done, in this order: `ControlWire`, `WlvisionShell`, `ControlClient`, `ControlPlane`, the proofs
of its types and its views, `Supervisor`, `SessionLifecycle`; then `SessionWindows` with the
refinement and its proof, `AgentCalls` with `Interaction`, `AgentCapture`, `TemporalVision`,
`PayloadReceiver`, `ImageBuild`.

Proved: every safety property that a passing run checks, and the refinement of `SessionWindows`.

What is left, most important first:

1. In `ImageBuild`, what a directory that is staged in again may add: `NothingElseGoesIn` fails,
   and how little else than stale files it lets in is not stated.
2. The waits `TemporalVision` leaves out (section 6), which would share its exit wait's invariant.
