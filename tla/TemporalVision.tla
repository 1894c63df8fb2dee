--------------------------- MODULE TemporalVision ---------------------------
(***************************************************************************)
(* The commands that look at a session over time: screenshot, the burst,   *)
(* the stability wait and the exit wait (cmd/wlvision/capture.go, wait.go   *)
(* and vision.go; internal/capture/burst.go and stability.go;               *)
(* internal/export).  A capture is one call that stores a picture in a file *)
(* of the session, and a fetch reads that file back: commands share files.  *)
(*                                                                          *)
(* Time is in ticks; a capture and its answer take any number of them, and  *)
(* a timer wakes its command at its time or any number of ticks later.      *)
(***************************************************************************)
EXTENDS Naturals, Sequences, FiniteSets, SequencesExt, FiniteSetsExt

CONSTANTS
    Commands,       \* commands run on the host
    Directories,    \* what --output may name
    Scenarios,      \* the job, the output and the frames of each command
    Pictures,       \* what the session may show
    None,           \* no picture
    Interval,       \* ticks between probes and between samples
    StableFor,      \* ticks the picture must hold still
    Timeout,        \* ticks a wait lasts
    FrameCount,     \* bound on the samples of a burst
    StoredCap,      \* pictures a burst may store
    LastStart, LastTick,    \* bounds on the clock: when commands start, and when it stops
    MaxChanges,     \* bound on changes of the scene
    MaxHeld,        \* bound on invocations that are about to save the record
    MaxFailures     \* bound on captures that fail and commands that are interrupted

Jobs == {"screenshot", "burst", "stable", "exit"}
Waits == {"stable", "exit"}

ASSUME VisionAssumption ==
    /\ Scenarios \subseteq [Commands -> [job : Jobs, output : Directories, frames : 1 .. FrameCount]]
    /\ None \notin Pictures
    /\ {StoredCap, LastStart, MaxChanges, MaxHeld, MaxFailures} \subseteq Nat
    /\ {Interval, StableFor, Timeout, FrameCount, LastTick} \subseteq Nat \ {0}

VARIABLES
    clock,
    scene,      \* what the session shows: a picture, at a revision
    exitAt,     \* the record: when an application ended, 0 for never
    savedAt,    \* when the record was last saved
    held,       \* ends that invocations are about to save in the record
    files,      \* session: the file "scratch" and those screenshots name
    artifacts,  \* host: stored pictures by output and name
    manifests,  \* host: the manifest of each output, << >> for none
    run,        \* what each command is doing
    changes, failures

recordVars == <<exitAt, savedAt, held>>
vars == <<clock, scene, recordVars, files, artifacts, manifests, run, changes, failures>>
worldVars == <<clock, scene, recordVars, changes>>
hostVars == <<artifacts, manifests>>

Scene == [picture : Pictures, revision : 0 .. MaxChanges]
NoScene == [picture |-> None, revision |-> 0]
Statuses == {"captured", "deduplicated", "missed", "failed"}
Names == 1 .. FrameCount \cup {0}   \* frame numbers, and 0 for a screenshot
Sample == [status : Statuses, asked : Nat, completed : Nat,
           picture : Pictures \cup {None}, name : Names]
Probe == [asked : Nat, completed : Nat, scene : Scene \cup {NoScene}]

Run == [job : Jobs, output : Directories, frames : 1 .. FrameCount, start : Nat, index : Nat,
        pc : {"idle", "waiting", "capturing", "captured", "publishing",
              "done", "failed", "timed_out", "interrupted"},
        asked : Nat, blind : BOOLEAN, got : Scene \cup {NoScene},
        current : Scene \cup {NoScene}, since : Nat, completed : Nat,
        seen : Seq(Probe), samples : Seq(Sample),
        last : Pictures \cup {None}, lastName : Names, stored : Nat]

TypeOK ==
    /\ clock \in 0 .. LastTick /\ scene \in Scene
    /\ savedAt \in 0 .. clock /\ exitAt \in 0 .. savedAt /\ held \subseteq 0 .. clock
    /\ files \in [{"scratch"} \cup Directories -> Pictures \cup {None}]
    /\ artifacts \in [Directories \X Names -> Pictures \cup {None}]
    /\ manifests \in [Directories -> Seq(Sample)]
    /\ run \in [Commands -> Run]
    /\ \A m \in Commands : run[m].stored <= StoredCap /\ Len(run[m].samples) <= run[m].frames
    /\ changes \in 0 .. MaxChanges /\ failures \in 0 .. MaxFailures

Idle(what) ==
    [job |-> what.job, output |-> what.output, frames |-> what.frames, start |-> 0,
     index |-> 0, pc |-> "idle", asked |-> 0, blind |-> FALSE, got |-> NoScene,
     current |-> NoScene, since |-> 0, completed |-> 0, seen |-> << >>,
     samples |-> << >>, last |-> None, lastName |-> 0, stored |-> 0]

\* An application's end matters to the commands that wait for one, a change to
\* those that compare one picture with the next.
Watched == \E m \in Commands : run[m].job = "exit"
Compared == \E m \in Commands : run[m].job \in {"burst", "stable"}

Init ==
    /\ clock = 1 /\ scene \in [picture : Pictures, revision : {0}]
    /\ files = [f \in {"scratch"} \cup Directories |-> None]
    /\ artifacts = [a \in Directories \X Names |-> None]
    /\ manifests = [d \in Directories |-> << >>]
    /\ \E what \in Scenarios : run = [m \in Commands |-> Idle(what[m])]
    /\ exitAt \in IF Watched THEN {0, 1} ELSE {0}
    /\ savedAt = exitAt /\ held = {}
    /\ changes = 0 /\ failures = 0

Becomes(m, r) == run' = [run EXCEPT ![m] = r]

-----------------------------------------------------------------------------
(***************************************************************************)
(* Deadlines are absolute: start + n * Interval, whatever captures take.   *)
(***************************************************************************)
Scheduled(r) == r.start + r.index * Interval
Deadline(r) == r.start + Timeout
WakesAt(r) == IF r.job \in Waits THEN Min({Scheduled(r), Deadline(r)}) ELSE Scheduled(r)

Due(r) == r.pc = "waiting" /\ clock >= WakesAt(r)

Begins(m, pc) ==
    /\ run[m].pc = "idle" /\ clock <= LastStart
    /\ Becomes(m, [run[m] EXCEPT !.start = clock, !.pc = pc])
    /\ UNCHANGED <<worldVars, files, hostVars, failures>>

StartScreenshot(m) == run[m].job = "screenshot" /\ Begins(m, "capturing")
StartBurst(m) == run[m].job = "burst" /\ Begins(m, "waiting")
StartWait(m) == run[m].job \in Waits /\ Begins(m, "waiting")
Start(m) == StartScreenshot(m) \/ StartBurst(m) \/ StartWait(m)

\* What was asked for is dealt with.
Settles(r) == [r EXCEPT !.asked = 0, !.got = NoScene]

Forgets(r) == [r EXCEPT !.current = NoScene]

\* Mutant: a probe that had to wait for the previous one counts like any other.
OnTimeAlways(r) == r

\* The previous capture was still in flight when this probe was due.  A probe that
\* is late because its timer was is taken for one on time.
OnTime(r) == IF r.completed > Scheduled(r) THEN Forgets(r) ELSE r

\* Mutant: a wait that is past its deadline goes on waiting.
TakesProbeOrWaits(r) ==
    IF r.job \in Waits /\ clock >= Deadline(r) THEN r
    ELSE [OnTime(r) EXCEPT !.pc = "capturing", !.asked = clock]

\* A wait that is past its deadline stops; the others ask.
TakesProbe(r) ==
    IF r.job \in Waits /\ clock >= Deadline(r) THEN [r EXCEPT !.pc = "timed_out"]
    ELSE [OnTime(r) EXCEPT !.pc = "capturing", !.asked = clock]

\* Mutant: only an exit after the start counts.
ExitSeenLater(r) == exitAt > r.start

ExitSeen(r) == exitAt >= r.start

\* The exit wait reads the record; it captures nothing.
ReadsRecord(r) ==
    CASE clock >= Deadline(r) -> [r EXCEPT !.pc = "timed_out"]
      [] clock < Deadline(r) /\ ExitSeen(r) -> [r EXCEPT !.pc = "done"]
      [] OTHER -> [r EXCEPT !.index = @ + 1, !.asked = clock, !.blind = FALSE]

Wake(m) ==
    /\ Due(run[m])
    /\ Becomes(m, IF run[m].job = "exit" THEN ReadsRecord(run[m]) ELSE TakesProbe(run[m]))
    /\ UNCHANGED <<worldVars, files, hostVars, failures>>

-----------------------------------------------------------------------------
(***************************************************************************)
(* One capture: the agent stores the picture and answers with its digest.  *)
(***************************************************************************)
StoredIn(r) == IF r.job = "screenshot" THEN r.output ELSE "scratch"

AgentCaptures(m) ==
    /\ run[m].pc = "capturing"
    /\ files' = [files EXCEPT ![StoredIn(run[m])] = scene.picture]
    /\ Becomes(m, [run[m] EXCEPT !.pc = "captured", !.got = scene])
    /\ UNCHANGED <<worldVars, hostVars, failures>>

\* Stability is claimed on the instants the captures were asked for.
Compares(r) ==
    LET probe == [asked |-> r.asked, completed |-> clock, scene |-> r.got]
        next == [Settles(r) EXCEPT !.completed = clock, !.index = @ + 1, !.pc = "waiting",
                          !.seen = Append(@, probe)]
    IN CASE r.current # r.got ->
              [next EXCEPT !.current = r.got, !.since = r.asked]
         [] r.current = r.got /\ r.asked - r.since >= StableFor ->
              [next EXCEPT !.pc = "done"]
         [] OTHER -> next

Answered(m) ==
    /\ run[m].pc = "captured" /\ run[m].job = "stable"
    /\ Becomes(m, Compares(run[m]))
    /\ UNCHANGED <<worldVars, files, hostVars, failures>>

-----------------------------------------------------------------------------
(***************************************************************************)
(* The burst: every deadline gets one sample, in order.                    *)
(***************************************************************************)
Missed == [status |-> "missed", asked |-> 0, completed |-> 0, picture |-> None, name |-> 0]

\* Deadlines that passed during the capture are recorded and skipped.
PassedDuring(r) ==
    {i \in r.index + 1 .. r.frames - 1 : r.start + i * Interval < clock}

\* Mutant: the samples whose deadlines passed are taken late.
RecordsTakingLate(r, sample) ==
    [Settles(r) EXCEPT !.samples = Append(@, sample), !.index = @ + 1,
              !.pc = IF r.index + 1 = r.frames THEN "publishing" ELSE "waiting"]

Records(r, sample) ==
    LET skipped == Cardinality(PassedDuring(r)) IN
    [Settles(r) EXCEPT !.samples = Append(@, sample) \o [i \in 1 .. skipped |-> Missed],
              !.index = @ + 1 + skipped,
              !.pc = IF r.index + 1 + skipped = r.frames THEN "publishing" ELSE "waiting"]

Failed(r) ==
    [status |-> "failed", asked |-> r.asked, completed |-> clock, picture |-> None, name |-> 0]

\* A picture equal to the last one stored is not stored again.
Duplicates(r) ==
    [status |-> "deduplicated", asked |-> r.asked, completed |-> clock,
     picture |-> r.got.picture, name |-> r.lastName]

\* A picture is stored under its name by a rename: the file is whole.
Store(output, name, picture) == artifacts' = [artifacts EXCEPT ![<<output, name>>] = picture]

\* Mutant: what was fetched is not compared with the reported digest.
FetchedAnything(r) == TRUE

Fetched(r) == files[StoredIn(r)] = r.got.picture

SampleFetched(m) ==
    LET r == run[m]
        name == r.index + 1
        sample == [status |-> "captured", asked |-> r.asked, completed |-> clock,
                   picture |-> r.got.picture, name |-> name]
    IN
    /\ r.pc = "captured" /\ r.job = "burst"
    /\ \/ /\ ~Fetched(r)
          /\ Becomes(m, Records(r, Failed(r)))
          /\ UNCHANGED artifacts
       \/ /\ Fetched(r) /\ r.got.picture = r.last
          /\ Becomes(m, Records(r, Duplicates(r)))
          /\ UNCHANGED artifacts
       \/ /\ Fetched(r) /\ r.got.picture # r.last /\ r.stored = StoredCap
          /\ Becomes(m, [r EXCEPT !.samples = Append(@, Failed(r)), !.pc = "publishing"])
          /\ UNCHANGED artifacts
       \/ /\ Fetched(r) /\ r.got.picture # r.last /\ r.stored < StoredCap
          /\ Store(r.output, name, files["scratch"])
          /\ Becomes(m, [Records(r, sample) EXCEPT !.last = r.got.picture, !.lastName = name,
                                                   !.stored = @ + 1])
    /\ UNCHANGED <<worldVars, files, manifests, failures>>

\* The manifest is written last.
Publish(m) ==
    /\ run[m].pc = "publishing"
    /\ manifests' = [manifests EXCEPT ![run[m].output] = run[m].samples]
    /\ Becomes(m, [run[m] EXCEPT !.pc = "done"])
    /\ UNCHANGED <<worldVars, files, artifacts, failures>>

\* The screenshot is fetched and stored, and then compared with the digest.
StoreScreenshot(m) ==
    LET r == run[m] IN
    /\ r.pc = "captured" /\ r.job = "screenshot"
    /\ Store(r.output, 0, files[r.output])
    /\ Becomes(m, [r EXCEPT !.pc = IF Fetched(r) THEN "done" ELSE "failed",
                            !.last = files[r.output]])
    /\ UNCHANGED <<worldVars, files, manifests, failures>>

-----------------------------------------------------------------------------
Fault == failures < MaxFailures /\ failures' = failures + 1

\* A capture, a fetch or a store fails: the sample is lost, the wait forgets
\* what it saw, the screenshot fails.
CaptureFails(m) ==
    LET r == run[m] IN
    /\ Fault
    /\ r.pc \in {"capturing", "captured"}
    /\ Becomes(m, CASE r.job = "burst" -> Records(r, Failed(r))
                    [] r.job = "stable" ->
                          [Forgets(Settles(r)) EXCEPT !.completed = clock, !.index = @ + 1,
                              !.pc = "waiting",
                              !.seen = Append(@, [asked |-> r.asked, completed |-> clock,
                                                  scene |-> NoScene])]
                    [] OTHER -> [r EXCEPT !.pc = "failed"])
    /\ UNCHANGED <<worldVars, files, hostVars>>

\* A look at the record fails: the next one tries again.
LookFails(m) ==
    LET r == run[m] IN
    /\ Fault
    /\ Due(r) /\ r.job = "exit" /\ clock < Deadline(r)
    /\ Becomes(m, [r EXCEPT !.index = @ + 1, !.blind = TRUE])
    /\ UNCHANGED <<worldVars, files, hostVars>>

\* The context of the command ends, or its manifest cannot be stored.
Interrupted(m) ==
    /\ Fault
    /\ run[m].pc \in {"waiting", "capturing", "captured", "publishing"}
    /\ Becomes(m, [run[m] EXCEPT !.pc = "interrupted"])
    /\ UNCHANGED <<worldVars, files, hostVars>>

\* The session changes what it shows, or its revision, or both.
SceneChanges ==
    /\ Compared /\ changes < MaxChanges /\ changes' = changes + 1
    /\ scene' \in [picture : Pictures, revision : {scene.revision, scene.revision + 1}] \ {scene}
    /\ UNCHANGED <<clock, recordVars, files, hostVars, run, failures>>

-----------------------------------------------------------------------------
(***************************************************************************)
(* The record of the session: any number of invocations of wlvision load    *)
(* it, and save it later with the end it then had or with a new one.        *)
(***************************************************************************)
Holds(end) ==
    /\ Watched /\ end \notin held /\ Cardinality(held) < MaxHeld
    /\ held' = held \cup {end}
    /\ UNCHANGED <<clock, scene, exitAt, savedAt, changes, files, hostVars, run, failures>>

\* An application ends: the run that waited for it stamps its end.
ApplicationExits == Holds(clock)

\* Another invocation loads the record, with the end of an earlier application.
RecordLoads == Holds(exitAt)

\* One of them saves what it holds, which others that loaded the same still do.
RecordSaves ==
    \E end \in held :
        /\ exitAt' = end /\ savedAt' = clock
        /\ held' \in {held, held \ {end}}
        /\ UNCHANGED <<clock, scene, changes, files, hostVars, run, failures>>

-----------------------------------------------------------------------------
Tick ==
    /\ clock < LastTick
    /\ clock' = clock + 1
    /\ UNCHANGED <<scene, recordVars, changes, files, hostVars, run, failures>>

Advances(m) ==
    Wake(m) \/ AgentCaptures(m) \/ Answered(m) \/ SampleFetched(m) \/ Publish(m)
    \/ StoreScreenshot(m)

Next ==
    \/ \E m \in Commands : Start(m) \/ Advances(m) \/ CaptureFails(m) \/ LookFails(m) \/ Interrupted(m)
    \/ SceneChanges \/ ApplicationExits \/ RecordLoads \/ RecordSaves \/ Tick

Spec == Init /\ [][Next]_vars

\* Time passes, and a call is answered in the end.
FairSpec == Spec /\ WF_vars(Tick) /\ \A m \in Commands : WF_vars(Advances(m))

-----------------------------------------------------------------------------
(***************************************************************************)
(* Properties.                                                             *)
(***************************************************************************)
Slot(m, i) == run[m].start + (i - 1) * Interval

\* A picture called stable was seen, unchanged and at one revision, over the whole
\* time: between each two deadlines of the run there was a capture of its own, asked
\* for and answered in between.  Only the last capture may be later than that.
StableWasStill ==
    \A m \in Commands : run[m].job = "stable" /\ run[m].pc = "done" =>
        LET seen == run[m].seen IN
        \E first \in 1 .. Len(seen) :
            /\ seen[Len(seen)].asked - seen[first].asked >= StableFor
            /\ \A i \in first .. Len(seen) :
                  /\ seen[i].scene = run[m].current
                  /\ Slot(m, i) <= seen[i].asked
                  /\ i < Len(seen) => seen[i].completed <= Slot(m, i + 1)

\* stability.go: "a probe that could not be issued at its deadline" restarts the
\* window, so every probe after the first was issued at its own.
ProbesOnDeadline ==
    \A m \in Commands : run[m].job = "stable" /\ run[m].pc = "done" =>
        LET seen == run[m].seen IN
        \E first \in 1 .. Len(seen) :
            /\ seen[Len(seen)].asked - seen[first].asked >= StableFor
            /\ \A i \in first + 1 .. Len(seen) : seen[i].asked = Slot(m, i)

\* A slow capture never shifts the samples that follow it: a sample is taken if no
\* capture before it lasted past its deadline, never before that deadline, and it
\* is missed if one did.
SamplesOnSchedule ==
    \A m \in Commands : run[m].job = "burst" =>
        LET samples == run[m].samples
            Late(i) == \E j \in 1 .. i - 1 : samples[j].completed > Slot(m, i)
        IN \A i \in 1 .. Len(samples) :
              IF samples[i].status = "missed" THEN Late(i)
              ELSE Slot(m, i) <= samples[i].asked /\ ~Late(i)

\* A manifest on the host describes the pictures beside it.
ManifestDescribesFrames ==
    \A d \in Directories : \A i \in 1 .. Len(manifests[d]) :
        LET sample == manifests[d][i] IN
        sample.status \in {"captured", "deduplicated"}
            => artifacts[<<d, sample.name>>] = sample.picture

\* A wait for an exit that times out missed no end that was on record when it
\* looked: what is on record was saved after its last look, which came at its own
\* time unless the record could not be read then.
TimeoutMissesNoExit ==
    \A m \in Commands :
        LET r == run[m] IN
        r.job = "exit" /\ r.pc = "timed_out" /\ exitAt >= r.start =>
            /\ r.asked <= savedAt
            /\ r.index > 0 /\ ~r.blind => Scheduled(r) - Interval <= r.asked

\* Every command ends: no wait outlives its deadline for ever, no burst hangs
\* on its schedule.
Running(m) == run[m].pc \in {"waiting", "capturing", "captured", "publishing"}
CommandEnds == \A m \in Commands : Running(m) ~> ~Running(m)

=============================================================================
