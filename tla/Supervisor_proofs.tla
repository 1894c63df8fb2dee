------------------------- MODULE Supervisor_proofs -------------------------
(***************************************************************************)
(* Proofs about the session supervisor: its type invariant and the four    *)
(* safety invariants of its runs, for every set of orphans, every capacity *)
(* of the exit channel and every subset of the events.                     *)
(***************************************************************************)
EXTENDS Supervisor, SequenceTheorems, TLAPS

(***************************************************************************)
(* What a channel holds, and that it holds nothing twice.                  *)
(***************************************************************************)
Told(s) == {s[i] : i \in 1 .. Len(s)}
Once(s) == \A i, j \in 1 .. Len(s) : s[i] = s[j] => i = j

(***************************************************************************)
(* The inductive invariant.                                                *)
(***************************************************************************)
\* A child is recorded when it is started: a child that runs or died is one
\* Run knows.
StartedIsRecorded == \A c \in Children : c \in started <=> process[c] # "none"

\* The reaper tells an exit once: what is queued or in its hand is reaped, is
\* there once, and was not observed before.
ToldOnce ==
    /\ Once(events)
    /\ \A p \in Told(events) : process[p] = "reaped" /\ p \notin exited
    /\ reaper \in Processes =>
          process[reaper] = "reaped" /\ reaper \notin exited /\ reaper \notin Told(events)
    /\ \A c \in exited : process[c] = "reaped"

\* Where Run is says which child it may have started, and whether it may write
\* or wait.
RunKnows ==
    /\ run = "start" => "weston" \notin started
    /\ run \in {"start", "socket", "agent"} => "agent" \notin started
    /\ writing => run \in DOMAIN AfterStatus
    /\ owed # {} => run = "waitStop"
    /\ owed \cap exited = {}

\* The watcher starts when the session was published.
WatcherFollowsPublish ==
    run \in {"start", "abort", "socket", "agent", "publish"} => watcher = "off"

IInv ==
    /\ TypeOK
    /\ StartedIsRecorded
    /\ ToldOnce
    /\ RunKnows
    /\ WatcherFollowsPublish
    /\ NoExitIsLost
    /\ OrphanKeepsSession
    /\ ReadinessHasMarker

-----------------------------------------------------------------------------
LEMMA AppendTold ==
    ASSUME NEW S, NEW s \in Seq(S), NEW x \in S
    PROVE  /\ Append(s, x) \in Seq(S) /\ Len(Append(s, x)) = Len(s) + 1
           /\ Told(Append(s, x)) = Told(s) \cup {x}
           /\ Once(s) /\ x \notin Told(s) => Once(Append(s, x))
  <1>1. /\ Append(s, x) \in Seq(S) /\ Len(Append(s, x)) = Len(s) + 1
        /\ \A i \in 1 .. Len(s) : Append(s, x)[i] = s[i]
        /\ Append(s, x)[Len(s) + 1] = x
    BY AppendProperties
  <1>2. Len(s) \in Nat
    BY LenProperties
  <1> QED
    BY <1>1, <1>2 DEF Told, Once

LEMMA TailTold ==
    ASSUME NEW S, NEW s \in Seq(S), s # <<>>
    PROVE  /\ Head(s) \in S /\ Head(s) \in Told(s)
           /\ Tail(s) \in Seq(S) /\ Len(Tail(s)) = Len(s) - 1 /\ Len(s) \in Nat
           /\ Once(s) => Once(Tail(s)) /\ Told(Tail(s)) = Told(s) \ {Head(s)}
  <1>1. /\ Head(s) \in S /\ Head(s) = s[1] /\ Len(s) \in Nat \ {0}
        /\ Tail(s) \in Seq(S) /\ Len(Tail(s)) = Len(s) - 1
        /\ \A i \in 1 .. Len(Tail(s)) : Tail(s)[i] = s[i + 1]
    BY HeadTailProperties, EmptySeq, LenProperties
  <1>2. Head(s) \in Told(s)
    BY <1>1 DEF Told
  <1>3. ASSUME Once(s) PROVE Once(Tail(s)) /\ Told(Tail(s)) = Told(s) \ {Head(s)}
    <2>1. Once(Tail(s))
      BY <1>1, <1>3 DEF Once
    <2>2. ASSUME NEW x \in Told(Tail(s)) PROVE x \in Told(s) /\ x # Head(s)
      <3>1. PICK i \in 1 .. Len(Tail(s)) : x = Tail(s)[i]
        BY <2>2 DEF Told
      <3>2. i + 1 \in 1 .. Len(s) /\ x = s[i + 1] /\ i + 1 # 1 /\ 1 \in 1 .. Len(s)
        BY <1>1, <3>1
      <3> QED
        BY <1>1, <1>3, <3>2 DEF Told, Once
    <2>3. ASSUME NEW x \in Told(s), x # Head(s) PROVE x \in Told(Tail(s))
      <3>1. PICK i \in 1 .. Len(s) : x = s[i]
        BY <2>3 DEF Told
      <3>2. i # 1 /\ i - 1 \in 1 .. Len(Tail(s)) /\ (i - 1) + 1 = i
        BY <1>1, <2>3, <3>1
      <3>3. Tail(s)[i - 1] = x
        BY <1>1, <3>1, <3>2
      <3> QED
        BY <3>2, <3>3 DEF Told
    <2> QED
      BY <2>1, <2>2, <2>3
  <1> QED
    BY <1>1, <1>2, <1>3

LEMMA DeliveredIsTold == Delivered = Told(events)
  BY DEF Delivered, Told

-----------------------------------------------------------------------------
LEMMA PlacesAreNoProcesses == "running" \notin Processes /\ "returned" \notin Processes
  BY SupervisorAssumption DEF Processes, Children

LEMMA StatusType ==
    ASSUME TypeOK
    PROVE  CurrentStatus \in Status
  BY DEF TypeOK, CurrentStatus, Status, StateOf

LEMMA AfterStatusType ==
    /\ DOMAIN AfterStatus = {"abort", "publish", "report", "final"}
    /\ AfterStatus.abort = "done" /\ AfterStatus.publish = "watching"
    /\ AfterStatus.report = "stopAll" /\ AfterStatus.final = "done"
  BY DEF AfterStatus

LEMMA InitInv == Init => IInv
  <1> SUFFICES ASSUME Init PROVE IInv
    OBVIOUS
  <1> USE DEF Init
  <1>1. Len(events) = 0 /\ events \in Seq(Processes) /\ Told(events) = {} /\ Once(events)
    BY EmptySeq DEF Told, Once
  <1>2. TypeOK
    <2>1. NoStatus \in Status
      BY DEF NoStatus, Status
    <2>2. Len(events) <= EventCap
      BY <1>1, SupervisorAssumption
    <2>3. draft \in [{"run", "watcher"} -> Status] /\ statusFile \in Status
      BY <2>1
    <2> QED
      BY <1>1, <2>2, <2>3 DEF TypeOK
  <1>3. StartedIsRecorded
    BY DEF StartedIsRecorded, Processes
  <1>4. ToldOnce
    <2>1. "running" \notin Processes
      BY PlacesAreNoProcesses
    <2> QED
      BY <1>1, <2>1 DEF ToldOnce
  <1>5. RunKnows /\ WatcherFollowsPublish /\ OrphanKeepsSession
    BY DEF RunKnows, WatcherFollowsPublish, OrphanKeepsSession
  <1>6. NoExitIsLost
    BY DEF NoExitIsLost, Owing, Processes
  <1>7. ReadinessHasMarker
    BY DEF ReadinessHasMarker, NoStatus
  <1> QED
    BY <1>2, <1>3, <1>4, <1>5, <1>6, <1>7 DEF IInv

-----------------------------------------------------------------------------
(***************************************************************************)
(* One lemma per part of the invariant, one step per action.               *)
(***************************************************************************)
LEMMA TypeStep == TypeOK /\ RunKnows /\ Next => TypeOK'
  <1> SUFFICES ASSUME TypeOK, RunKnows, Next PROVE TypeOK'
    OBVIOUS
  <1> USE DEF TypeOK, worldVars, fileVars
  <1>1. CurrentStatus \in Status
    BY StatusType
  <1>2. ASSUME NEW child PROVE StateOf(child) \in {"not_started", "running", "exited"}
    BY DEF StateOf
  <1>3. CASE World
    <2>1. ASSUME NEW p \in Processes, Exits(p) PROVE TypeOK'
      BY <2>1 DEF Exits
    <2>2. ASSUME NEW p \in Processes, OrphanAppears(p) PROVE TypeOK'
      BY <2>2 DEF OrphanAppears
    <2>3. CASE PublishesSocket
      BY <2>3 DEF PublishesSocket
    <2>4. CASE PublishesMarker
      BY <2>4 DEF PublishesMarker
    <2>5. CASE StopRequested
      BY <2>5 DEF StopRequested
    <2> QED
      BY <1>3, <2>1, <2>2, <2>3, <2>4, <2>5 DEF World
  <1>4. CASE Reaper
    <2>1. ASSUME NEW p \in Processes, Reap(p) PROVE TypeOK'
      BY <2>1 DEF Reap
    <2>2. CASE Deliver
      <3>1. events' \in Seq(Processes) /\ Len(events') = Len(events) + 1
        BY <2>2, AppendTold DEF Deliver
      <3>2. Len(events') <= EventCap
        BY <2>2, <3>1, LenProperties, SupervisorAssumption DEF Deliver
      <3> QED
        BY <2>2, <3>1, <3>2 DEF Deliver
    <2>3. CASE ReaperReturns
      BY <2>3 DEF ReaperReturns
    <2> QED
      BY <1>4, <2>1, <2>2, <2>3 DEF Reaper
  <1>5. ASSUME events # <<>>, events' = Tail(events)
        PROVE  Head(events) \in Processes /\ events' \in Seq(Processes) /\ Len(events') <= EventCap
    BY <1>5, TailTold, SupervisorAssumption
  <1>6. ASSUME NEW p, Observe(p) PROVE exited' \subseteq Children
    BY <1>6 DEF Observe
  <1>7. CASE RunStep
    <2>1. CASE StartCompositor
      BY <2>1 DEF StartCompositor, Processes, Children
    <2>2. CASE CompositorFails
      BY <2>2 DEF CompositorFails, Processes, Children
    <2>3. CASE SocketReady
      BY <2>3 DEF SocketReady
    <2>4. CASE SocketFails
      BY <2>4, <1>5, <1>6 DEF SocketFails
    <2>5. CASE SocketSeesOther
      BY <2>5, <1>5, <1>6 DEF SocketSeesOther
    <2>6. CASE StartAgent
      BY <2>6 DEF StartAgent, Processes, Children
    <2>7. CASE AgentFails
      BY <2>7 DEF AgentFails, Processes, Children
    <2>8. CASE RunReadsStatus
      <3>1. draft' \in [{"run", "watcher"} -> Status]
        BY <1>1, <2>8 DEF RunReadsStatus
      <3> QED
        BY <2>8, <3>1 DEF RunReadsStatus
    <2>9. CASE RunWritesStatus
      <3>1. AfterStatus[run] \in {"done", "watching", "stopAll"}
        BY <2>9, AfterStatusType DEF RunWritesStatus, RunKnows
      <3> QED
        BY <2>9, <3>1 DEF RunWritesStatus
    <2>10. CASE RunStops
      BY <2>10 DEF RunStops
    <2>11. CASE RunSeesExit
      BY <2>11, <1>5, <1>6 DEF RunSeesExit
    <2>12. CASE StopChildren
      BY <2>12 DEF StopChildren, OwedExits
    <2>13. CASE StopSeesExit
      BY <2>13, <1>5, <1>6 DEF StopSeesExit
    <2>14. CASE StopDeadline
      BY <2>14 DEF StopDeadline
    <2>15. CASE StopEnds
      BY <2>15 DEF StopEnds
    <2> QED
      BY <1>7, <2>1, <2>2, <2>3, <2>4, <2>5, <2>6, <2>7, <2>8, <2>9, <2>10, <2>11, <2>12,
         <2>13, <2>14, <2>15 DEF RunStep
  <1>8. CASE Watcher
    <2>1. CASE WatcherTick
      BY <2>1 DEF WatcherTick
    <2>2. CASE WatcherReadsReady
      <3>1. draft' \in [{"run", "watcher"} -> Status]
        BY <2>2 DEF WatcherReadsReady, Status
      <3> QED
        BY <2>2, <3>1 DEF WatcherReadsReady
    <2>3. CASE WatcherReadsChildren
      <3>1. draft' \in [{"run", "watcher"} -> Status]
        BY <1>2, <2>3 DEF WatcherReadsChildren, Status
      <3> QED
        BY <2>3, <3>1 DEF WatcherReadsChildren
    <2>4. CASE WatcherWritesStatus
      BY <2>4 DEF WatcherWritesStatus
    <2>5. CASE WatcherReturns
      BY <2>5 DEF WatcherReturns
    <2> QED
      BY <1>8, <2>1, <2>2, <2>3, <2>4, <2>5 DEF Watcher
  <1> QED
    BY <1>3, <1>4, <1>7, <1>8 DEF Next

LEMMA StartedStep == IInv /\ Next => StartedIsRecorded'
  <1> SUFFICES ASSUME IInv, Next PROVE StartedIsRecorded'
    OBVIOUS
  <1> USE DEF IInv, TypeOK, StartedIsRecorded, worldVars, Processes
  <1>1. ASSUME UNCHANGED <<process, started>> PROVE StartedIsRecorded'
    BY <1>1
  <1>2. ASSUME NEW p \in Processes, Exits(p) PROVE StartedIsRecorded'
    BY <1>2 DEF Exits
  <1>3. ASSUME NEW p \in Processes, OrphanAppears(p) PROVE StartedIsRecorded'
    BY <1>3, SupervisorAssumption DEF OrphanAppears, Children
  <1>4. ASSUME NEW p \in Processes, Reap(p) PROVE StartedIsRecorded'
    BY <1>4 DEF Reap
  <1>5. ASSUME StartCompositor PROVE StartedIsRecorded'
    BY <1>5 DEF StartCompositor, Children, RunKnows
  <1>6. ASSUME CompositorFails PROVE StartedIsRecorded'
    BY <1>6 DEF CompositorFails, Children, RunKnows
  <1>7. ASSUME StartAgent PROVE StartedIsRecorded'
    BY <1>7 DEF StartAgent, Children
  <1>8. ASSUME AgentFails PROVE StartedIsRecorded'
    BY <1>8 DEF AgentFails, Children
  <1>9. ASSUME StopDeadline PROVE StartedIsRecorded'
    BY <1>9 DEF StopDeadline
  <1>10. World => UNCHANGED started /\ (UNCHANGED process \/ \E p \in Processes : Exits(p) \/ OrphanAppears(p))
    BY DEF World, PublishesSocket, PublishesMarker, StopRequested, Exits, OrphanAppears
  <1>11. Reaper => UNCHANGED started /\ (UNCHANGED process \/ \E p \in Processes : Reap(p))
    BY DEF Reaper, Deliver, ReaperReturns, Reap
  <1>12. RunStep => UNCHANGED <<process, started>> \/ StartCompositor \/ CompositorFails
                      \/ StartAgent \/ AgentFails \/ StopDeadline
    BY DEF RunStep, SocketReady, SocketFails, SocketSeesOther, RunReadsStatus, RunWritesStatus,
           RunStops, RunSeesExit, StopChildren, StopSeesExit, StopEnds
  <1>13. Watcher => UNCHANGED <<process, started>>
    BY DEF Watcher, WatcherTick, WatcherReadsReady, WatcherReadsChildren, WatcherWritesStatus,
           WatcherReturns
  <1> QED
    BY <1>1, <1>2, <1>3, <1>4, <1>5, <1>6, <1>7, <1>8, <1>9, <1>10, <1>11, <1>12, <1>13 DEF Next

-----------------------------------------------------------------------------
(***************************************************************************)
(* The exits: who reaps them, who queues them, who takes them.             *)
(***************************************************************************)
\* Run takes the oldest exit off the channel and observes it.
Consumes ==
    /\ events # <<>> /\ events' = Tail(events) /\ Observe(Head(events))
    /\ UNCHANGED <<process, started, reaper>>

LEMMA ChannelSteps ==
    Next => \/ \E p \in Processes : Reap(p)
            \/ Deliver \/ ReaperReturns \/ Consumes
            \/ UNCHANGED <<events, exited, reaper>>
  <1> SUFFICES ASSUME Next PROVE \/ \E p \in Processes : Reap(p)
                                 \/ Deliver \/ ReaperReturns \/ Consumes
                                 \/ UNCHANGED <<events, exited, reaper>>
    OBVIOUS
  <1>1. World => UNCHANGED <<events, exited, reaper>>
    BY DEF World, Exits, OrphanAppears, PublishesSocket, PublishesMarker, StopRequested
  <1>2. RunStep => Consumes \/ UNCHANGED <<events, exited, reaper>>
    BY DEF RunStep, StartCompositor, CompositorFails, SocketReady, SocketFails, SocketSeesOther,
           StartAgent, AgentFails, RunReadsStatus, RunWritesStatus, RunStops, RunSeesExit,
           StopChildren, StopSeesExit, StopDeadline, StopEnds, Consumes, worldVars
  <1>3. Watcher => UNCHANGED <<events, exited, reaper>>
    BY DEF Watcher, WatcherTick, WatcherReadsReady, WatcherReadsChildren, WatcherWritesStatus,
           WatcherReturns
  <1> QED
    BY <1>1, <1>2, <1>3 DEF Next, Reaper

\* Only the reaper reaps.
LEMMA ReapedSteps ==
    ASSUME IInv, Next, ~ \E p \in Processes : Reap(p)
    PROVE  \A p \in Processes : process'[p] = "reaped" <=> process[p] = "reaped"
  <1> USE DEF IInv, TypeOK
  <1> DEFINE Kept == \A p \in Processes : process'[p] = "reaped" <=> process[p] = "reaped"
  <1>1. World => Kept
    <2>1. ASSUME NEW p \in Processes, Exits(p) PROVE Kept
      BY <2>1 DEF Exits
    <2>2. ASSUME NEW p \in Processes, OrphanAppears(p) PROVE Kept
      BY <2>2 DEF OrphanAppears
    <2> QED
      BY <2>1, <2>2 DEF World, PublishesSocket, PublishesMarker, StopRequested
  <1>2. Reaper => Kept
    BY DEF Reaper, Deliver, ReaperReturns
  <1>3. RunStep => Kept
    <2>1. ASSUME NEW c \in Children, c \notin started, process' = [process EXCEPT ![c] = "alive"]
          PROVE  Kept
      BY <2>1 DEF StartedIsRecorded, Processes
    <2>2. StartCompositor \/ CompositorFails => Kept
      BY <2>1 DEF StartCompositor, CompositorFails, RunKnows, Children
    <2>3. StartAgent \/ AgentFails => Kept
      BY <2>1 DEF StartAgent, AgentFails, RunKnows, Children
    <2>4. StopDeadline => Kept
      BY DEF StopDeadline
    <2> QED
      BY <2>2, <2>3, <2>4
      DEF RunStep, SocketReady, SocketFails, SocketSeesOther, RunReadsStatus, RunWritesStatus,
          RunStops, RunSeesExit, StopChildren, StopSeesExit, StopEnds, worldVars
  <1>4. Watcher => Kept
    BY DEF Watcher, WatcherTick, WatcherReadsReady, WatcherReadsChildren, WatcherWritesStatus,
           WatcherReturns, worldVars
  <1> QED
    BY <1>1, <1>2, <1>3, <1>4 DEF Next

\* What is consumed is a reaped process; a child among them is observed.
LEMMA ConsumesExit ==
    ASSUME IInv, Consumes
    PROVE  /\ Head(events) \in Processes /\ Head(events) \in Told(events)
           /\ Told(events') = Told(events) \ {Head(events)} /\ Once(events')
           /\ exited' = exited \cup ({Head(events)} \cap Children)
  <1>1. /\ Head(events) \in Processes /\ Head(events) \in Told(events)
        /\ Once(Tail(events)) /\ Told(Tail(events)) = Told(events) \ {Head(events)}
    BY TailTold DEF IInv, TypeOK, Consumes, ToldOnce
  <1>2. process[Head(events)] = "reaped"
    BY <1>1 DEF IInv, ToldOnce
  <1>3. {Head(events)} \cap started = {Head(events)} \cap Children
    BY <1>2 DEF IInv, TypeOK, StartedIsRecorded
  <1> QED
    BY <1>1, <1>3 DEF Consumes, Observe

LEMMA ToldStep == IInv /\ Next => ToldOnce'
  <1> SUFFICES ASSUME IInv, Next PROVE ToldOnce'
    OBVIOUS
  <1>0. Told(events) \subseteq Processes /\ exited \subseteq Processes
    BY DEF IInv, TypeOK, Told, Processes
  <1>1. ASSUME NEW p \in Processes, Reap(p) PROVE ToldOnce'
    <2>1. process[p] = "zombie" /\ process' = [process EXCEPT ![p] = "reaped"] /\ reaper' = p
          /\ UNCHANGED <<events, exited>>
      BY <1>1 DEF Reap
    <2>2. p \notin Told(events) /\ p \notin exited
      BY <2>1 DEF IInv, ToldOnce
    <2> QED
      BY <1>0, <2>1, <2>2 DEF IInv, ToldOnce, TypeOK
  <1>2. ASSUME \A p \in Processes : process'[p] = "reaped" <=> process[p] = "reaped"
        PROVE  ToldOnce'
    <2>1. CASE Deliver
      <3>1. Told(events') = Told(events) \cup {reaper} /\ Once(events')
        BY <2>1, AppendTold DEF Deliver, IInv, TypeOK, ToldOnce
      <3>2. reaper' \notin Processes /\ UNCHANGED exited
        BY <2>1, PlacesAreNoProcesses DEF Deliver
      <3> QED
        BY <1>0, <1>2, <2>1, <3>1, <3>2 DEF Deliver, IInv, ToldOnce
    <2>2. CASE ReaperReturns
      BY <1>0, <1>2, <2>2, PlacesAreNoProcesses DEF ReaperReturns, IInv, ToldOnce
    <2>3. CASE Consumes
      <3>1. /\ Told(events') = Told(events) \ {Head(events)} /\ Once(events')
            /\ Head(events) \in Told(events)
            /\ exited' = exited \cup ({Head(events)} \cap Children)
        BY <2>3, ConsumesExit
      <3>2. reaper' = reaper /\ process' = process
        BY <2>3 DEF Consumes
      <3> QED
        BY <3>1, <3>2 DEF IInv, ToldOnce
    <2>4. CASE UNCHANGED <<events, exited, reaper>>
      BY <1>0, <1>2, <2>4 DEF IInv, ToldOnce
    <2>5. CASE \E p \in Processes : Reap(p)
      BY <1>1, <2>5
    <2> QED
      BY <2>1, <2>2, <2>3, <2>4, <2>5, ChannelSteps
  <1> QED
    BY <1>1, <1>2, ReapedSteps

LEMMA LostStep == IInv /\ Next => NoExitIsLost'
  <1> SUFFICES ASSUME IInv, Next, NEW c \in Children,
                      process'[c] = "reaped", c \notin exited'
               PROVE  c \in Told(events') \cup {reaper'}
    BY DEF NoExitIsLost, Owing, Delivered, Told
  <1>0. c \in Processes
    BY DEF Processes
  <1>1. process[c] = "reaped" /\ c \notin exited => c \in Told(events) \cup {reaper}
    BY <1>0, DeliveredIsTold DEF IInv, NoExitIsLost, Owing
  <1>2. ASSUME NEW p \in Processes, Reap(p) PROVE c \in Told(events') \cup {reaper'}
    <2>1. process[p] = "zombie" /\ process' = [process EXCEPT ![p] = "reaped"] /\ reaper' = p
          /\ UNCHANGED <<events, exited>> /\ reaper \notin Processes
      BY <1>2, PlacesAreNoProcesses DEF Reap
    <2> QED
      BY <1>0, <1>1, <2>1 DEF IInv, TypeOK
  <1>3. CASE ~ \E p \in Processes : Reap(p)
    <2>1. process[c] = "reaped"
      BY <1>0, <1>3, ReapedSteps
    <2>2. CASE Deliver
      <3>1. Told(events') = Told(events) \cup {reaper}
        BY <2>2, AppendTold DEF Deliver, IInv, TypeOK
      <3> QED
        BY <1>1, <2>1, <2>2, <3>1 DEF Deliver
    <2>3. CASE ReaperReturns
      BY <1>0, <1>1, <2>1, <2>3, PlacesAreNoProcesses DEF ReaperReturns
    <2>4. CASE Consumes
      <3>1. c \notin exited /\ c # Head(events)
        BY <2>4, ConsumesExit
      <3> QED
        BY <1>1, <2>1, <2>4, <3>1, ConsumesExit DEF Consumes
    <2>5. CASE UNCHANGED <<events, exited, reaper>>
      BY <1>1, <2>1, <2>5
    <2> QED
      BY <1>3, <2>2, <2>3, <2>4, <2>5, ChannelSteps
  <1> QED
    BY <1>2, <1>3

-----------------------------------------------------------------------------
(***************************************************************************)
(* Run's own variables, and what readiness and the end of a session rest on. *)
(***************************************************************************)
LEMMA OthersLeaveRun ==
    World \/ Reaper \/ Watcher => UNCHANGED <<run, started, exited, owed, writing>>
  <1>1. World => UNCHANGED <<run, started, exited, owed, writing>>
    BY DEF World, Exits, OrphanAppears, PublishesSocket, PublishesMarker, StopRequested, fileVars
  <1>2. Reaper => UNCHANGED <<run, started, exited, owed, writing>>
    BY DEF Reaper, Reap, Deliver, ReaperReturns, fileVars
  <1>3. Watcher => UNCHANGED <<run, started, exited, owed, writing>>
    BY DEF Watcher, WatcherTick, WatcherReadsReady, WatcherReadsChildren, WatcherWritesStatus,
           WatcherReturns, fileVars
  <1> QED
    BY <1>1, <1>2, <1>3

LEMMA RunKnowsStep == IInv /\ Next => RunKnows'
  <1> SUFFICES ASSUME IInv, Next PROVE RunKnows'
    OBVIOUS
  <1> USE AfterStatusType DEF RunKnows, fileVars
  <1>1. RunKnows
    BY DEF IInv
  <1>2. CASE World \/ Reaper \/ Watcher
    BY <1>1, <1>2, OthersLeaveRun
  <1>3. CASE RunStep
    <2>1. CASE StartCompositor
      BY <1>1, <2>1 DEF StartCompositor
    <2>2. CASE CompositorFails
      BY <1>1, <2>2 DEF CompositorFails
    <2>3. CASE SocketReady
      BY <1>1, <2>3 DEF SocketReady
    <2>4. CASE SocketFails
      BY <1>1, <2>4 DEF SocketFails
    <2>5. CASE SocketSeesOther
      BY <1>1, <2>5 DEF SocketSeesOther
    <2>6. CASE StartAgent
      BY <1>1, <2>6 DEF StartAgent
    <2>7. CASE AgentFails
      BY <1>1, <2>7 DEF AgentFails
    <2>8. CASE RunReadsStatus
      BY <1>1, <2>8 DEF RunReadsStatus
    <2>9. CASE RunWritesStatus
      BY <1>1, <2>9 DEF RunWritesStatus
    <2>10. CASE RunStops
      BY <1>1, <2>10 DEF RunStops
    <2>11. CASE RunSeesExit
      BY <1>1, <2>11 DEF RunSeesExit
    <2>12. CASE StopChildren
      BY <1>1, <2>12 DEF StopChildren, OwedExits
    <2>13. CASE StopSeesExit
      BY <1>1, <2>13 DEF StopSeesExit, Observe
    <2>14. CASE StopDeadline
      BY <1>1, <2>14 DEF StopDeadline
    <2>15. CASE StopEnds
      BY <1>1, <2>15 DEF StopEnds
    <2> QED
      BY <1>3, <2>1, <2>2, <2>3, <2>4, <2>5, <2>6, <2>7, <2>8, <2>9, <2>10, <2>11, <2>12,
         <2>13, <2>14, <2>15 DEF RunStep
  <1> QED
    BY <1>2, <1>3 DEF Next

\* The watcher and the end of the session.
LEMMA SessionStep == IInv /\ Next => WatcherFollowsPublish' /\ OrphanKeepsSession'
  <1> SUFFICES ASSUME IInv, Next PROVE WatcherFollowsPublish' /\ OrphanKeepsSession'
    OBVIOUS
  <1> USE AfterStatusType DEF WatcherFollowsPublish, OrphanKeepsSession, fileVars, worldVars
  <1>1. WatcherFollowsPublish /\ OrphanKeepsSession
    BY DEF IInv
  <1>2. CASE World
    <2>1. UNCHANGED watcher /\ (stopping => stopping')
      BY <1>2 DEF World, Exits, OrphanAppears, PublishesSocket, PublishesMarker, StopRequested
    <2> QED
      BY <1>1, <1>2, <2>1, OthersLeaveRun
  <1>3. CASE Reaper
    <2>1. UNCHANGED <<watcher, stopping>>
      BY <1>3 DEF Reaper, Reap, Deliver, ReaperReturns
    <2> QED
      BY <1>1, <1>3, <2>1, OthersLeaveRun
  <1>4. CASE Watcher
    <2>1. watcher # "off" /\ UNCHANGED stopping
      BY <1>4 DEF Watcher, WatcherTick, WatcherReadsReady, WatcherReadsChildren,
                  WatcherWritesStatus, WatcherReturns
    <2> QED
      BY <1>1, <1>4, <2>1, OthersLeaveRun
  <1>5. CASE RunStep
    <2>1. CASE StartCompositor
      BY <1>1, <2>1 DEF StartCompositor
    <2>2. CASE CompositorFails
      BY <1>1, <2>2 DEF CompositorFails
    <2>3. CASE SocketReady
      BY <1>1, <2>3 DEF SocketReady
    <2>4. CASE SocketFails
      BY <1>1, <2>4 DEF SocketFails
    <2>5. CASE SocketSeesOther
      BY <1>1, <2>5 DEF SocketSeesOther
    <2>6. CASE StartAgent
      BY <1>1, <2>6 DEF StartAgent
    <2>7. CASE AgentFails
      BY <1>1, <2>7 DEF AgentFails
    <2>8. CASE RunReadsStatus
      BY <1>1, <2>8 DEF RunReadsStatus
    <2>9. CASE RunWritesStatus
      BY <1>1, <2>9 DEF RunWritesStatus, IInv, RunKnows
    <2>10. CASE RunStops
      BY <1>1, <2>10 DEF RunStops
    <2>11. CASE RunSeesExit
      <3>1. EndsSession(Head(events)) => Head(events) \in exited' \cap started'
        BY <2>11 DEF RunSeesExit, EndsSession, Observe
      <3> QED
        BY <1>1, <2>11, <3>1 DEF RunSeesExit
    <2>12. CASE StopChildren
      BY <1>1, <2>12 DEF StopChildren
    <2>13. CASE StopSeesExit
      BY <1>1, <2>13 DEF StopSeesExit, Observe
    <2>14. CASE StopDeadline
      BY <1>1, <2>14 DEF StopDeadline
    <2>15. CASE StopEnds
      BY <1>1, <2>15 DEF StopEnds
    <2> QED
      BY <1>5, <2>1, <2>2, <2>3, <2>4, <2>5, <2>6, <2>7, <2>8, <2>9, <2>10, <2>11, <2>12,
         <2>13, <2>14, <2>15 DEF RunStep
  <1> QED
    BY <1>2, <1>3, <1>4, <1>5 DEF Next

LEMMA MarkerStep == IInv /\ Next => ReadinessHasMarker'
  <1> SUFFICES ASSUME IInv, Next PROVE ReadinessHasMarker'
    OBVIOUS
  <1>d. DOMAIN draft' = {"run", "watcher"}
    BY TypeStep DEF IInv, TypeOK
  <1> SUFFICES ASSUME ready' \/ statusFile'.ready
                      \/ \E w \in {"run", "watcher"} : draft'[w].ready
               PROVE  marker'
    BY <1>d DEF ReadinessHasMarker
  <1> USE DEF fileVars, worldVars
  <1>0. draft \in [{"run", "watcher"} -> Status] /\ marker \in BOOLEAN
    BY DEF IInv, TypeOK
  <1>1. ready \/ statusFile.ready \/ (\E w \in {"run", "watcher"} : draft[w].ready) => marker
    BY <1>0 DEF IInv, ReadinessHasMarker
  <1>2. UNCHANGED marker \/ marker' = TRUE
    BY DEF Next, World, Exits, OrphanAppears, PublishesSocket, PublishesMarker, StopRequested,
           Reaper, Reap, Deliver, ReaperReturns, RunStep, StartCompositor, CompositorFails,
           SocketReady, SocketFails, SocketSeesOther, StartAgent, AgentFails, RunReadsStatus,
           RunWritesStatus, RunStops, RunSeesExit, StopChildren, StopSeesExit, StopDeadline,
           StopEnds, Watcher, WatcherTick, WatcherReadsReady, WatcherReadsChildren,
           WatcherWritesStatus, WatcherReturns
  <1>3. CASE RunReadsStatus
    <2>1. /\ draft' = [draft EXCEPT !["run"] = CurrentStatus] /\ CurrentStatus.ready = ready
          /\ UNCHANGED <<ready, statusFile>>
      BY <1>3 DEF RunReadsStatus, CurrentStatus
    <2> QED
      BY <1>0, <1>1, <1>2, <2>1
  <1>4. CASE RunWritesStatus
    BY <1>1, <1>2, <1>4 DEF RunWritesStatus
  <1>5. CASE RunSeesExit
    BY <1>1, <1>2, <1>5 DEF RunSeesExit
  <1>6. CASE WatcherTick
    BY <1>2, <1>6 DEF WatcherTick
  <1>7. CASE WatcherReadsReady
    <2>1. /\ draft' = [draft EXCEPT !["watcher"].ready = ready]
          /\ UNCHANGED <<ready, statusFile>>
      BY <1>7 DEF WatcherReadsReady
    <2> QED
      BY <1>0, <1>1, <1>2, <2>1 DEF Status
  <1>8. CASE WatcherReadsChildren
    <2>1. /\ draft'["run"] = draft["run"] /\ draft'["watcher"].ready = draft["watcher"].ready
          /\ UNCHANGED <<ready, statusFile>>
      BY <1>0, <1>8 DEF WatcherReadsChildren, Status
    <2> QED
      BY <1>1, <1>2, <2>1
  <1>9. CASE WatcherWritesStatus
    BY <1>1, <1>2, <1>9 DEF WatcherWritesStatus
  <1>10. CASE UNCHANGED <<ready, statusFile, draft>>
    BY <1>1, <1>2, <1>10
  <1> QED
    BY <1>3, <1>4, <1>5, <1>6, <1>7, <1>8, <1>9, <1>10
    DEF Next, World, Exits, OrphanAppears, PublishesSocket, PublishesMarker, StopRequested,
        Reaper, Reap, Deliver, ReaperReturns, RunStep, StartCompositor, CompositorFails,
        SocketReady, SocketFails, SocketSeesOther, StartAgent, AgentFails, RunStops,
        StopChildren, StopSeesExit, StopDeadline, StopEnds, Watcher, WatcherReturns

-----------------------------------------------------------------------------
LEMMA IInvStep == IInv /\ [Next]_vars => IInv'
  <1> SUFFICES ASSUME IInv, [Next]_vars PROVE IInv'
    OBVIOUS
  <1>1. CASE Next
    <2>1. TypeOK'
      BY <1>1, TypeStep DEF IInv
    <2> QED
      BY <1>1, <2>1, StartedStep, ToldStep, LostStep, RunKnowsStep, SessionStep, MarkerStep
      DEF IInv
  <1>2. CASE UNCHANGED vars
    BY <1>2 DEF vars, IInv, TypeOK, StartedIsRecorded, ToldOnce, RunKnows, WatcherFollowsPublish,
                NoExitIsLost, Owing, Delivered, OrphanKeepsSession, ReadinessHasMarker
  <1> QED
    BY <1>1, <1>2

LEMMA OwedFollows == IInv => OwedCanArrive
  <1> SUFFICES ASSUME IInv, NEW c \in owed
               PROVE  c \notin exited /\ (process[c] = "reaped" => c \in Delivered \cup {reaper})
    BY DEF OwedCanArrive
  <1>1. c \in Children /\ c \in Processes /\ c \notin exited
    BY DEF IInv, TypeOK, RunKnows, Processes
  <1> QED
    BY <1>1 DEF IInv, NoExitIsLost, Owing

\* The inductive invariant holds in every reachable state.
THEOREM Inductive == Spec => []IInv
  BY InitInv, IInvStep, PTL DEF Spec

\* Every variable of the supervisor keeps its type; the exit channel never
\* holds more than its capacity.
THEOREM SupervisorTypeCorrect == Spec => []TypeOK
  <1>1. IInv => TypeOK
    BY DEF IInv
  <1> QED
    BY <1>1, Inductive, PTL

\* reapLoop blocks on a full channel and never drops what it collected: however
\* many orphans die and however small the channel is, the exit of the compositor
\* or the controller reaches the goroutine that acts on it.
THEOREM NoExitLost == Spec => []NoExitIsLost
  <1>1. IInv => NoExitIsLost
    BY DEF IInv
  <1> QED
    BY <1>1, Inductive, PTL

\* Run leaves a session that came up only on a stop request or on the exit of a
\* child it started; an orphan's exit, which wait4 returns too, keeps it running.
THEOREM OrphansKeepSession == Spec => []OrphanKeepsSession
  <1>1. IInv => OrphanKeepsSession
    BY DEF IInv
  <1> QED
    BY <1>1, Inductive, PTL

\* watchReadiness, Run and the status file claim readiness only once the
\* controller's marker exists, though the status is read under the lock and
\* written after it.
THEOREM ReadinessFromMarker == Spec => []ReadinessHasMarker
  <1>1. IInv => ReadinessHasMarker
    BY DEF IInv
  <1> QED
    BY <1>1, Inductive, PTL

\* stopAll never waits for an exit that Run has consumed, and a collected exit
\* it waits for is queued or in the reaper's hand.  It does not say that an exit
\* nobody has collected yet will be: a reaper that has returned collects none.
THEOREM OwedExitsArrive == Spec => []OwedCanArrive
  BY OwedFollows, Inductive, PTL

=============================================================================
