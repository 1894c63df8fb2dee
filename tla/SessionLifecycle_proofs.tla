---------------------- MODULE SessionLifecycle_proofs ----------------------
(***************************************************************************)
(* Proofs about the lifecycle of a session: what its record on disk says   *)
(* of its container, for every number of invocations, containers, engine   *)
(* faults and crashes.                                                      *)
(***************************************************************************)
EXTENDS SessionLifecycle, TLAPS

\* A container that was started stays so, whatever happens to it afterwards.
WasStarted(k) == k \in Containers /\ container[k] \notin {"none", "created"}

\* An identifier no container has, or one whose container is gone for good.
Gone(k) == k = None \/ container[k] = "removed"

\* Where an invocation is says what the record in its memory may claim.
Sane(e) ==
    /\ e.pc \notin {"idle", "create", "close"} => e.record \in Record
    /\ e.pc \in {"save_creating", "engine_create"} =>
          e.record = [state |-> "creating", cid |-> None]
    /\ e.pc = "save_id" => e.record.state = "creating"
    /\ e.pc = "engine_create" => store # NoRecord
    /\ e.pc \in {"wait_load", "wait_ready", "save_ready", "run", "save_running", "exec",
                 "executing", "save_exit"} => WasStarted(e.record.cid)
    /\ Interactive(e.record.state) => WasStarted(e.record.cid)
    /\ e.record.state = "closed" => Gone(e.record.cid)

MemoryIsSane == \A c \in CLIs : Sane(cli[c])

IInv ==
    /\ TypeOK
    /\ MemoryIsSane
    /\ ContainerHasRecord
    /\ UsableWasStarted
    /\ ClosedContainerIsGone

(***************************************************************************)
(* With one invocation at a time, and none that crashed: the record on disk *)
(* names the container the invocation works on.                             *)
(***************************************************************************)
Knows(e) ==
    /\ e.pc \notin {"idle", "create", "close", "save_creating", "save_id"} =>
          e.record.cid = store.cid
    /\ e.pc = "save_creating" => Existing = {}
    /\ e.pc = "save_id" => store.cid = None

SoleInv ==
    /\ IInv
    /\ crashes = 0 => EveryContainerIsNamed /\ \A c \in CLIs : Knows(cli[c])

-----------------------------------------------------------------------------
(***************************************************************************)
(* What the operators do to one invocation.                                *)
(***************************************************************************)
Entry == [pc : Places, goal : Goals, record : Record \cup {NoRecord},
          probe : Containers \cup {None}]

LEMMA RecordFacts ==
    /\ NoRecord \notin Record /\ NoRecord.state = "none" /\ NoRecord.cid = None
    /\ \A record \in Record \cup {NoRecord}, state \in States :
          /\ As(record, state) \in Record
          /\ As(record, state).state = state /\ As(record, state).cid = record.cid
  <1>1. "none" \notin States
    BY DEF States
  <1> QED
    BY <1>1 DEF Record, NoRecord, As

\* Any record whose state is one of a session's was read from a session's file.
LEMMA RealRecord ==
    ASSUME NEW record \in Record \cup {NoRecord}, record.state # "none"
    PROVE  record \in Record
  BY DEF NoRecord

LEMMA GoesTo ==
    ASSUME TypeOK, NEW c \in CLIs, NEW place \in Places, NEW record \in Record \cup {NoRecord},
           Goes(c, place, record)
    PROVE  /\ cli' \in [CLIs -> Entry]
           /\ cli'[c].pc = place /\ cli'[c].record = record
           /\ cli'[c].goal = cli[c].goal
           /\ \A d \in CLIs : d # c => cli'[d] = cli[d]
  BY DEF TypeOK, Goes, Entry

LEMMA MovesTo ==
    ASSUME TypeOK, NEW c \in CLIs, NEW place \in Places, Moves(c, place)
    PROVE  Goes(c, place, cli[c].record) /\ cli[c].record \in Record \cup {NoRecord}
  BY DEF TypeOK, Moves

LEMMA BeginsAt ==
    ASSUME TypeOK, NEW c \in CLIs, NEW goal \in Goals, NEW place \in Places,
           NEW record \in Record \cup {NoRecord}, Begin(c, goal, place, record)
    PROVE  /\ cli' \in [CLIs -> Entry]
           /\ cli'[c].pc = place /\ cli'[c].record = record
           /\ \A d \in CLIs : d # c => cli'[d] = cli[d]
  BY DEF TypeOK, Begin, Entry

LEMMA EndsIdle ==
    ASSUME TypeOK, NEW c \in CLIs, Ends(c)
    PROVE  /\ cli' \in [CLIs -> Entry]
           /\ cli'[c].pc = "idle" /\ cli'[c].record = NoRecord
           /\ \A d \in CLIs : d # c => cli'[d] = cli[d]
  <1>1. Idle \in Entry
    BY DEF Idle, Entry, Places, Goals
  <1> QED
    BY <1>1 DEF TypeOK, Ends, Entry, Idle

LEMMA SanityOfIdle ==
    ASSUME NEW c, cli[c].pc \in {"idle", "create", "close"}, cli[c].record = NoRecord
    PROVE  Sane(cli[c])
  BY RecordFacts DEF Sane, Interactive

LEMMA InitInv == Init => IInv
  <1> SUFFICES ASSUME Init PROVE IInv
    OBVIOUS
  <1> USE DEF Init
  <1>1. Idle \in Entry
    BY DEF Idle, Entry, Places, Goals
  <1>2. TypeOK
    BY <1>1, LifecycleAssumption DEF TypeOK, Entry
  <1>3. MemoryIsSane
    BY SanityOfIdle DEF MemoryIsSane, Idle
  <1>4. ContainerHasRecord
    BY DEF ContainerHasRecord, Existing
  <1>5. UsableWasStarted /\ ClosedContainerIsGone
    BY RecordFacts DEF UsableWasStarted, ClosedContainerIsGone, Interactive
  <1> QED
    BY <1>2, <1>3, <1>4, <1>5 DEF IInv

-----------------------------------------------------------------------------
(***************************************************************************)
(* What lasts: a started container was started, a removed one is gone, a   *)
(* session that has a record keeps having one.                             *)
(***************************************************************************)
Lasts ==
    /\ \A k : WasStarted(k) => WasStarted(k)'
    /\ \A k : Gone(k) => Gone(k)'
    /\ store # NoRecord => store' # NoRecord

LEMMA SanityLasts ==
    ASSUME Lasts, NEW d, Sane(cli[d]), cli'[d] = cli[d]
    PROVE  Sane(cli[d])'
  BY DEF Lasts, Sane

LEMMA CidType ==
    ASSUME TypeOK, NEW c \in CLIs
    PROVE  cli[c].record.cid \in Containers \cup {None}
  BY DEF TypeOK, Record, NoRecord

LEMMA LastsStep == IInv /\ Next => Lasts
  <1> SUFFICES ASSUME IInv, Next PROVE Lasts
    OBVIOUS
  <1> USE DEF Lasts, WasStarted, Gone
  <1>0. container \in [Containers -> {"none", "created", "running", "stopped", "removed"}]
        /\ None \notin Containers
    BY LifecycleAssumption DEF IInv, TypeOK
  <1>1. CASE UNCHANGED <<store, container>>
    BY <1>1
  <1>2. ASSUME NEW c \in CLIs, Save(c) PROVE Lasts
    <2>1. cli[c].record # NoRecord
      BY <1>2, RecordFacts DEF Save, Saves, IInv, MemoryIsSane, Sane
    <2> QED
      BY <1>2, <2>1 DEF Save
  <1>3. ASSUME NEW c \in CLIs, EngineCreates(c) PROVE Lasts
    BY <1>0, <1>3 DEF EngineCreates
  <1>4. ASSUME NEW c \in CLIs, EngineStarts(c) PROVE Lasts
    BY <1>0, <1>4 DEF EngineStarts, Existing
  <1>5. ASSUME NEW c \in CLIs, StopReturns(c) PROVE Lasts
    <2>1. cli[c].record.cid \in Containers
      BY <1>5, CidType DEF StopReturns, IInv
    <2>2. UNCHANGED store
      BY <1>5 DEF StopReturns
    <2>3. CASE UNCHANGED container
      BY <2>2, <2>3
    <2>4. CASE /\ container[cli[c].record.cid] = "running"
               /\ container' = [container EXCEPT ![cli[c].record.cid] = "stopped"]
      BY <1>0, <2>1, <2>2, <2>4
    <2> QED
      BY <1>5, <2>3, <2>4 DEF StopReturns, Running
  <1>6. ASSUME NEW c \in CLIs, RemoveReturns(c) PROVE Lasts
    <2>1. UNCHANGED store
      BY <1>6 DEF RemoveReturns
    <2>2. CASE UNCHANGED container
      BY <2>1, <2>2
    <2>3. CASE container' = [container EXCEPT ![cli[c].record.cid] = "removed"]
      BY <1>0, <2>1, <2>3
    <2> QED
      BY <1>6, <2>2, <2>3 DEF RemoveReturns
  <1>7. ASSUME NEW k \in Containers, ContainerDies(k) PROVE Lasts
    BY <1>0, <1>7 DEF ContainerDies
  <1>8. ASSUME NEW c \in CLIs, Step(c)
        PROVE  \/ Save(c) \/ EngineCreates(c) \/ EngineStarts(c) \/ StopReturns(c)
               \/ RemoveReturns(c) \/ UNCHANGED <<store, container>>
    BY <1>8 DEF Step, CreateLoads, EngineRefusesCreate, StartLoads, EngineRefusesStart, WaitLoads,
                ProbeIsReady, ProbeGivesUp, RunBegins, ExecStarts, ExecReturns, StreamReturns,
                CloseLoads, CloseWithoutContainer, Observes
  <1>9. ASSUME NEW c \in CLIs, Invoke(c) \/ AppExits(c) \/ Crash(c)
        PROVE  UNCHANGED <<store, container>>
    BY <1>9 DEF Invoke, BeginCreate, RunLoads, InjectLoads, BeginClose, InspectLoads, AppExits,
                Crash
  <1> QED
    BY <1>1, <1>2, <1>3, <1>4, <1>5, <1>6, <1>7, <1>8, <1>9 DEF Next

-----------------------------------------------------------------------------
(***************************************************************************)
(* One invocation acts: it keeps its memory sane and touches no other.     *)
(***************************************************************************)
Acts(c) ==
    /\ cli' \in [CLIs -> Entry]
    /\ Sane(cli[c])'
    /\ \A d \in CLIs : d # c => cli'[d] = cli[d]

LEMMA ActsIdle ==
    ASSUME TypeOK, NEW c \in CLIs, Ends(c)
    PROVE  Acts(c)
  <1>1. Sane(cli[c])'
    BY EndsIdle, RecordFacts DEF Sane, Interactive
  <1> QED
    BY <1>1, EndsIdle DEF Acts

LEMMA ActsSave ==
    ASSUME IInv, Lasts, NEW c \in CLIs, Save(c)
    PROVE  Acts(c)
  <1>1. cli[c].pc \in Saves /\ store' = cli[c].record /\ Sane(cli[c])
    BY DEF Save, IInv, MemoryIsSane
  <1>2. cli[c].record \in Record
    BY <1>1 DEF Saves, Sane
  <1> DEFINE next == AfterSave(c)[cli[c].pc]
  <1>3. CASE next = "idle"
    BY <1>3, ActsIdle DEF Save, IInv
  <1>4. CASE next # "idle"
    <2>1. Moves(c, next)
      BY <1>4 DEF Save
    <2>2. /\ next \in {"engine_create", "start", "run", "close", "exec", "stop"}
          /\ next = "engine_create" => cli[c].pc = "save_creating"
          /\ next = "run" => cli[c].pc = "save_ready"
          /\ next = "exec" => cli[c].pc = "save_running"
      BY <1>1, <1>4 DEF AfterSave, Saves, Bail
    <2>3. next \in Places
      BY <2>2 DEF Places
    <2>4. /\ cli' \in [CLIs -> Entry]
          /\ cli'[c].pc = next /\ cli'[c].record = cli[c].record
          /\ \A d \in CLIs : d # c => cli'[d] = cli[d]
      BY <2>1, <2>3, GoesTo, MovesTo DEF IInv
    <2>5. Sane(cli[c])'
      BY <1>1, <1>2, <2>2, <2>4, RecordFacts DEF Sane, Lasts
    <2> QED
      BY <2>4, <2>5 DEF Acts
  <1> QED
    BY <1>3, <1>4

\* An invocation that goes on from one place to another.
LEMMA ActsGoing ==
    ASSUME IInv, Lasts, NEW c \in CLIs, NEW place \in Places,
           NEW record \in Record \cup {NoRecord}, Goes(c, place, record),
           place \notin {"save_creating", "engine_create", "save_id"},
           place \notin {"idle", "create", "close"} => record \in Record,
           place \in {"wait_load", "wait_ready", "save_ready", "run", "save_running", "exec",
                      "executing", "save_exit"} \/ Interactive(record.state)
              => WasStarted(record.cid)',
           record.state = "closed" => Gone(record.cid)'
    PROVE  Acts(c)
  <1>1. /\ cli' \in [CLIs -> Entry]
        /\ cli'[c].pc = place /\ cli'[c].record = record
        /\ \A d \in CLIs : d # c => cli'[d] = cli[d]
    BY GoesTo DEF IInv
  <1>2. Sane(cli[c])'
    BY <1>1 DEF Sane
  <1> QED
    BY <1>1, <1>2 DEF Acts

\* The same for an invocation that begins.
LEMMA ActsBeginning ==
    ASSUME IInv, Lasts, NEW c \in CLIs, NEW goal \in Goals, NEW place \in Places,
           NEW record \in Record \cup {NoRecord}, Begin(c, goal, place, record),
           \/ place \in {"create", "close"} /\ record = NoRecord
           \/ place \in {"stream", "observe", "run"} /\ record = store /\ store # NoRecord,
           place = "run" => Interactive(store.state)
    PROVE  Acts(c)
  <1>1. /\ cli' \in [CLIs -> Entry]
        /\ cli'[c].pc = place /\ cli'[c].record = record
        /\ \A d \in CLIs : d # c => cli'[d] = cli[d]
    BY BeginsAt DEF IInv
  <1>2. CASE record = NoRecord
    BY <1>1, <1>2, RecordFacts DEF Sane, Interactive, Acts
  <1>3. CASE record = store /\ store # NoRecord /\ place \in {"stream", "observe", "run"}
    <2>1. Interactive(store.state) => WasStarted(store.cid)
      BY <1>3 DEF IInv, UsableWasStarted, WasStarted, TypeOK, Record
    <2>2. store.state = "closed" => Gone(store.cid)
      BY <1>3 DEF IInv, ClosedContainerIsGone, Gone
    <2>3. Sane(cli[c])'
      BY <1>1, <1>3, <2>1, <2>2 DEF Sane, Lasts
    <2> QED
      BY <1>1, <2>3 DEF Acts
  <1> QED
    BY <1>2, <1>3

LEMMA StepActs ==
    ASSUME IInv, Lasts, NEW c \in CLIs, Step(c)
    PROVE  Acts(c)
  <1>r. PICK r : r = cli[c].record
    OBVIOUS
  <1>0. /\ r = cli[c].record /\ r \in Record \cup {NoRecord} /\ Sane(cli[c]) /\ TypeOK
        /\ r.cid \in Containers \cup {None}
    BY <1>r, CidType DEF IInv, TypeOK, MemoryIsSane
  <1>1. CASE Save(c)
    BY <1>1, ActsSave
  <1>2. CASE CreateLoads(c)
    <2>1. CASE Ends(c)
      BY <1>0, <2>1, ActsIdle
    <2>2. CASE Goes(c, "save_creating", [state |-> "creating", cid |-> None])
      <3>1. [state |-> "creating", cid |-> None] \in Record
        BY DEF Record, States
      <3>2. /\ cli' \in [CLIs -> Entry] /\ cli'[c].pc = "save_creating"
            /\ cli'[c].record = [state |-> "creating", cid |-> None]
            /\ \A d \in CLIs : d # c => cli'[d] = cli[d]
        BY <1>0, <2>2, <3>1, GoesTo DEF Places, Saves
      <3>3. Sane(cli[c])'
        BY <3>1, <3>2 DEF Sane, Interactive
      <3> QED
        BY <3>2, <3>3 DEF Acts
    <2> QED
      BY <1>2, <2>1, <2>2 DEF CreateLoads
  <1>3. CASE EngineCreates(c)
    <2>1. PICK k \in Containers : Goes(c, "save_id", [r EXCEPT !.cid = k])
      BY <1>0, <1>3 DEF EngineCreates
    <2>2. r = [state |-> "creating", cid |-> None]
      BY <1>0, <1>3 DEF EngineCreates, At, Sane
    <2>3. [r EXCEPT !.cid = k] = [state |-> "creating", cid |-> k]
      BY <2>2
    <2>4. [state |-> "creating", cid |-> k] \in Record
      BY DEF Record, States
    <2>5. /\ cli' \in [CLIs -> Entry] /\ cli'[c].pc = "save_id"
          /\ cli'[c].record = [state |-> "creating", cid |-> k]
          /\ \A d \in CLIs : d # c => cli'[d] = cli[d]
      BY <1>0, <2>1, <2>3, <2>4, GoesTo DEF Places, Saves
    <2>6. Sane(cli[c])'
      BY <2>4, <2>5 DEF Sane, Interactive
    <2> QED
      BY <2>5, <2>6 DEF Acts
  <1>4. ASSUME NEW place \in {"save_failed", "save_last"}, Goes(c, place, As(r, "failed"))
        PROVE  Acts(c)
    BY <1>0, <1>4, RecordFacts, ActsGoing DEF Places, Saves, States, Interactive
  <1>5. CASE EngineRefusesCreate(c) \/ EngineRefusesStart(c) \/ ProbeGivesUp(c)
    BY <1>0, <1>4, <1>5 DEF EngineRefusesCreate, EngineRefusesStart, ProbeGivesUp
  <1>6. ASSUME NEW place \in Places, Moves(c, place),
               place \in {"close", "wait_load", "executing", "save_last", "remove",
                          "remove_failing"},
               place # "close" => r \in Record,
               place \in {"wait_load", "executing"} => WasStarted(r.cid)'
        PROVE  Acts(c)
    <2>1. Goes(c, place, r)
      BY <1>0, <1>6, MovesTo
    <2>2. /\ Interactive(r.state) => WasStarted(r.cid)'
          /\ r.state = "closed" => Gone(r.cid)'
      BY <1>0 DEF Sane, Lasts
    <2> QED
      BY <1>0, <1>6, <2>1, <2>2, ActsGoing
  <1>7. CASE StartLoads(c)
    <2>1. CASE Ends(c)
      BY <1>0, <2>1, ActsIdle
    <2>2. CASE store.state = "creating" /\ Goes(c, "engine_start", store)
      <3>1. store \in Record
        BY <1>0, <2>2, RealRecord DEF TypeOK
      <3> QED
        BY <2>2, <3>1, ActsGoing DEF Places, Interactive
    <2>3. CASE Moves(c, "close")
      BY <1>6, <2>3 DEF Places
    <2> QED
      BY <1>7, <2>1, <2>2, <2>3 DEF StartLoads
  <1>8. CASE EngineStarts(c)
    <2>1. At(c, "engine_start") /\ r.cid \in Existing /\ Moves(c, "wait_load")
          /\ container' = [container EXCEPT ![r.cid] = "running"]
      BY <1>0, <1>8 DEF EngineStarts
    <2>2. WasStarted(r.cid)'
      BY <1>0, <2>1 DEF WasStarted, Existing, TypeOK
    <2>3. r \in Record
      BY <1>0, <2>1 DEF Sane, At
    <2> QED
      BY <1>6, <2>1, <2>2, <2>3 DEF Places
  <1>9. CASE WaitLoads(c)
    <2>1. /\ At(c, "wait_load")
          /\ cli' = [cli EXCEPT ![c].pc = "wait_ready", ![c].probe = store.cid]
      BY <1>9 DEF WaitLoads
    <2>2. store.cid \in Containers \cup {None}
      BY <1>0 DEF TypeOK, Record, NoRecord
    <2>3. /\ cli' \in [CLIs -> Entry]
          /\ cli'[c].pc = "wait_ready" /\ cli'[c].record = cli[c].record
          /\ \A d \in CLIs : d # c => cli'[d] = cli[d]
      BY <1>0, <2>1, <2>2 DEF TypeOK, Entry, Places
    <2>4. Sane(cli[c])'
      BY <1>0, <2>1, <2>3 DEF Sane, Lasts, At
    <2> QED
      BY <2>3, <2>4 DEF Acts
  <1>10. ASSUME NEW place \in {"save_ready", "save_running", "save_exit"},
                NEW state \in {"ready", "running"}, Goes(c, place, As(r, state)),
                cli[c].pc \in {"wait_ready", "run", "exec", "executing"}
         PROVE  Acts(c)
    <2>1. WasStarted(r.cid)'
      BY <1>0, <1>10 DEF Sane, Lasts
    <2> QED
      BY <1>0, <1>10, <2>1, RecordFacts, ActsGoing DEF Places, Saves, States
  <1>11. CASE ProbeIsReady(c) \/ RunBegins(c) \/ ExecReturns(c)
    BY <1>0, <1>10, <1>11 DEF ProbeIsReady, RunBegins, ExecReturns, At
  <1>12. CASE ExecStarts(c)
    BY <1>0, <1>6, <1>12 DEF ExecStarts, At, Sane, Lasts, Places
  <1>13. CASE StreamReturns(c)
    BY <1>0, <1>6, <1>13, ActsIdle DEF StreamReturns, At, Sane, Places, Saves
  <1>14. CASE CloseLoads(c)
    <2>1. CASE Ends(c)
      BY <1>0, <2>1, ActsIdle
    <2>2. CASE store.state = "closing" /\ Goes(c, "stop", store)
      <3>1. store \in Record
        BY <1>0, <2>2, RealRecord DEF TypeOK
      <3> QED
        BY <2>2, <3>1, ActsGoing DEF Places, Interactive
    <2>3. CASE Goes(c, "save_closing", As(store, "closing"))
      BY <1>0, <2>3, RecordFacts, ActsGoing DEF Places, Saves, States, Interactive, TypeOK
    <2> QED
      BY <1>14, <2>1, <2>2, <2>3 DEF CloseLoads
  <1>15. CASE CloseWithoutContainer(c)
    <2>1. r.cid = None /\ Goes(c, "save_last", As(r, "closed"))
      BY <1>0, <1>15 DEF CloseWithoutContainer
    <2> QED
      BY <1>0, <2>1, RecordFacts, ActsGoing DEF Places, Saves, States, Interactive, Gone
  <1>16. CASE StopReturns(c)
    BY <1>0, <1>6, <1>16 DEF StopReturns, At, Sane, Places
  <1>17. CASE RemoveReturns(c)
    <2>1. CASE Goes(c, "save_last", As(r, "failed"))
      BY <1>4, <2>1
    <2>2. CASE /\ container' = [container EXCEPT ![r.cid] = "removed"]
               /\ Goes(c, "save_last", As(r, "closed"))
      <3>1. Gone(r.cid)'
        BY <1>0, <2>2 DEF Gone, TypeOK
      <3> QED
        BY <1>0, <2>2, <3>1, RecordFacts, ActsGoing DEF Places, Saves, States, Interactive
    <2> QED
      BY <1>0, <1>17, <2>1, <2>2 DEF RemoveReturns, CloseOutcome
  <1>18. CASE Observes(c)
    <2>1. CASE Ends(c)
      BY <1>0, <2>1, ActsIdle
    <2>2. CASE Goes(c, "save_last", Reconcile(r)) /\ Reconcile(r) # r
      <3>1. Reconcile(r) = As(r, "failed")
        BY <2>2 DEF Reconcile, Fail
      <3> QED
        BY <1>4, <2>2, <3>1
    <2> QED
      BY <1>0, <1>18, <2>1, <2>2 DEF Observes
  <1> QED
    BY <1>1, <1>2, <1>3, <1>5, <1>7, <1>8, <1>9, <1>11, <1>12, <1>13, <1>14, <1>15, <1>16, <1>17,
       <1>18 DEF Step

LEMMA InvokeActs ==
    ASSUME IInv, Lasts, NEW c \in CLIs, Invoke(c) \/ Crash(c)
    PROVE  Acts(c)
  <1>0. /\ TypeOK /\ store \in Record \cup {NoRecord} /\ NoRecord \in Record \cup {NoRecord}
        /\ "create" \in Places /\ "close" \in Places
    BY DEF IInv, TypeOK, Places
  <1>1. Interactive(store.state) => store # NoRecord
    BY RecordFacts DEF Interactive
  <1>2. CASE BeginCreate(c)
    BY <1>0, <1>2, ActsBeginning DEF BeginCreate, Goals, Places
  <1>3. CASE RunLoads(c)
    <2>1. PICK goal \in {"run", "ephemeral"} :
             \/ store = NoRecord /\ Begin(c, goal, "create", NoRecord)
             \/ store.state = "ready" /\ Begin(c, goal, "run", store)
      BY <1>3 DEF RunLoads
    <2>2. goal \in Goals /\ "create" \in Places /\ "run" \in Places
      BY DEF Goals, Places
    <2>3. CASE Begin(c, goal, "create", NoRecord)
      BY <2>2, <2>3, ActsBeginning
    <2>4. CASE store.state = "ready" /\ Begin(c, goal, "run", store)
      BY <1>0, <1>1, <2>2, <2>4, ActsBeginning DEF Interactive
    <2> QED
      BY <2>1, <2>3, <2>4
  <1>4. CASE InjectLoads(c)
    BY <1>0, <1>1, <1>4, ActsBeginning DEF InjectLoads, Goals, Places
  <1>5. CASE BeginClose(c)
    BY <1>0, <1>5, ActsBeginning DEF BeginClose, Goals, Places
  <1>6. CASE InspectLoads(c)
    BY <1>0, <1>6, ActsBeginning DEF InspectLoads, Goals, Places
  <1>7. CASE Crash(c)
    BY <1>0, <1>7, ActsIdle DEF Crash
  <1> QED
    BY <1>2, <1>3, <1>4, <1>5, <1>6, <1>7 DEF Invoke

LEMMA MemoryStep ==
    ASSUME IInv, Next
    PROVE  cli' \in [CLIs -> Entry] /\ MemoryIsSane'
  <1>1. Lasts
    BY LastsStep
  <1>2. ASSUME NEW c \in CLIs, Acts(c) PROVE cli' \in [CLIs -> Entry] /\ MemoryIsSane'
    BY <1>1, <1>2, SanityLasts DEF Acts, IInv, MemoryIsSane
  <1>3. ASSUME UNCHANGED cli PROVE cli' \in [CLIs -> Entry] /\ MemoryIsSane'
    BY <1>1, <1>3, SanityLasts DEF IInv, MemoryIsSane, TypeOK, Entry
  <1>4. ASSUME NEW c \in CLIs, AppExits(c) PROVE UNCHANGED cli
    BY <1>4 DEF AppExits
  <1>5. ASSUME NEW k \in Containers, ContainerDies(k) PROVE UNCHANGED cli
    BY <1>5 DEF ContainerDies
  <1> QED
    BY <1>1, <1>2, <1>3, <1>4, <1>5, StepActs, InvokeActs DEF Next

-----------------------------------------------------------------------------
(***************************************************************************)
(* The record on disk.                                                     *)
(***************************************************************************)
LEMMA OnlySaveWrites == Next => UNCHANGED store \/ \E c \in CLIs : Save(c)
  <1>1. ASSUME NEW c \in CLIs, Step(c) PROVE Save(c) \/ UNCHANGED store
    BY <1>1 DEF Step, CreateLoads, EngineCreates, EngineRefusesCreate, StartLoads, EngineStarts,
                EngineRefusesStart, WaitLoads, ProbeIsReady, ProbeGivesUp, RunBegins, ExecStarts,
                ExecReturns, StreamReturns, CloseLoads, CloseWithoutContainer, StopReturns,
                RemoveReturns, Observes
  <1>2. ASSUME NEW c \in CLIs, Invoke(c) \/ AppExits(c) \/ Crash(c) PROVE UNCHANGED store
    BY <1>2 DEF Invoke, BeginCreate, RunLoads, InjectLoads, BeginClose, InspectLoads, AppExits,
                Crash
  <1>3. ASSUME NEW k \in Containers, ContainerDies(k) PROVE UNCHANGED store
    BY <1>3 DEF ContainerDies
  <1> QED
    BY <1>1, <1>2, <1>3 DEF Next

LEMMA OnlyCreateAdds ==
    ASSUME IInv, Next, ~ \E c \in CLIs : EngineCreates(c)
    PROVE  Existing' \subseteq Existing
  <1> USE DEF Existing
  <1>0. container \in [Containers -> {"none", "created", "running", "stopped", "removed"}]
    BY DEF IInv, TypeOK
  <1>1. CASE UNCHANGED container
    BY <1>1
  <1>2. ASSUME NEW c \in CLIs, EngineStarts(c) PROVE Existing' \subseteq Existing
    BY <1>0, <1>2 DEF EngineStarts
  <1>3. ASSUME NEW c \in CLIs, StopReturns(c) PROVE Existing' \subseteq Existing
    <2>1. CASE UNCHANGED container
      BY <2>1
    <2>2. CASE /\ container[cli[c].record.cid] = "running" /\ cli[c].record.cid \in Containers
               /\ container' = [container EXCEPT ![cli[c].record.cid] = "stopped"]
      BY <1>0, <2>2
    <2> QED
      BY <1>3, <2>1, <2>2, CidType DEF StopReturns, Running, IInv
  <1>4. ASSUME NEW c \in CLIs, RemoveReturns(c) PROVE Existing' \subseteq Existing
    <2>1. CASE UNCHANGED container
      BY <2>1
    <2>2. CASE container' = [container EXCEPT ![cli[c].record.cid] = "removed"]
      BY <1>0, <2>2
    <2> QED
      BY <1>4, <2>1, <2>2 DEF RemoveReturns
  <1>5. ASSUME NEW k \in Containers, ContainerDies(k) PROVE Existing' \subseteq Existing
    BY <1>0, <1>5 DEF ContainerDies
  <1>6. ASSUME NEW c \in CLIs, Step(c)
        PROVE  \/ EngineCreates(c) \/ EngineStarts(c) \/ StopReturns(c)
               \/ RemoveReturns(c) \/ UNCHANGED container
    BY <1>6 DEF Step, Save, CreateLoads, EngineRefusesCreate, StartLoads, EngineRefusesStart,
                WaitLoads, ProbeIsReady, ProbeGivesUp, RunBegins, ExecStarts, ExecReturns,
                StreamReturns, CloseLoads, CloseWithoutContainer, Observes
  <1>7. ASSUME NEW c \in CLIs, Invoke(c) \/ AppExits(c) \/ Crash(c) PROVE UNCHANGED container
    BY <1>7 DEF Invoke, BeginCreate, RunLoads, InjectLoads, BeginClose, InspectLoads, AppExits,
                Crash
  <1> QED
    BY <1>1, <1>2, <1>3, <1>4, <1>5, <1>6, <1>7 DEF Next

LEMMA TypeStep == IInv /\ Next => TypeOK'
  <1> SUFFICES ASSUME IInv, Next PROVE TypeOK'
    OBVIOUS
  <1> USE DEF TypeOK
  <1>1. cli' \in [CLIs -> Entry]
    BY MemoryStep
  <1>2. TypeOK
    BY DEF IInv
  <1>3. store' \in Record \cup {NoRecord}
    BY <1>2, OnlySaveWrites DEF Save
  <1>4. ASSUME NEW c \in CLIs, Step(c) \/ Invoke(c) \/ AppExits(c) \/ Crash(c)
        PROVE  /\ container' \in [Containers -> {"none", "created", "running", "stopped", "removed"}]
               /\ apps' \subseteq CLIs
               /\ refusals' \in 0 .. MaxRefusals /\ crashes' \in 0 .. MaxCrashes
    <2>1. ASSUME Step(c)
          PROVE container' \in [Containers -> {"none", "created", "running", "stopped", "removed"}]
      BY <1>2, <2>1 DEF Step, Save, CreateLoads, EngineCreates, EngineRefusesCreate, StartLoads,
           EngineStarts, EngineRefusesStart, WaitLoads, ProbeIsReady, ProbeGivesUp, RunBegins,
           ExecStarts, ExecReturns, StreamReturns, CloseLoads, CloseWithoutContainer, StopReturns,
           RemoveReturns, Observes
    <2>2. ASSUME Step(c) PROVE apps' \subseteq CLIs /\ UNCHANGED crashes
      BY <1>2, <2>2 DEF Step, Save, CreateLoads, EngineCreates, EngineRefusesCreate, StartLoads,
           EngineStarts, EngineRefusesStart, WaitLoads, ProbeIsReady, ProbeGivesUp, RunBegins,
           ExecStarts, ExecReturns, StreamReturns, CloseLoads, CloseWithoutContainer, StopReturns,
           RemoveReturns, Observes
    <2>3. ASSUME Step(c) PROVE Unrefused \/ EngineFails
      BY <2>3 DEF Step, Save, CreateLoads, EngineCreates, EngineRefusesCreate, StartLoads,
           EngineStarts, EngineRefusesStart, WaitLoads, ProbeIsReady, ProbeGivesUp, RunBegins,
           ExecStarts, ExecReturns, StreamReturns, CloseLoads, CloseWithoutContainer, StopReturns,
           RemoveReturns, Observes, Unrefused
    <2>4. Unrefused \/ EngineFails => refusals' \in 0 .. MaxRefusals
      BY <1>2, LifecycleAssumption DEF Unrefused, EngineFails
    <2>5. CASE Invoke(c) \/ AppExits(c)
      BY <1>2, <2>5 DEF Invoke, BeginCreate, RunLoads, InjectLoads, BeginClose, InspectLoads,
                        AppExits
    <2>6. CASE Crash(c)
      BY <1>2, <2>6, LifecycleAssumption DEF Crash
    <2> QED
      BY <1>2, <1>4, <2>1, <2>2, <2>3, <2>4, <2>5, <2>6
  <1>5. ASSUME NEW k \in Containers, ContainerDies(k)
        PROVE  /\ container' \in [Containers -> {"none", "created", "running", "stopped", "removed"}]
               /\ apps' \subseteq CLIs
               /\ refusals' \in 0 .. MaxRefusals /\ crashes' \in 0 .. MaxCrashes
    BY <1>2, <1>5, LifecycleAssumption DEF ContainerDies, EngineFails
  <1> QED
    BY <1>1, <1>3, <1>4, <1>5 DEF Next, Entry

LEMMA StoreStep ==
    IInv /\ Next => ContainerHasRecord' /\ UsableWasStarted' /\ ClosedContainerIsGone'
  <1> SUFFICES ASSUME IInv, Next
               PROVE  ContainerHasRecord' /\ UsableWasStarted' /\ ClosedContainerIsGone'
    OBVIOUS
  <1>0. Lasts
    BY LastsStep
  <1>1. ContainerHasRecord'
    <2>1. ASSUME NEW c \in CLIs, EngineCreates(c) PROVE store # NoRecord
      BY <2>1 DEF EngineCreates, At, IInv, MemoryIsSane, Sane
    <2>2. CASE \E c \in CLIs : EngineCreates(c)
      BY <1>0, <2>1, <2>2 DEF Lasts, ContainerHasRecord
    <2>3. CASE ~ \E c \in CLIs : EngineCreates(c)
      BY <1>0, <2>3, OnlyCreateAdds DEF Lasts, IInv, ContainerHasRecord
    <2> QED
      BY <2>2, <2>3
  <1>2. /\ Interactive(store'.state) => WasStarted(store.cid)'
        /\ store'.state = "closed" => Gone(store.cid)'
    <2>1. CASE UNCHANGED store
      <3>1. /\ Interactive(store.state) => WasStarted(store.cid)
            /\ store.state = "closed" => Gone(store.cid)
        BY DEF IInv, TypeOK, Record, NoRecord, UsableWasStarted, ClosedContainerIsGone,
               WasStarted, Gone
      <3> QED
        BY <1>0, <2>1, <3>1 DEF Lasts, WasStarted, Gone
    <2>2. ASSUME NEW c \in CLIs, Save(c)
          PROVE  /\ Interactive(store'.state) => WasStarted(store.cid)'
                 /\ store'.state = "closed" => Gone(store.cid)'
      <3>1. store' = cli[c].record /\ UNCHANGED container
        BY <2>2 DEF Save
      <3>2. Sane(cli[c])
        BY DEF IInv, MemoryIsSane
      <3> QED
        BY <3>1, <3>2 DEF Sane, WasStarted, Gone
    <2> QED
      BY <2>1, <2>2, OnlySaveWrites
  <1>3. UsableWasStarted' /\ ClosedContainerIsGone'
    BY <1>2, LifecycleAssumption DEF UsableWasStarted, ClosedContainerIsGone, WasStarted, Gone
  <1> QED
    BY <1>1, <1>3

LEMMA IInvStep == IInv /\ [Next]_vars => IInv'
  <1>1. IInv /\ Next => IInv'
    BY TypeStep, MemoryStep, StoreStep DEF IInv
  <1>2. IInv /\ UNCHANGED vars => IInv'
    BY DEF vars, IInv, TypeOK, MemoryIsSane, Sane, WasStarted, Gone, ContainerHasRecord, Existing,
           UsableWasStarted, ClosedContainerIsGone
  <1> QED
    BY <1>1, <1>2

-----------------------------------------------------------------------------
(***************************************************************************)
(* One invocation at a time.                                               *)
(***************************************************************************)
LEMMA KnowsGoing ==
    ASSUME TypeOK, NEW c \in CLIs, NEW place \in Places, NEW record \in Record \cup {NoRecord},
           Goes(c, place, record), UNCHANGED store, place \notin {"save_creating", "save_id"},
           place \notin {"idle", "create", "close"} => record.cid = store.cid
    PROVE  Knows(cli[c])'
  BY GoesTo DEF Knows

LEMMA KnowsIdle ==
    ASSUME TypeOK, NEW c \in CLIs, Ends(c)
    PROVE  Knows(cli[c])'
  BY EndsIdle DEF Knows

LEMMA KnowsBeginning ==
    ASSUME TypeOK, NEW c \in CLIs, NEW goal \in Goals, NEW place \in Places,
           NEW record \in Record \cup {NoRecord}, Begin(c, goal, place, record), UNCHANGED store,
           \/ place \in {"create", "close"}
           \/ place \in {"run", "stream", "observe"} /\ record = store
    PROVE  Knows(cli[c])'
  BY BeginsAt DEF Knows

LEMMA KnowsSave ==
    ASSUME IInv, NEW c \in CLIs, Knows(cli[c]), Save(c)
    PROVE  Knows(cli[c])'
  <1> DEFINE next == AfterSave(c)[cli[c].pc]
  <1>1. TypeOK /\ cli[c].pc \in Saves /\ store' = cli[c].record
    BY DEF IInv, Save
  <1>2. CASE Ends(c)
    BY <1>1, <1>2, KnowsIdle
  <1>3. CASE next # "idle" /\ Moves(c, next)
    <2>1. next \in {"engine_create", "start", "run", "close", "exec", "stop"}
      BY <1>1, <1>3 DEF AfterSave, Saves, Bail
    <2>2. next \in Places
      BY <2>1 DEF Places
    <2>3. cli'[c].pc = next /\ cli'[c].record = cli[c].record
      BY <1>1, <1>3, <2>2, MovesTo, GoesTo
    <2> QED
      BY <1>1, <2>1, <2>3 DEF Knows
  <1> QED
    BY <1>2, <1>3 DEF Save

LEMMA KnowsStep ==
    ASSUME IInv, NEW c \in CLIs, \A d \in CLIs : d = c, EveryContainerIsNamed, crashes = 0,
           Knows(cli[c]), Step(c)
    PROVE  Knows(cli[c])'
  <1>r. PICK r : r = cli[c].record
    OBVIOUS
  <1>0. /\ r = cli[c].record /\ r \in Record \cup {NoRecord} /\ TypeOK /\ Sane(cli[c])
        /\ store \in Record \cup {NoRecord} /\ NoRecord.cid = None
    BY <1>r, RecordFacts DEF IInv, TypeOK, MemoryIsSane
  <1>1. CASE Save(c)
    BY <1>1, KnowsSave
  <1>2. CASE CreateLoads(c)
    <2>1. CASE Ends(c)
      BY <1>0, <2>1, KnowsIdle
    <2>2. CASE /\ store.state \in {"none", "closed"} /\ At(c, "create")
               /\ Goes(c, "save_creating", [state |-> "creating", cid |-> None])
      <3>1. [state |-> "creating", cid |-> None] \in Record
        BY DEF Record, States
      <3>2. cli'[c].pc = "save_creating"
        BY <1>0, <2>2, <3>1, GoesTo DEF Places, Saves
      <3>3. Existing = {}
        <4>1. ASSUME NEW k \in Existing PROVE FALSE
          <5>1. k = store.cid
            BY <2>2, <4>1 DEF EveryContainerIsNamed, At
          <5>2. k \in Containers /\ container[k] # "removed" /\ k # None
            BY <4>1, LifecycleAssumption DEF Existing
          <5>3. store.state = "none" => store = NoRecord
            BY <1>0, RecordFacts DEF Record, States
          <5> QED
            BY <1>0, <2>2, <5>1, <5>2, <5>3 DEF IInv, ClosedContainerIsGone
        <4> QED
          BY <4>1
      <3>4. Existing' = Existing
        BY <1>2 DEF CreateLoads, Existing
      <3> QED
        BY <3>2, <3>3, <3>4 DEF Knows
    <2> QED
      BY <1>2, <2>1, <2>2 DEF CreateLoads
  <1>3. CASE EngineCreates(c)
    <2>1. PICK k \in Containers : Goes(c, "save_id", [r EXCEPT !.cid = k])
      BY <1>0, <1>3 DEF EngineCreates
    <2>2. r = [state |-> "creating", cid |-> None] /\ store.cid = None /\ UNCHANGED store
      BY <1>0, <1>3 DEF EngineCreates, At, Sane, Knows
    <2>3. [r EXCEPT !.cid = k] \in Record
      BY <2>2 DEF Record, States
    <2>4. cli'[c].pc = "save_id"
      BY <1>0, <2>1, <2>3, GoesTo DEF Places, Saves
    <2> QED
      BY <2>2, <2>4 DEF Knows
  <1>4. ASSUME NEW place \in {"save_failed", "save_last", "save_ready", "save_running", "save_exit"},
               NEW state \in States, Goes(c, place, As(r, state)), UNCHANGED store,
               r.cid = store.cid
        PROVE  Knows(cli[c])'
    BY <1>0, <1>4, RecordFacts, KnowsGoing DEF Places, Saves
  <1>5. CASE EngineRefusesCreate(c) \/ EngineRefusesStart(c) \/ ProbeGivesUp(c)
    BY <1>0, <1>4, <1>5 DEF EngineRefusesCreate, EngineRefusesStart, ProbeGivesUp, At, Knows,
                            States
  <1>6. CASE ProbeIsReady(c) \/ RunBegins(c) \/ ExecReturns(c) \/ CloseWithoutContainer(c)
    BY <1>0, <1>4, <1>6 DEF ProbeIsReady, RunBegins, ExecReturns, CloseWithoutContainer, At, Knows,
                            States
  <1>7. ASSUME NEW place \in Places, Moves(c, place), UNCHANGED store,
               place \notin {"save_creating", "save_id"}, place # "close" => r.cid = store.cid
        PROVE  Knows(cli[c])'
    BY <1>0, <1>7, MovesTo, KnowsGoing
  <1>8. CASE StartLoads(c)
    <2>1. CASE Ends(c)
      BY <1>0, <2>1, KnowsIdle
    <2>2. CASE Goes(c, "engine_start", store) /\ UNCHANGED store
      BY <1>0, <2>2, KnowsGoing DEF Places
    <2>3. CASE Moves(c, "close") /\ UNCHANGED store
      BY <1>7, <2>3 DEF Places
    <2> QED
      BY <1>8, <2>1, <2>2, <2>3 DEF StartLoads
  <1>9. CASE EngineStarts(c) \/ ExecStarts(c) \/ StopReturns(c)
    BY <1>0, <1>7, <1>9 DEF EngineStarts, ExecStarts, StopReturns, At, Knows, Places
  <1>10. CASE WaitLoads(c)
    <2>1. /\ cli'[c].pc = "wait_ready" /\ cli'[c].record = cli[c].record /\ UNCHANGED store
          /\ cli[c].record.cid = store.cid
      BY <1>0, <1>10 DEF WaitLoads, TypeOK, At, Knows
    <2> QED
      BY <2>1 DEF Knows
  <1>11. CASE StreamReturns(c)
    BY <1>0, <1>7, <1>11, KnowsIdle DEF StreamReturns, At, Knows, Places, Saves
  <1>12. CASE CloseLoads(c)
    <2>1. CASE Ends(c)
      BY <1>0, <2>1, KnowsIdle
    <2>2. CASE Goes(c, "stop", store) /\ UNCHANGED store
      BY <1>0, <2>2, KnowsGoing DEF Places
    <2>3. CASE Goes(c, "save_closing", As(store, "closing")) /\ UNCHANGED store
      BY <1>0, <2>3, RecordFacts, KnowsGoing DEF Places, Saves, States
    <2> QED
      BY <1>12, <2>1, <2>2, <2>3 DEF CloseLoads
  <1>13. CASE RemoveReturns(c)
    BY <1>0, <1>4, <1>13 DEF RemoveReturns, CloseOutcome, At, Knows, States
  <1>14. CASE Observes(c)
    <2>1. CASE Ends(c)
      BY <1>0, <2>1, KnowsIdle
    <2>2. CASE Goes(c, "save_last", Reconcile(r)) /\ Reconcile(r) # r
      <3>1. Reconcile(r) = As(r, "failed")
        BY <2>2 DEF Reconcile, Fail
      <3> QED
        BY <1>0, <1>4, <1>14, <2>2, <3>1 DEF Observes, At, Knows, States
    <2> QED
      BY <1>0, <1>14, <2>1, <2>2 DEF Observes
  <1> QED
    BY <1>1, <1>2, <1>3, <1>5, <1>6, <1>8, <1>9, <1>10, <1>11, <1>12, <1>13, <1>14 DEF Step

LEMMA KnowsInvoke ==
    ASSUME TypeOK, NEW c \in CLIs, Invoke(c)
    PROVE  Knows(cli[c])'
  <1>0. /\ store \in Record \cup {NoRecord} /\ NoRecord \in Record \cup {NoRecord}
        /\ {"create", "close", "run", "stream", "observe"} \subseteq Places
    BY DEF TypeOK, Places
  <1>1. CASE BeginCreate(c)
    BY <1>0, <1>1, KnowsBeginning DEF BeginCreate, Goals
  <1>2. CASE RunLoads(c)
    <2>1. PICK goal \in {"run", "ephemeral"} :
             \/ store = NoRecord /\ Begin(c, goal, "create", NoRecord)
             \/ store.state = "ready" /\ Begin(c, goal, "run", store)
      BY <1>2 DEF RunLoads
    <2>2. goal \in Goals /\ UNCHANGED store
      BY <1>2 DEF Goals, RunLoads
    <2> QED
      BY <1>0, <2>1, <2>2, KnowsBeginning
  <1>3. CASE InjectLoads(c)
    BY <1>0, <1>3, KnowsBeginning DEF InjectLoads, Goals
  <1>4. CASE BeginClose(c)
    BY <1>0, <1>4, KnowsBeginning DEF BeginClose, Goals
  <1>5. CASE InspectLoads(c)
    BY <1>0, <1>5, KnowsBeginning DEF InspectLoads, Goals
  <1> QED
    BY <1>1, <1>2, <1>3, <1>4, <1>5 DEF Invoke

\* Who names a container: the record, or the one invocation about to save it.
LEMMA NamedStep ==
    ASSUME IInv, Next, NEW c \in CLIs, \A d \in CLIs : d = c, EveryContainerIsNamed,
           crashes = 0, crashes' = 0, Knows(cli[c])
    PROVE  EveryContainerIsNamed'
  <1> SUFFICES ASSUME NEW k \in Existing'
               PROVE  store'.cid = k \/ (cli'[c].pc = "save_id" /\ cli'[c].record.cid = k)
    BY DEF EveryContainerIsNamed, At
  <1>r. PICK r : r = cli[c].record
    OBVIOUS
  <1>0. /\ r = cli[c].record /\ r \in Record \cup {NoRecord} /\ TypeOK /\ Sane(cli[c])
    BY <1>r DEF IInv, TypeOK, MemoryIsSane
  <1>1. ASSUME k \in Existing
        PROVE  store.cid = k \/ (cli[c].pc = "save_id" /\ r.cid = k)
    BY <1>0, <1>1 DEF EveryContainerIsNamed, At
  <1>2. CASE EngineCreates(c)
    <2>1. PICK j \in Containers : /\ container' = [container EXCEPT ![j] = "created"]
                                  /\ Goes(c, "save_id", [r EXCEPT !.cid = j])
      BY <1>0, <1>2 DEF EngineCreates
    <2>2. r = [state |-> "creating", cid |-> None]
      BY <1>0, <1>2 DEF EngineCreates, At, Sane
    <2>3. [r EXCEPT !.cid = j] \in Record /\ [r EXCEPT !.cid = j].cid = j
      BY <2>2 DEF Record, States
    <2>4. cli'[c].pc = "save_id" /\ cli'[c].record = [r EXCEPT !.cid = j]
      BY <1>0, <2>1, <2>3, GoesTo DEF Places, Saves
    <2>5. k = j
      BY <1>0, <1>2, <2>1 DEF EngineCreates, Existing, TypeOK
    <2> QED
      BY <2>3, <2>4, <2>5
  <1>3. CASE Save(c)
    <2>1. store' = r /\ k \in Existing /\ cli[c].pc \in Saves
      BY <1>0, <1>3 DEF Save, Existing
    <2>2. CASE cli[c].pc = "save_id"
      BY <1>1, <2>1, <2>2, LifecycleAssumption DEF Knows, Existing
    <2>3. CASE cli[c].pc = "save_creating"
      BY <2>1, <2>3 DEF Knows
    <2>4. CASE cli[c].pc \notin {"save_id", "save_creating"}
      BY <1>0, <1>1, <2>1, <2>4 DEF Knows, Saves
    <2> QED
      BY <2>2, <2>3, <2>4
  <1>4. CASE UNCHANGED store /\ ~ EngineCreates(c) /\ cli[c].pc # "save_id"
    BY <1>1, <1>4, OnlyCreateAdds
  <1>5. CASE UNCHANGED <<store, cli>> /\ ~ EngineCreates(c)
    BY <1>0, <1>1, <1>5, OnlyCreateAdds
  <1>6. ASSUME Step(c), cli[c].pc = "save_id" PROVE Save(c)
    BY <1>6 DEF Step, CreateLoads, EngineCreates, EngineRefusesCreate, StartLoads, EngineStarts,
                EngineRefusesStart, WaitLoads, ProbeIsReady, ProbeGivesUp, RunBegins, ExecStarts,
                ExecReturns, StreamReturns, CloseLoads, CloseWithoutContainer, StopReturns,
                RemoveReturns, Observes, At
  <1>7. ASSUME Invoke(c) PROVE cli[c].pc # "save_id" /\ UNCHANGED store
    BY <1>7 DEF Invoke, BeginCreate, RunLoads, InjectLoads, BeginClose, InspectLoads, At
  <1>8. AppExits(c) => UNCHANGED <<store, cli>>
    BY DEF AppExits
  <1>9. ~ Crash(c)
    BY DEF Crash
  <1>10. (\E j \in Containers : ContainerDies(j)) => UNCHANGED <<store, cli>>
    BY DEF ContainerDies
  <1>11. Step(c) \/ Invoke(c) \/ AppExits(c) \/ \E j \in Containers : ContainerDies(j)
    BY <1>9 DEF Next
  <1>12. UNCHANGED store \/ Save(c)
    BY OnlySaveWrites
  <1> QED
    BY <1>2, <1>3, <1>4, <1>5, <1>6, <1>7, <1>8, <1>10, <1>11, <1>12

\* What is known at save_creating and at save_id survives the world's steps.
LEMMA KnowsWorld ==
    ASSUME IInv, NEW c \in CLIs, Knows(cli[c]), UNCHANGED <<store, cli>>, Existing' \subseteq Existing
    PROVE  Knows(cli[c])'
  BY DEF Knows

LEMMA SoleStep ==
    ASSUME \A c, d \in CLIs : c = d
    PROVE  SoleInv /\ [Next]_vars => SoleInv'
  <1> SUFFICES ASSUME SoleInv, [Next]_vars PROVE SoleInv'
    OBVIOUS
  <1>1. IInv /\ IInv'
    BY IInvStep DEF SoleInv
  <1> SUFFICES ASSUME crashes' = 0
               PROVE  EveryContainerIsNamed' /\ \A c \in CLIs : Knows(cli[c])'
    BY <1>1 DEF SoleInv
  <1>2. CASE UNCHANGED vars
    BY <1>2 DEF vars, SoleInv, EveryContainerIsNamed, Existing, At, Knows
  <1>3. CASE Next
    <2>1. crashes = 0
      <3>1. crashes \in Nat
        BY <1>1, LifecycleAssumption DEF IInv, TypeOK
      <3>2. crashes' = crashes \/ crashes' = crashes + 1
        <4>1. ASSUME NEW c \in CLIs, Step(c) PROVE UNCHANGED crashes
          BY <4>1 DEF Step, Save, CreateLoads, EngineCreates, EngineRefusesCreate, StartLoads,
            EngineStarts, EngineRefusesStart, WaitLoads, ProbeIsReady, ProbeGivesUp, RunBegins,
            ExecStarts, ExecReturns, StreamReturns, CloseLoads, CloseWithoutContainer,
            StopReturns, RemoveReturns, Observes
        <4>2. ASSUME NEW c \in CLIs, Invoke(c) \/ AppExits(c) PROVE UNCHANGED crashes
          BY <4>2 DEF Invoke, BeginCreate, RunLoads, InjectLoads, BeginClose, InspectLoads,
                      AppExits
        <4> QED
          BY <1>3, <4>1, <4>2 DEF Next, Crash, ContainerDies
      <3> QED
        BY <3>1, <3>2
    <2>2. EveryContainerIsNamed /\ \A c \in CLIs : Knows(cli[c])
      BY <2>1 DEF SoleInv
    <2>3. EveryContainerIsNamed'
      <3>1. CASE CLIs = {}
        <4>1. UNCHANGED store /\ Existing' \subseteq Existing
          BY <1>1, <1>3, <3>1, OnlySaveWrites, OnlyCreateAdds
        <4> QED
          BY <2>1, <2>2, <3>1, <4>1 DEF EveryContainerIsNamed
      <3>2. CASE CLIs # {}
        BY <1>1, <1>3, <2>1, <2>2, <3>2, NamedStep
      <3> QED
        BY <3>1, <3>2
    <2>4. ASSUME NEW c \in CLIs PROVE Knows(cli[c])'
      <3>1. \A d \in CLIs : d = c
        OBVIOUS
      <3>2. Step(c) => Knows(cli[c])'
        BY <1>1, <2>1, <2>2, <3>1, KnowsStep
      <3>3. Invoke(c) => Knows(cli[c])'
        BY <1>1, KnowsInvoke DEF IInv
      <3>4. Crash(c) => Knows(cli[c])'
        BY <1>1, KnowsIdle DEF IInv, Crash
      <3>5. ASSUME AppExits(c) \/ \E k \in Containers : ContainerDies(k) PROVE Knows(cli[c])'
        <4>1. CASE AppExits(c)
          BY <1>1, <2>2, <4>1, KnowsWorld DEF AppExits, Existing
        <4>2. CASE \E k \in Containers : ContainerDies(k)
          <5>1. Existing' \subseteq Existing
            BY <1>1, <4>2 DEF ContainerDies, Existing, IInv, TypeOK
          <5> QED
            BY <1>1, <2>2, <4>2, <5>1, KnowsWorld DEF ContainerDies
        <4> QED
          BY <3>5, <4>1, <4>2
      <3> QED
        BY <1>3, <3>1, <3>2, <3>3, <3>4, <3>5 DEF Next
    <2> QED
      BY <2>3, <2>4
  <1> QED
    BY <1>2, <1>3

LEMMA SoleInit == Init => SoleInv
  BY InitInv DEF Init, SoleInv, EveryContainerIsNamed, Existing, Knows, Idle

-----------------------------------------------------------------------------
\* The inductive invariant holds in every reachable state.
THEOREM Inductive == Spec => []IInv
  BY InitInv, IInvStep, PTL DEF Spec

\* Every variable of the lifecycle keeps its type: what an invocation saves is a
\* record, and the engine's faults stay within their bound.
THEOREM LifecycleTypeCorrect == Spec => []TypeOK
  <1>1. IInv => TypeOK
    BY DEF IInv
  <1> QED
    BY <1>1, Inductive, PTL

\* Create saves the record before it asks the engine for a container, and no
\* save or crash of any invocation ever leaves the session without one: a
\* container that exists has a record on disk.
THEOREM NoContainerWithoutRecord == Spec => []ContainerHasRecord
  <1>1. IInv => ContainerHasRecord
    BY DEF IInv
  <1> QED
    BY <1>1, Inductive, PTL

\* WaitReady, Run and the reconciliation write "ready" or "running" only into a
\* record whose container was started, though each saves a copy it loaded long
\* before and others overwrite it meanwhile.
THEOREM UsableRecordsWereStarted == Spec => []UsableWasStarted
  <1>1. IInv => UsableWasStarted
    BY DEF IInv
  <1> QED
    BY <1>1, Inductive, PTL

\* Close writes "closed" only once the container its record names is gone,
\* whatever the engine refused and however many closes overlap.
THEOREM ClosedRecordsAreGone == Spec => []ClosedContainerIsGone
  <1>1. IInv => ClosedContainerIsGone
    BY DEF IInv
  <1> QED
    BY <1>1, Inductive, PTL

\* Used by one invocation at a time, the store names every container that exists,
\* or the invocation that just created it is about to save its name, for as long
\* as none crashed.
THEOREM SoleInvocationNamesContainers ==
    ASSUME \A c, d \in CLIs : c = d
    PROVE  Spec => []EveryContainerIsNamed
  <1>1. Init => SoleInv
    BY SoleInit
  <1>2. SoleInv /\ [Next]_vars => SoleInv'
    BY SoleStep
  <1>3. SoleInv => EveryContainerIsNamed
    BY DEF SoleInv, EveryContainerIsNamed
  <1> QED
    BY <1>1, <1>2, <1>3, PTL DEF Spec

=============================================================================
