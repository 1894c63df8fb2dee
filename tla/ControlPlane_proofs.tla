------------------------ MODULE ControlPlane_proofs ------------------------
(***************************************************************************)
(* Proofs about the control plane, for any number of callers, windows,      *)
(* requests and connections.  First its type invariant, that it implements  *)
(* the abstract session, and that a current State lists live windows only;  *)
(* then that a caller is told the answer to what it asked (the part that    *)
(* begins with InFlight); then what a State shows (RevisionsRise).          *)
(***************************************************************************)
EXTENDS ControlPlane, SequenceTheorems, TLAPS

-----------------------------------------------------------------------------
LEMMA ChangedType ==
    ASSUME NEW h \in Nat, NEW active, NEW map, NEW rev \in Nat
    PROVE  Changed(h, active, map, rev) \in Event
  <1>1. (h \in active) \in BOOLEAN /\ (h \in map) \in BOOLEAN
    OBVIOUS
  <1>2. [handle |-> h, activated |-> h \in active, mapped |-> h \in map, rev |-> rev]
          \in Toplevel
    BY <1>1, Zenon DEF Toplevel
  <1> QED
    BY <1>2, Zenon DEF Changed, Event, ChangedEvents

LEMMA EmitType ==
    ASSUME WireTypeOK, NEW events \in Seq(Event), Emit(events)
    PROVE  toClient' \in Seq(Event)
  <1>1. toClient \o events \in Seq(Event)
    BY ConcatProperties DEF WireTypeOK
  <1> QED
    BY <1>1 DEF Emit, WireTypeOK

LEMMA ReplyType ==
    /\ NoReply \in Reply /\ LostReply \in Reply
    /\ \A rev \in Nat : DoneReply(rev) \in Reply
    /\ \A code \in Codes : FailedReply(code) \in Reply
    /\ \A e \in ResizeDoneEvents : ResizedReply(e) \in Reply
  <1>1. NoReply \in Reply
    BY DEF NoReply, Reply, SizeOrNone
  <1>2. LostReply \in Reply
    BY <1>1 DEF LostReply, NoReply, Reply, SizeOrNone
  <1>3. ASSUME NEW rev \in Nat PROVE DoneReply(rev) \in Reply
    BY DEF DoneReply, NoReply, Reply, SizeOrNone
  <1>4. ASSUME NEW code \in Codes PROVE FailedReply(code) \in Reply
    BY DEF FailedReply, NoReply, Reply, SizeOrNone
  <1>5. ASSUME NEW e \in ResizeDoneEvents PROVE ResizedReply(e) \in Reply
    BY DEF ResizedReply, Reply, SizeOrNone, ResizeDoneEvents
  <1> QED
    BY <1>1, <1>2, <1>3, <1>4, <1>5

LEMMA NoCallType == NoCall \in Call
  BY ReplyType DEF NoCall, Call

LEMMA InitType == Init => TypeOK
  <1> SUFFICES ASSUME Init PROVE TypeOK
    OBVIOUS
  <1> USE DEF Init
  <1>1. WireTypeOK
    BY DEF WireTypeOK
  <1>2. ShellTypeOK
    <2>1. toplevels \in Seq(Nat)
      BY DEF ShellInit
    <2>2. /\ controller \in BOOLEAN /\ captureClient \in BOOLEAN /\ capturePending \in BOOLEAN
      BY DEF ShellInit
    <2>3. /\ mapped \subseteq Nat /\ activated \subseteq Nat /\ requests \subseteq PendingResize
      BY DEF ShellInit
    <2>4. /\ focus \in Nat /\ nextIndex \in Nat /\ revision \in Nat /\ captureID \in Nat /\ frameSequence \in Nat
      BY DEF ShellInit
    <2> QED
      BY <2>1, <2>2, <2>3, <2>4 DEF ShellTypeOK
  <1>3. NoView \in View
    BY DEF NoView, View
  <1>4. finishing \in [id : Nat, reply : Reply]
    BY ReplyType DEF ClientInit, NoConnection
  <1>5. ClientTypeOK
    <2>1. /\ nextRequestID \in Nat /\ pending \subseteq Callers
          /\ cache \subseteq Toplevel /\ removed \subseteq Nat /\ clientRevision \in Nat
          /\ resizeProgress \subseteq Progress
      BY DEF ClientInit, NoConnection
    <2>2. frames \in Seq(FrameEvents)
      BY DEF ClientInit, NoConnection
    <2>3. /\ dispatching \in BOOLEAN /\ closedFlag \in BOOLEAN
          /\ closed \in BOOLEAN /\ linked \in BOOLEAN
      BY DEF ClientInit, NoConnection
    <2>4. call \in [Callers -> Call] /\ view \in [Callers -> View]
      BY <1>3, NoCallType DEF ClientInit
    <2> QED
      BY <2>1, <2>2, <2>3, <2>4, <1>4 DEF ClientTypeOK
  <1> QED
    BY <1>1, <1>2, <1>5 DEF TypeOK

-----------------------------------------------------------------------------
LEMMA EventTypes ==
    /\ \A id \in Nat, rev \in Nat : Done(id, rev) \in Event
    /\ \A id \in Nat, code \in Codes : Failed(id, code) \in Event
    /\ \A id \in Nat : [ev |-> "capture_authorized", id |-> id] \in Event
    /\ \A rev \in Nat : [ev |-> "snapshot", rev |-> rev] \in Event
    /\ \A h \in Nat : [ev |-> "toplevel_removed", handle |-> h] \in Event
    /\ \A id \in Nat, size \in Sizes :
          [ev |-> "resize_configured", id |-> id, configured |-> size] \in Event
    /\ \A id \in Nat, rev \in Nat, size \in Sizes, other \in Sizes :
          [ev |-> "resize_done", id |-> id, configured |-> size, committed |-> other,
           rev |-> rev] \in Event
    /\ \A id \in Nat, seq \in Nat : [ev |-> "frame", captureID |-> id, seq |-> seq] \in Event
  BY DEF Done, Failed, Event, DoneEvents, FailedEvents, AuthorizedEvents, SnapshotEvents,
         RemovedEvents, ConfiguredEvents, ResizeDoneEvents, FrameEvents

LEMMA OneEvent == ASSUME NEW a \in Event PROVE <<a>> \in Seq(Event)
  OBVIOUS

LEMMA TwoEvents == ASSUME NEW a \in Event, NEW b \in Event PROVE <<a, b>> \in Seq(Event)
  OBVIOUS

LEMMA BumpType == ASSUME revision \in Nat, BumpRevision PROVE revision' \in Nat
  BY DEF BumpRevision

LEMMA ShellHandlesType ==
    ASSUME WireTypeOK, ShellTypeOK, ShellHandles
    PROVE  WireTypeOK' /\ ShellTypeOK'
  <1> DEFINE q == Head(toShell)
  <1> USE DEF RequestKinds, WindowOps
  <1>1. q \in Request /\ toShell' \in Seq(Request)
    BY DEF ShellHandles, WireTypeOK
  <1>2. q.id \in Nat /\ q.handle \in Nat /\ q.kind \in RequestKinds
    BY <1>1 DEF Request
  <1> SUFFICES toClient' \in Seq(Event) /\ ShellTypeOK'
    BY <1>1 DEF WireTypeOK
  <1> USE DEF shellVars, windowVars, captureVars
  <1>3. CASE HandleSnapshot(q)
    <2> DEFINE windows == [i \in 1 .. Len(toplevels) |->
                             Changed(toplevels[i], activated, mapped, revision)]
               list == <<[ev |-> "snapshot", rev |-> revision]>> \o windows
                       \o <<Done(q.id, revision)>>
    <2>1. ShellTypeOK'
      BY <1>3 DEF HandleSnapshot, ShellTypeOK
    <2>2. windows \in Seq(Event)
      BY ChangedType DEF ShellTypeOK
    <2>3. <<[ev |-> "snapshot", rev |-> revision]>> \in Seq(Event)
      BY EventTypes, OneEvent DEF ShellTypeOK
    <2>4. <<Done(q.id, revision)>> \in Seq(Event)
      BY <1>2, EventTypes, OneEvent DEF ShellTypeOK
    <2>5. list \in Seq(Event)
      BY <2>2, <2>3, <2>4, ConcatProperties
    <2> QED
      BY <1>3, <2>1, <2>5, EmitType DEF HandleSnapshot
  <1>4. CASE HandleRefused(q)
    <2>1. ShellTypeOK'
      BY <1>4 DEF HandleRefused, ShellTypeOK
    <2>2. PICK code \in Refusal(q) : Emit(<<Failed(q.id, code)>>)
      BY <1>4 DEF HandleRefused
    <2>3. code \in Codes
      BY DEF Refusal, Codes
    <2> QED
      BY <1>2, <2>1, <2>2, <2>3, EventTypes, OneEvent, EmitType
  <1>5. CASE HandleActivate(q)
    <2>1. revision' \in Nat
      BY <1>5, BumpType DEF HandleActivate, ShellTypeOK
    <2>2. focus' \in Nat /\ activated' \subseteq Nat
      BY <1>2, <1>5 DEF HandleActivate, ActivateToplevel, ShellTypeOK
    <2>3. ShellTypeOK'
      BY <1>5, <2>1, <2>2 DEF HandleActivate, ShellTypeOK
    <2>4. /\ Changed(q.handle, activated', mapped, revision') \in Event
          /\ Done(q.id, revision') \in Event
      BY <1>2, <2>1, ChangedType, EventTypes
    <2> QED
      BY <1>5, <2>3, <2>4, TwoEvents, EmitType DEF HandleActivate
  <1>6. CASE HandleMove(q)
    <2>1. revision' \in Nat
      BY <1>6, BumpType DEF HandleMove, ShellTypeOK
    <2>2. ShellTypeOK'
      BY <1>6, <2>1 DEF HandleMove, ShellTypeOK
    <2>3. /\ Changed(q.handle, activated, mapped, revision') \in Event
          /\ Done(q.id, revision') \in Event
      BY <1>2, <2>1, ChangedType, EventTypes
    <2> QED
      BY <1>6, <2>2, <2>3, TwoEvents, EmitType DEF HandleMove
  <1>7. CASE HandleResize(q)
    <2>1. q.size \in Sizes
      BY <1>1, <1>7 DEF HandleResize, Refusal, Request
    <2>2. requests' \subseteq PendingResize
      BY <1>2, <1>7, <2>1 DEF HandleResize, KeptBeside, PendingResize, ShellTypeOK
    <2>3. ShellTypeOK'
      BY <1>7, <2>2 DEF HandleResize, ShellTypeOK
    <2> QED
      BY <1>2, <1>7, <2>1, <2>3, EventTypes, OneEvent, EmitType DEF HandleResize
  <1>8. CASE HandleCloseWindow(q)
    <2>1. ShellTypeOK'
      BY <1>8 DEF HandleCloseWindow, ShellTypeOK
    <2>2. Done(q.id, revision) \in Event
      BY <1>2, EventTypes DEF ShellTypeOK
    <2> QED
      BY <1>8, <2>1, <2>2, OneEvent, EmitType DEF HandleCloseWindow
  <1>9. CASE HandleInput(q)
    <2>1. ShellTypeOK'
      BY <1>9 DEF HandleInput, ShellTypeOK
    <2>2. Done(q.id, revision) \in Event
      BY <1>2, EventTypes DEF ShellTypeOK
    <2> QED
      BY <1>9, <2>1, <2>2, OneEvent, EmitType DEF HandleInput
  <1>10. CASE HandleAuthorizeCapture(q)
    <2>1. ShellTypeOK'
      BY <1>2, <1>10 DEF HandleAuthorizeCapture, ShellTypeOK
    <2>2. /\ [ev |-> "capture_authorized", id |-> q.id] \in Event
          /\ Done(q.id, revision) \in Event
      BY <1>2, EventTypes DEF ShellTypeOK
    <2> QED
      BY <1>10, <2>1, <2>2, TwoEvents, EmitType DEF HandleAuthorizeCapture
  <1> QED
    BY <1>3, <1>4, <1>5, <1>6, <1>7, <1>8, <1>9, <1>10 DEF ShellHandles

LEMMA WithoutType ==
    ASSUME toplevels \in Seq(Nat), NEW i \in 1 .. Len(toplevels)
    PROVE  Without(toplevels, i) \in Seq(Nat)
  <1>1. Len(toplevels) \in Nat /\ Len(toplevels) - 1 \in Nat
    OBVIOUS
  <1>2. ASSUME NEW j \in 1 .. Len(toplevels) - 1
        PROVE  (IF j < i THEN toplevels[j] ELSE toplevels[j + 1]) \in Nat
    BY <1>1
  <1> QED
    BY <1>1, <1>2 DEF Without

LEMMA ApplicationsType ==
    ASSUME WireTypeOK, ShellTypeOK, Applications
    PROVE  WireTypeOK' /\ ShellTypeOK'
  <1> USE DEF shellVars, windowVars, captureVars
  <1>1. toShell' = toShell
    BY DEF Applications, SurfaceAdded, SurfaceRemoved, SurfaceCommitted, StateRequested, Frame
  <1> SUFFICES toClient' \in Seq(Event) /\ ShellTypeOK'
    BY <1>1 DEF WireTypeOK
  <1>2. CASE SurfaceAdded
    <2>1. nextIndex' \in Nat /\ revision' \in Nat /\ toplevels' \in Seq(Nat)
      BY <1>2, BumpType DEF SurfaceAdded, AssignHandle, ShellTypeOK
    <2>2. ShellTypeOK'
      BY <1>2, <2>1 DEF SurfaceAdded, ShellTypeOK
    <2>3. Changed(nextIndex', activated, mapped, revision') \in Event
      BY <2>1, ChangedType
    <2> QED
      BY <1>2, <2>2, <2>3, OneEvent, EmitType DEF SurfaceAdded
  <1>3. ASSUME NEW i \in 1 .. Len(toplevels), SurfaceRemoved(i)
        PROVE  toClient' \in Seq(Event) /\ ShellTypeOK'
    <2> DEFINE h == toplevels[i]
               removal == <<[ev |-> "toplevel_removed", handle |-> h]>>
    <2>1. h \in Nat
      BY DEF ShellTypeOK
    <2>2. revision' \in Nat /\ toplevels' \in Seq(Nat)
      BY <1>3, BumpType, WithoutType DEF SurfaceRemoved, ShellTypeOK
    <2>3. /\ requests' \subseteq PendingResize /\ focus' \in Nat
          /\ mapped' \subseteq Nat /\ activated' \subseteq Nat
      BY <1>3 DEF SurfaceRemoved, ShellTypeOK
    <2>4. ShellTypeOK'
      BY <1>3, <2>2, <2>3 DEF SurfaceRemoved, ShellTypeOK
    <2>5. removal \in Seq(Event)
      BY <2>1, EventTypes, OneEvent
    <2>6. CASE Emit(removal)
      BY <2>4, <2>5, <2>6, EmitType
    <2>7. ASSUME NEW r \in RequestsFor(h), Emit(<<Failed(r.id, "window_not_found")>> \o removal)
          PROVE  toClient' \in Seq(Event)
      <3>1. Failed(r.id, "window_not_found") \in Event
        BY EventTypes DEF RequestsFor, ShellTypeOK, PendingResize, Codes
      <3>2. <<Failed(r.id, "window_not_found")>> \o removal \in Seq(Event)
        BY <2>5, <3>1, OneEvent, ConcatProperties
      <3> QED
        BY <2>7, <3>2, EmitType
    <2> QED
      BY <1>3, <2>4, <2>6, <2>7 DEF SurfaceRemoved
  <1>4. ASSUME NEW h \in Live, NEW size \in Sizes, SurfaceCommitted(h, size)
        PROVE  toClient' \in Seq(Event) /\ ShellTypeOK'
    <2>1. h \in Nat
      BY DEF Live, ShellTypeOK
    <2>2. mapped' \subseteq Nat
      BY <1>4, <2>1 DEF SurfaceCommitted, ShellTypeOK
    <2>3. CASE Completes(h, size) = {}
      BY <1>4, <2>2, <2>3 DEF SurfaceCommitted, ShellTypeOK, WireTypeOK
    <2>4. CASE Completes(h, size) # {}
      <3>1. PICK r \in Completes(h, size) :
               /\ BumpRevision
               /\ requests' = requests \ {r}
               /\ Emit(<<Changed(h, activated, mapped', revision'),
                         [ev |-> "resize_done", id |-> r.id, configured |-> r.configured,
                          committed |-> size, rev |-> revision']>>)
        BY <1>4, <2>4 DEF SurfaceCommitted
      <3>2. revision' \in Nat
        BY <3>1, BumpType DEF ShellTypeOK
      <3>3. ShellTypeOK'
        BY <1>4, <2>2, <3>1, <3>2 DEF SurfaceCommitted, ShellTypeOK
      <3>4. r.id \in Nat /\ r.configured \in Sizes
        BY DEF Completes, RequestsFor, ShellTypeOK, PendingResize
      <3> QED
        BY <2>1, <3>1, <3>2, <3>3, <3>4, ChangedType, EventTypes, TwoEvents, EmitType
    <2> QED
      BY <2>3, <2>4
  <1>5. ASSUME NEW h \in Live, StateRequested(h)
        PROVE  toClient' \in Seq(Event) /\ ShellTypeOK'
    <2>1. h \in Nat /\ revision' \in Nat
      BY <1>5, BumpType DEF StateRequested, Live, ShellTypeOK
    <2>2. ShellTypeOK'
      BY <1>5, <2>1 DEF StateRequested, ShellTypeOK
    <2> QED
      BY <1>5, <2>1, <2>2, ChangedType, OneEvent, EmitType DEF StateRequested
  <1>6. CASE Frame
    <2>1. frameSequence' \in Nat
      BY <1>6 DEF Frame, ShellTypeOK
    <2>2. ShellTypeOK'
      BY <1>6, <2>1 DEF Frame, ShellTypeOK
    <2>3. (IF capturePending THEN captureID ELSE 0) \in Nat
      BY DEF ShellTypeOK
    <2> QED
      BY <1>6, <2>1, <2>2, <2>3, EventTypes, OneEvent, EmitType DEF Frame
  <1> QED
    BY <1>2, <1>3, <1>4, <1>5, <1>6 DEF Applications

-----------------------------------------------------------------------------
LEMMA RepliedType ==
    ASSUME NEW k \in Call, NEW r \in Reply
    PROVE  [k EXCEPT !.reply = r] \in Call
  BY DEF Call

LEMMA ListedType ==
    ASSUME NEW k \in Call, NEW windows \in SUBSET Toplevel
    PROVE  [k EXCEPT !.list = windows] \in Call
  BY DEF Call

LEMMA WokenType ==
    ASSUME ClientTypeOK, NEW woken, NEW r \in Reply
    PROVE  Woken(woken, r) \in [Callers -> Call]
  BY RepliedType DEF Woken, ClientTypeOK

LEMMA FinishType ==
    ASSUME ClientTypeOK, NEW id, NEW r \in Reply, Finish(id, r)
    PROVE  /\ call' \in [Callers -> Call] /\ pending' \subseteq Callers
           /\ resizeProgress' \subseteq Progress
  BY WokenType DEF Finish, ClientTypeOK

LEMMA FailAllType ==
    ASSUME ClientTypeOK, FailAll
    PROVE  call' \in [Callers -> Call] /\ pending' \subseteq Callers /\ closedFlag' \in BOOLEAN
  BY WokenType, ReplyType DEF FailAll

LEMMA ListsType ==
    ASSUME ClientTypeOK, NEW lists \in [Callers -> SUBSET Toplevel], ListsBecome(lists)
    PROVE  call' \in [Callers -> Call]
  BY ListedType DEF ListsBecome, ClientTypeOK

LEMMA ObservedType ==
    ASSUME ClientTypeOK, NEW id \in Nat, NEW configured \in SizeOrNone,
           NEW committed \in SizeOrNone
    PROVE  Observed(id, configured, committed) \subseteq Progress
  BY DEF Observed, Progress, ClientTypeOK

LEMMA EventOfKind ==
    ASSUME NEW e \in Event
    PROVE  /\ e.ev = "snapshot" => e \in SnapshotEvents
           /\ e.ev = "toplevel_changed" => e \in ChangedEvents
           /\ e.ev = "toplevel_removed" => e \in RemovedEvents
           /\ e.ev = "request_done" => e \in DoneEvents
           /\ e.ev = "request_failed" => e \in FailedEvents
           /\ e.ev = "resize_configured" => e \in ConfiguredEvents
           /\ e.ev = "resize_done" => e \in ResizeDoneEvents
           /\ e.ev = "frame" => e \in FrameEvents
  BY DEF Event, SnapshotEvents, ChangedEvents, RemovedEvents, DoneEvents, FailedEvents,
         ConfiguredEvents, ResizeDoneEvents, FrameEvents, AuthorizedEvents

LEMMA DispatchType ==
    ASSUME WireTypeOK, ClientTypeOK, Dispatch
    PROVE  WireTypeOK' /\ ClientTypeOK'
  <1> DEFINE e == Head(toClient)
  <1>1. e \in Event /\ toClient' \in Seq(Event) /\ toShell' \in Seq(Request)
    BY DEF Dispatch, WireTypeOK
  <1> SUFFICES ClientTypeOK'
    BY <1>1 DEF WireTypeOK
  <1>2. /\ nextRequestID' = nextRequestID /\ view' = view /\ dispatching' = dispatching
        /\ closedFlag' = closedFlag /\ closed' = closed /\ linked' = linked
    BY DEF Dispatch, linkVars
  <1> USE DEF cacheVars
  <1>3. CASE OnSnapshot(e)
    <2>1. clientRevision' \in Nat
      BY <1>1, <1>3, EventOfKind DEF OnSnapshot, SnapshotEvents
    <2>2. call' \in [Callers -> Call]
      BY <1>3, ListsType DEF OnSnapshot
    <2> QED
      BY <1>2, <1>3, <2>1, <2>2 DEF OnSnapshot, ClientTypeOK
  <1>4. CASE OnToplevelChanged(e)
    <2>1. e.window \in Toplevel
      BY <1>1, <1>4, EventOfKind DEF OnToplevelChanged, ChangedEvents
    <2>2. clientRevision' \in Nat
      BY <1>4, <2>1 DEF OnToplevelChanged, Toplevel
    <2>3. cache' \subseteq Toplevel
      BY <1>4, <2>1 DEF OnToplevelChanged, Upsert, ClientTypeOK
    <2>4. \A c \in Callers : call[c].list \subseteq Toplevel
      BY DEF ClientTypeOK, Call
    <2>5. [c \in Callers |-> Upsert(call[c].list, e.window)] \in [Callers -> SUBSET Toplevel]
      BY <2>1, <2>4 DEF Upsert
    <2>6. call' \in [Callers -> Call]
      BY <1>4, <2>5, ListsType DEF OnToplevelChanged
    <2> QED
      BY <1>2, <1>4, <2>2, <2>3, <2>6 DEF OnToplevelChanged, ClientTypeOK
  <1>5. CASE OnToplevelRemoved(e)
    <2>1. e.handle \in Nat
      BY <1>1, <1>5, EventOfKind DEF OnToplevelRemoved, RemovedEvents
    <2>2. cache' \subseteq Toplevel /\ removed' \subseteq Nat
      BY <1>5, <2>1 DEF OnToplevelRemoved, Drop, ClientTypeOK
    <2>3. \A c \in Callers : call[c].list \subseteq Toplevel
      BY DEF ClientTypeOK, Call
    <2>4. [c \in Callers |-> Drop(call[c].list, e.handle)] \in [Callers -> SUBSET Toplevel]
      BY <2>3 DEF Drop
    <2>5. call' \in [Callers -> Call]
      BY <1>5, <2>4, ListsType DEF OnToplevelRemoved
    <2> QED
      BY <1>2, <1>5, <2>2, <2>5 DEF OnToplevelRemoved, ClientTypeOK
  <1>6. CASE OnRequestDone(e)
    <2>1. e.id \in Nat /\ e.rev \in Nat
      BY <1>1, <1>6, EventOfKind DEF OnRequestDone, DoneEvents
    <2>2. finishing' \in [id : Nat, reply : Reply]
      BY <1>6, <2>1, ReplyType DEF OnRequestDone
    <2>3. clientRevision' \in Nat
      BY <1>6, <2>1 DEF OnRequestDone, RaisedTo, ClientTypeOK
    <2> QED
      BY <1>2, <1>6, <2>2, <2>3 DEF OnRequestDone, ClientTypeOK
  <1>7. CASE OnRequestFailed(e)
    <2>1. e.code \in Codes
      BY <1>1, <1>7, EventOfKind DEF OnRequestFailed, FailedEvents
    <2>2. FailedReply(e.code) \in Reply
      BY <2>1, ReplyType
    <2>3. /\ call' \in [Callers -> Call] /\ pending' \subseteq Callers
          /\ resizeProgress' \subseteq Progress
      BY <1>7, <2>2, FinishType DEF OnRequestFailed
    <2> QED
      BY <1>2, <1>7, <2>3 DEF OnRequestFailed, ClientTypeOK
  <1>8. CASE OnResizeConfigured(e)
    <2>1. e.id \in Nat /\ e.configured \in SizeOrNone /\ NoSize \in SizeOrNone
      BY <1>1, <1>8, EventOfKind DEF OnResizeConfigured, SizeOrNone, ConfiguredEvents
    <2>2. resizeProgress' \subseteq Progress
      BY <1>8, <2>1, ObservedType DEF OnResizeConfigured
    <2> QED
      BY <1>2, <1>8, <2>2 DEF OnResizeConfigured, ClientTypeOK
  <1>9. CASE OnResizeDone(e)
    <2>1. e \in ResizeDoneEvents
      BY <1>1, <1>9, EventOfKind DEF OnResizeDone
    <2>2. /\ e.id \in Nat /\ e.rev \in Nat
          /\ e.configured \in SizeOrNone /\ e.committed \in SizeOrNone
      BY <2>1 DEF ResizeDoneEvents, SizeOrNone
    <2>3. finishing' \in [id : Nat, reply : Reply]
      BY <1>9, <2>1, <2>2, ReplyType DEF OnResizeDone
    <2>4. clientRevision' \in Nat
      BY <1>9, <2>2 DEF OnResizeDone, RaisedTo, ClientTypeOK
    <2>5. resizeProgress' \subseteq Progress
      BY <1>9, <2>2, ObservedType DEF OnResizeDone
    <2> QED
      BY <1>2, <1>9, <2>3, <2>4, <2>5 DEF OnResizeDone, ClientTypeOK
  <1>10. CASE OnFrame(e)
    <2>1. e \in FrameEvents
      BY <1>1, <1>10, EventOfKind DEF OnFrame
    <2>2. frames' \in Seq(FrameEvents)
      BY <1>10, <2>1 DEF OnFrame, ClientTypeOK
    <2> QED
      BY <1>2, <1>10, <2>2 DEF OnFrame, ClientTypeOK
  <1>11. CASE OnCaptureAuthorized(e)
    <2>1. DoneReply(0) \in Reply
      BY ReplyType
    <2>2. /\ call' \in [Callers -> Call] /\ pending' \subseteq Callers
          /\ resizeProgress' \subseteq Progress
      BY <1>11, <2>1, FinishType DEF OnCaptureAuthorized
    <2> QED
      BY <1>2, <1>11, <2>2 DEF OnCaptureAuthorized, ClientTypeOK
  <1> QED
    BY <1>3, <1>4, <1>5, <1>6, <1>7, <1>8, <1>9, <1>10, <1>11 DEF Dispatch

LEMMA FinishHandlerType ==
    ASSUME WireTypeOK, ClientTypeOK, FinishHandler
    PROVE  WireTypeOK' /\ ClientTypeOK'
  <1> USE DEF FinishHandler, wireVars, cacheVars, linkVars
  <1>1. WireTypeOK'
    BY DEF WireTypeOK
  <1>2. finishing.reply \in Reply
    BY DEF ClientTypeOK
  <1>3. /\ call' \in [Callers -> Call] /\ pending' \subseteq Callers
        /\ resizeProgress' \subseteq Progress
    BY <1>2, FinishType
  <1>4. finishing' \in [id : Nat, reply : Reply]
    BY ReplyType
  <1> QED
    BY <1>1, <1>3, <1>4 DEF ClientTypeOK

-----------------------------------------------------------------------------
LEMMA BeginType ==
    ASSUME TypeOK, NEW c \in Callers, NEW kind \in RequestKinds, NEW h \in Nat,
           NEW size \in Sizes \cup {BadSize, NoSize}, kind = "resize" => size # NoSize,
           Begin(c, kind, h, size)
    PROVE  WireTypeOK' /\ ClientTypeOK'
  <1> USE DEF Begin, wireVars, cacheVars, linkVars, TypeOK
  <1>1. WireTypeOK'
    BY DEF WireTypeOK
  <1>2. nextRequestID' \in Nat
    BY DEF ClientTypeOK
  <1>3. view[c].rev \in Nat
    BY DEF ClientTypeOK, View
  <1>4. [pc |-> "registered", kind |-> kind, id |-> nextRequestID', handle |-> h,
         rev |-> view[c].rev, size |-> size, list |-> {}, reply |-> NoReply] \in Call
    BY <1>2, <1>3, ReplyType DEF Call, RequestKinds, WindowOps
  <1>5. call' \in [Callers -> Call]
    BY <1>4 DEF ClientTypeOK
  <1> QED
    BY <1>1, <1>2, <1>5 DEF ClientTypeOK

LEMMA PlacedType ==
    ASSUME NEW k \in Call, k.pc # "idle",
           NEW pc \in {"registered", "waiting", "expired"}
    PROVE  [k EXCEPT !.pc = pc] \in Call
  BY DEF Call

LEMMA MergeType ==
    ASSUME NEW cached \in SUBSET Toplevel, NEW gone, NEW snapshot \in SUBSET Toplevel
    PROVE  MergeSnapshot(cached, gone, snapshot) \in SUBSET Toplevel
  BY DEF MergeSnapshot

LEMMA ReceiveType ==
    ASSUME WireTypeOK, ClientTypeOK, NEW c \in Callers, Receive(c)
    PROVE  WireTypeOK' /\ ClientTypeOK'
  <1> USE DEF Receive, wireVars, linkVars
  <1>1. WireTypeOK'
    BY DEF WireTypeOK
  <1>2. call[c].list \in SUBSET Toplevel /\ call[c].reply.rev \in Nat
    BY DEF ClientTypeOK, Call, Reply
  <1>3. cache' \subseteq Toplevel
    BY <1>2, MergeType DEF ClientTypeOK
  <1>4. /\ [rev |-> call[c].reply.rev, windows |-> cache', full |-> TRUE] \in View
        /\ [rev |-> clientRevision, windows |-> cache, full |-> FALSE] \in View
    BY <1>2, <1>3 DEF View, ClientTypeOK
  <1>5. view' \in [Callers -> View]
    BY <1>4 DEF ClientTypeOK
  <1>6. call' \in [Callers -> Call]
    BY NoCallType DEF ClientTypeOK
  <1> QED
    BY <1>1, <1>3, <1>5, <1>6 DEF ClientTypeOK

LEMMA CallerStepsType ==
    ASSUME WireTypeOK, ClientTypeOK, NEW c \in Callers, CallerSteps(c) \/ GivesUp(c)
    PROVE  WireTypeOK' /\ ClientTypeOK'
  <1> USE DEF wireVars, cacheVars, linkVars, quietVars
  <1>1. CASE Issue(c)
    <2>1. RequestOf(c) \in Request
      <3>1. call[c] \in Call /\ call[c].pc = "registered"
        BY <1>1 DEF Issue, ClientTypeOK
      <3> QED
        BY <3>1 DEF RequestOf, Request, Call
    <2>2. WireTypeOK'
      BY <1>1, <2>1 DEF Issue, WireTypeOK
    <2>3. call' \in [Callers -> Call]
      BY <1>1, PlacedType DEF Issue, ClientTypeOK
    <2> QED
      BY <1>1, <2>2, <2>3 DEF Issue, ClientTypeOK
  <1>2. CASE IssueFails(c)
    BY <1>2, NoCallType DEF IssueFails, WireTypeOK, ClientTypeOK
  <1>3. CASE Receive(c)
    BY <1>3, ReceiveType
  <1>4. CASE ReturnClosed(c)
    BY <1>4, NoCallType DEF ReturnClosed, WireTypeOK, ClientTypeOK
  <1>5. CASE ReportTimeout(c)
    BY <1>5, NoCallType DEF ReportTimeout, WireTypeOK, ClientTypeOK
  <1>6. CASE Expire(c)
    <2>1. call' \in [Callers -> Call]
      BY <1>6, NoCallType, PlacedType DEF Expire, Waiting, ClientTypeOK
    <2> QED
      BY <1>6, <2>1 DEF Expire, WireTypeOK, ClientTypeOK
  <1>7. CASE Cancel(c)
    BY <1>7, NoCallType DEF Cancel, WireTypeOK, ClientTypeOK
  <1> QED
    BY <1>1, <1>2, <1>3, <1>4, <1>5, <1>6, <1>7 DEF CallerSteps, GivesUp

LEMMA StartCallType ==
    ASSUME TypeOK, NEW c \in Callers, StartCall(c)
    PROVE  WireTypeOK' /\ ClientTypeOK'
  <1>1. Nameable(c) \subseteq Nat
    <2>1. Handles(view[c].windows) \subseteq Nat
      BY DEF TypeOK, ClientTypeOK, View, Handles, Toplevel
    <2>2. 1 .. nextIndex \subseteq Nat
      BY DEF TypeOK, ShellTypeOK
    <2> QED
      BY <2>1, <2>2 DEF Nameable
  <1>2. Operations \subseteq RequestKinds
    BY ClientAssumption
  <1>3. ASSUME NEW kind \in Operations \ WindowOps, Begin(c, kind, 0, NoSize)
        PROVE  WireTypeOK' /\ ClientTypeOK'
    BY <1>2, <1>3, BeginType DEF WindowOps
  <1>4. ASSUME NEW kind \in (Operations \cap WindowOps) \ {"resize"}, NEW h \in Nameable(c),
               Begin(c, kind, h, NoSize)
        PROVE  WireTypeOK' /\ ClientTypeOK'
    BY <1>1, <1>2, <1>4, BeginType
  <1>5. ASSUME NEW h \in Nameable(c), NEW size \in Sizes \cup {BadSize},
               Begin(c, "resize", h, size)
        PROVE  WireTypeOK' /\ ClientTypeOK'
    <2>1. size # NoSize /\ "resize" \in RequestKinds
      BY SizesAssumption DEF RequestKinds, WindowOps
    <2> QED
      BY <1>1, <1>5, <2>1, BeginType
  <1> QED
    BY <1>3, <1>4, <1>5 DEF StartCall

LEMMA ConnectionType ==
    ASSUME WireTypeOK, ClientTypeOK, TakeFrame \/ Lose \/ CloseStart \/ CloseFinish
    PROVE  WireTypeOK' /\ ClientTypeOK'
  <1> USE DEF wireVars, cacheVars, linkVars
  <1>1. CASE TakeFrame
    <2>1. frames' \in Seq(FrameEvents)
      BY <1>1 DEF TakeFrame, ClientTypeOK
    <2> QED
      BY <1>1, <2>1 DEF TakeFrame, WireTypeOK, ClientTypeOK
  <1>2. CASE Lose
    <2>1. call' \in [Callers -> Call] /\ pending' \subseteq Callers /\ closedFlag' \in BOOLEAN
      BY <1>2, FailAllType DEF Lose
    <2> QED
      BY <1>2, <2>1 DEF Lose, WireTypeOK, ClientTypeOK
  <1>3. CASE CloseStart
    BY <1>3 DEF CloseStart, WireTypeOK, ClientTypeOK
  <1>4. CASE CloseFinish
    <2>1. call' \in [Callers -> Call] /\ pending' \subseteq Callers /\ closedFlag' \in BOOLEAN
      BY <1>4, FailAllType DEF CloseFinish
    <2> QED
      BY <1>4, <2>1 DEF CloseFinish, WireTypeOK, ClientTypeOK
  <1> QED
    BY <1>1, <1>2, <1>3, <1>4

-----------------------------------------------------------------------------
LEMMA ConnectType == ASSUME TypeOK, Connect PROVE TypeOK'
  <1> USE DEF Connect
  <1>1. WireTypeOK'
    BY DEF WireTypeOK
  <1>2. ShellTypeOK'
    BY DEF CreateController, shellVars, windowVars, captureVars, TypeOK, ShellTypeOK
  <1>3. finishing' \in [id : Nat, reply : Reply] /\ frames' \in Seq(FrameEvents)
    BY ReplyType
  <1>4. ClientTypeOK'
    BY <1>3 DEF TypeOK, ClientTypeOK
  <1>5. connections' \in Nat
    BY DEF TypeOK
  <1> QED
    BY <1>1, <1>2, <1>4, <1>5 DEF TypeOK

LEMMA DisconnectType == ASSUME TypeOK, Disconnect PROVE TypeOK'
  <1> USE DEF Disconnect, ControllerDestroyed
  <1>1. WireTypeOK'
    BY DEF WireTypeOK
  <1>2. ShellTypeOK'
    BY DEF KeptAfterDestroy, windowVars, TypeOK, ShellTypeOK
  <1>3. ClientTypeOK'
    BY DEF clientVars, cacheVars, linkVars, TypeOK, ClientTypeOK
  <1> QED
    BY <1>1, <1>2, <1>3 DEF TypeOK

LEMMA NextType == TypeOK /\ [Next]_vars => TypeOK'
  <1> SUFFICES ASSUME TypeOK, [Next]_vars PROVE TypeOK'
    OBVIOUS
  <1>1. CASE Connect
    BY <1>1, ConnectType
  <1>2. CASE Disconnect
    BY <1>2, DisconnectType
  <1>3. CASE ShellStep
    <2>1. WireTypeOK' /\ ShellTypeOK'
      BY <1>3, ShellHandlesType, ApplicationsType DEF ShellStep, TypeOK
    <2>2. ClientTypeOK' /\ connections' \in Nat
      BY <1>3 DEF ShellStep, clientVars, cacheVars, linkVars, TypeOK, ClientTypeOK
    <2> QED
      BY <2>1, <2>2 DEF TypeOK
  <1>4. CASE ClientStep
    <2>1. WireTypeOK' /\ ClientTypeOK'
      BY <1>4, DispatchType, FinishHandlerType, CallerStepsType, StartCallType, ConnectionType
         DEF ClientStep, TypeOK
    <2>2. ShellTypeOK' /\ connections' \in Nat
      BY <1>4 DEF ClientStep, shellVars, windowVars, captureVars, TypeOK, ShellTypeOK
    <2> QED
      BY <2>1, <2>2 DEF TypeOK
  <1>5. CASE UNCHANGED vars
    BY <1>5 DEF vars, wireVars, shellVars, windowVars, captureVars, clientVars, cacheVars,
                linkVars, TypeOK, WireTypeOK, ShellTypeOK, ClientTypeOK
  <1> QED
    BY <1>1, <1>2, <1>3, <1>4, <1>5 DEF Next

\* Every variable of the control plane keeps its type, for any number of
\* windows, callers, requests and connections: in particular a resize without a
\* size is never issued, and every answer carries what its kind carries.
THEOREM TypeCorrect == Spec => []TypeOK
  BY InitType, NextType, PTL DEF Spec

-----------------------------------------------------------------------------
(***************************************************************************)
(* The control plane implements SessionWindows: proof of the refinement    *)
(* under rev <- revision, live <- Live, given <- nextIndex.                *)
(*                                                                         *)
(* A step of the module maps to a step of the session because the window   *)
(* list holds each handle once and no handle above the counter.            *)
(***************************************************************************)
HandlesDistinct ==
    /\ \A i, j \in 1 .. Len(toplevels) : toplevels[i] = toplevels[j] => i = j
    /\ \A i \in 1 .. Len(toplevels) : toplevels[i] <= nextIndex

\* What a client, and a module that changes no window, leave as it is.
SameWindows == UNCHANGED <<toplevels, nextIndex, revision>>

LEMMA SameStutters ==
    ASSUME HandlesDistinct, SameWindows
    PROVE  HandlesDistinct' /\ UNCHANGED Session!sessionVars
  <1>1. Live' = Live
    BY DEF SameWindows, Live
  <1> QED
    BY <1>1 DEF SameWindows, HandlesDistinct, Session!sessionVars

LEMMA InitSession == Init => HandlesDistinct /\ Session!SessionInit
  <1> SUFFICES ASSUME Init PROVE HandlesDistinct /\ Session!SessionInit
    OBVIOUS
  <1>1. toplevels = <<>> /\ nextIndex = 0 /\ revision = 0
    BY DEF Init, ShellInit
  <1>2. Live = {}
    BY <1>1 DEF Live
  <1> QED
    BY <1>1, <1>2 DEF HandlesDistinct, Session!SessionInit

-----------------------------------------------------------------------------
(***************************************************************************)
(* Windows come and go.                                                    *)
(***************************************************************************)
LEMMA AddedOpens ==
    ASSUME ShellTypeOK, HandlesDistinct, SurfaceAdded
    PROVE  HandlesDistinct' /\ Session!Opens
  <1>1. /\ nextIndex' = nextIndex + 1 /\ revision' = revision + 1
        /\ toplevels' = Append(toplevels, nextIndex + 1)
    BY DEF SurfaceAdded, AssignHandle, BumpRevision
  <1>2. toplevels \in Seq(Nat) /\ nextIndex \in Nat /\ Len(toplevels) \in Nat
    BY DEF ShellTypeOK
  <1>3. /\ Len(toplevels') = Len(toplevels) + 1
        /\ toplevels'[Len(toplevels) + 1] = nextIndex + 1
        /\ \A i \in 1 .. Len(toplevels) : toplevels'[i] = toplevels[i]
    BY <1>1, <1>2
  <1>4. \A i \in 1 .. Len(toplevels) : toplevels[i] \in Nat /\ toplevels[i] <= nextIndex
    BY <1>2 DEF HandlesDistinct
  <1>5. HandlesDistinct'
    <2>1. ASSUME NEW i \in 1 .. Len(toplevels'), NEW j \in 1 .. Len(toplevels'),
                 toplevels'[i] = toplevels'[j]
          PROVE  i = j
      <3>1. CASE i \in 1 .. Len(toplevels) /\ j \in 1 .. Len(toplevels)
        BY <1>3, <2>1, <3>1 DEF HandlesDistinct
      <3>2. CASE i = Len(toplevels) + 1 \/ j = Len(toplevels) + 1
        <4>1. nextIndex + 1 # toplevels[i] \/ i = Len(toplevels) + 1
          BY <1>2, <1>3, <1>4
        <4>2. nextIndex + 1 # toplevels[j] \/ j = Len(toplevels) + 1
          BY <1>2, <1>3, <1>4
        <4> QED
          BY <1>2, <1>3, <2>1, <3>2, <4>1, <4>2
      <3> QED
        BY <1>2, <1>3, <3>1, <3>2
    <2>2. ASSUME NEW i \in 1 .. Len(toplevels') PROVE toplevels'[i] <= nextIndex'
      <3>1. CASE i \in 1 .. Len(toplevels)
        BY <1>1, <1>2, <1>3, <1>4, <3>1
      <3>2. CASE i = Len(toplevels) + 1
        BY <1>1, <1>2, <1>3, <3>2
      <3> QED
        BY <1>2, <1>3, <3>1, <3>2
    <2> QED
      BY <2>1, <2>2 DEF HandlesDistinct
  <1>6. Live' = Live \cup {nextIndex + 1}
    <2>1. ASSUME NEW h \in Live PROVE h \in Live'
      <3>1. PICK i \in 1 .. Len(toplevels) : h = toplevels[i]
        BY DEF Live
      <3>2. i \in 1 .. Len(toplevels') /\ h = toplevels'[i]
        BY <1>2, <1>3, <3>1
      <3> QED
        BY <3>2 DEF Live
    <2>2. nextIndex + 1 \in Live'
      <3>1. Len(toplevels) + 1 \in 1 .. Len(toplevels')
        BY <1>2, <1>3
      <3> QED
        BY <1>3, <3>1 DEF Live
    <2>3. ASSUME NEW h \in Live' PROVE h \in Live \cup {nextIndex + 1}
      <3>1. PICK i \in 1 .. Len(toplevels') : h = toplevels'[i]
        BY DEF Live
      <3>2. CASE i \in 1 .. Len(toplevels)
        BY <1>3, <3>1, <3>2 DEF Live
      <3>3. CASE i = Len(toplevels) + 1
        BY <1>3, <3>1, <3>3
      <3> QED
        BY <1>2, <1>3, <3>1, <3>2, <3>3
    <2> QED
      BY <2>1, <2>2, <2>3
  <1> QED
    BY <1>1, <1>5, <1>6 DEF Session!Opens, Session!Rises

\* What is left of a list without its i-th element.
LEMMA WithoutElements ==
    ASSUME NEW s \in Seq(Nat), NEW i \in 1 .. Len(s)
    PROVE  /\ Len(Without(s, i)) = Len(s) - 1
           /\ \A k \in 1 .. Len(s) - 1 :
                 Without(s, i)[k] = s[IF k < i THEN k ELSE k + 1]
  <1>1. Len(s) \in Nat /\ Len(s) - 1 \in Nat
    OBVIOUS
  <1> DEFINE t == [j \in 1 .. Len(s) - 1 |-> IF j < i THEN s[j] ELSE s[j + 1]]
  <1>2. Without(s, i) = t
    BY DEF Without
  <1>3. Len(t) = Len(s) - 1
    <2>1. DOMAIN t = 1 .. Len(s) - 1
      OBVIOUS
    <2>2. ASSUME NEW j \in 1 .. Len(s) - 1
          PROVE  (IF j < i THEN s[j] ELSE s[j + 1]) \in Nat
      BY <1>1
    <2>3. t \in Seq(Nat)
      BY <1>1, <2>2
    <2> QED
      BY <1>1, <2>1, <2>3, LenProperties
  <1>4. ASSUME NEW k \in 1 .. Len(s) - 1 PROVE t[k] = s[IF k < i THEN k ELSE k + 1]
    BY <1>1
  <1> HIDE DEF t
  <1> QED
    BY <1>2, <1>3, <1>4

LEMMA RemovedDisappears ==
    ASSUME ShellTypeOK, HandlesDistinct, NEW i \in 1 .. Len(toplevels), SurfaceRemoved(i)
    PROVE  HandlesDistinct' /\ Session!Disappears(toplevels[i])
  <1> DEFINE n == Len(toplevels) - 1
             From(k) == IF k < i THEN k ELSE k + 1
  <1>1. /\ nextIndex' = nextIndex /\ revision' = revision + 1
        /\ toplevels' = Without(toplevels, i)
    BY DEF SurfaceRemoved, BumpRevision
  <1>2. toplevels \in Seq(Nat) /\ Len(toplevels) \in Nat /\ n \in Nat
    BY DEF ShellTypeOK
  <1>3. Len(toplevels') = n /\ \A k \in 1 .. n : toplevels'[k] = toplevels[From(k)]
    BY <1>1, <1>2, WithoutElements
  <1>4. /\ \A k \in 1 .. n : From(k) \in 1 .. Len(toplevels) /\ From(k) # i
        /\ \A k, l \in 1 .. n : From(k) = From(l) => k = l
    BY <1>2
  <1>5. \A j \in 1 .. Len(toplevels) : j # i => \E k \in 1 .. n : From(k) = j
    <2> TAKE j \in 1 .. Len(toplevels)
    <2> HAVE j # i
    <2>1. CASE j < i
      <3>1. j \in 1 .. n /\ From(j) = j
        BY <1>2, <2>1
      <3> QED
        BY <3>1
    <2>2. CASE j > i
      <3>1. j - 1 \in 1 .. n /\ From(j - 1) = j
        BY <1>2, <2>2
      <3> QED
        BY <3>1
    <2> QED
      BY <1>2, <2>1, <2>2
  <1> HIDE DEF n, From
  <1>6. HandlesDistinct'
    <2>1. ASSUME NEW k \in 1 .. n, NEW l \in 1 .. n, toplevels'[k] = toplevels'[l]
          PROVE  k = l
      <3>1. toplevels[From(k)] = toplevels[From(l)]
        BY <1>3, <2>1
      <3>2. From(k) = From(l)
        BY <1>4, <3>1 DEF HandlesDistinct
      <3> QED
        BY <1>4, <3>2
    <2>2. ASSUME NEW k \in 1 .. n PROVE toplevels'[k] <= nextIndex'
      <3>1. toplevels[From(k)] <= nextIndex
        BY <1>4 DEF HandlesDistinct
      <3> QED
        BY <1>1, <1>3, <3>1
    <2> QED
      BY <1>3, <2>1, <2>2 DEF HandlesDistinct
  <1>7. Live' = Live \ {toplevels[i]}
    <2>1. ASSUME NEW h \in Live' PROVE h \in Live \ {toplevels[i]}
      <3>1. PICK k \in 1 .. n : h = toplevels[From(k)]
        BY <1>3 DEF Live
      <3> QED
        BY <1>4, <3>1 DEF Live, HandlesDistinct
    <2>2. ASSUME NEW h \in Live, h # toplevels[i] PROVE h \in Live'
      <3>1. PICK j \in 1 .. Len(toplevels) : h = toplevels[j]
        BY DEF Live
      <3>2. PICK k \in 1 .. n : From(k) = j
        BY <1>5, <2>2, <3>1
      <3> QED
        BY <1>3, <3>1, <3>2 DEF Live
    <2> QED
      BY <2>1, <2>2
  <1>8. toplevels[i] \in Live
    BY DEF Live
  <1> QED
    BY <1>1, <1>6, <1>7, <1>8 DEF Session!Disappears, Session!Rises

-----------------------------------------------------------------------------
(***************************************************************************)
(* Windows change.                                                         *)
(***************************************************************************)
LEMMA BumpAlters ==
    ASSUME HandlesDistinct, UNCHANGED <<toplevels, nextIndex>>, BumpRevision, NEW h \in Live
    PROVE  HandlesDistinct' /\ Session!Alters(h)
  <1>1. Live' = Live
    BY DEF Live
  <1>2. HandlesDistinct'
    BY DEF HandlesDistinct
  <1> QED
    BY <1>1, <1>2 DEF BumpRevision, Session!Alters, Session!Rises

LEMMA HandlersAlter ==
    ASSUME HandlesDistinct, ShellHandles
    PROVE  HandlesDistinct' /\ [Session!SessionNext]_(Session!sessionVars)
  <1> DEFINE q == Head(toShell)
  <1>1. CASE HandleActivate(q) \/ HandleMove(q)
    <2>1. /\ UNCHANGED <<toplevels, nextIndex>> /\ BumpRevision
          /\ Refusal(q) = {}
      BY <1>1 DEF HandleActivate, HandleMove, windowVars
    <2>2. q.handle \in Live
      BY <1>1, <2>1 DEF Refusal, HandleActivate, HandleMove
    <2>3. HandlesDistinct' /\ Session!Alters(q.handle)
      BY <2>1, <2>2, BumpAlters
    <2> QED
      BY <2>2, <2>3 DEF Session!SessionNext
  <1>2. CASE \/ HandleSnapshot(q) \/ HandleRefused(q) \/ HandleResize(q)
             \/ HandleCloseWindow(q) \/ HandleInput(q) \/ HandleAuthorizeCapture(q)
    <2>1. SameWindows
      BY <1>2 DEF HandleSnapshot, HandleRefused, HandleResize, HandleCloseWindow, HandleInput,
                  HandleAuthorizeCapture, SameWindows, shellVars, windowVars
    <2> QED
      BY <2>1, SameStutters
  <1> QED
    BY <1>1, <1>2 DEF ShellHandles

LEMMA ApplicationsAlter ==
    ASSUME ShellTypeOK, HandlesDistinct, Applications
    PROVE  HandlesDistinct' /\ [Session!SessionNext]_(Session!sessionVars)
  <1>1. CASE SurfaceAdded
    BY <1>1, AddedOpens DEF Session!SessionNext
  <1>2. ASSUME NEW i \in 1 .. Len(toplevels), SurfaceRemoved(i)
        PROVE  HandlesDistinct' /\ Session!SessionNext
    <2>1. HandlesDistinct' /\ Session!Disappears(toplevels[i])
      BY <1>2, RemovedDisappears
    <2>2. toplevels[i] \in Live
      BY DEF Live
    <2> QED
      BY <2>1, <2>2 DEF Session!SessionNext
  <1>3. ASSUME NEW h \in Live, NEW size \in Sizes, SurfaceCommitted(h, size)
        PROVE  HandlesDistinct' /\ [Session!SessionNext]_(Session!sessionVars)
    <2>1. CASE Completes(h, size) = {}
      <3>1. SameWindows
        BY <1>3, <2>1 DEF SurfaceCommitted, SameWindows
      <3> QED
        BY <3>1, SameStutters
    <2>2. CASE Completes(h, size) # {}
      <3>1. UNCHANGED <<toplevels, nextIndex>> /\ BumpRevision
        BY <1>3, <2>2 DEF SurfaceCommitted
      <3>2. HandlesDistinct' /\ Session!Alters(h)
        BY <3>1, BumpAlters
      <3> QED
        BY <3>2 DEF Session!SessionNext
    <2> QED
      BY <2>1, <2>2
  <1>4. ASSUME NEW h \in Live, StateRequested(h)
        PROVE  HandlesDistinct' /\ Session!SessionNext
    <2>1. UNCHANGED <<toplevels, nextIndex>> /\ BumpRevision
      BY <1>4 DEF StateRequested, windowVars
    <2>2. HandlesDistinct' /\ Session!Alters(h)
      BY <2>1, BumpAlters
    <2> QED
      BY <2>2 DEF Session!SessionNext
  <1>5. CASE Frame
    <2>1. SameWindows
      BY <1>5 DEF Frame, SameWindows, windowVars
    <2> QED
      BY <2>1, SameStutters
  <1> QED
    BY <1>1, <1>2, <1>3, <1>4, <1>5 DEF Applications

LEMMA NextSession ==
    TypeOK /\ HandlesDistinct /\ [Next]_vars
        => HandlesDistinct' /\ [Session!SessionNext]_(Session!sessionVars)
  <1> SUFFICES ASSUME TypeOK, HandlesDistinct, [Next]_vars
               PROVE  HandlesDistinct' /\ [Session!SessionNext]_(Session!sessionVars)
    OBVIOUS
  <1>1. CASE ShellStep
    BY <1>1, HandlersAlter, ApplicationsAlter DEF ShellStep, TypeOK
  <1>2. CASE Connect \/ Disconnect \/ ClientStep \/ UNCHANGED vars
    <2>1. SameWindows
      BY <1>2 DEF Connect, CreateController, Disconnect, ControllerDestroyed, ClientStep,
                  SameWindows, vars, shellVars, windowVars
    <2> QED
      BY <2>1, SameStutters
  <1> QED
    BY <1>1, <1>2 DEF Next

\* The control plane implements the session the host's commands are modelled
\* on, for any number of windows, callers, requests and connections: handles are
\* given once, and the revision rises by one with each change (bump_revision,
\* assign_handle).
THEOREM SessionImplemented == Spec => ImplementsSession
  <1>1. Init => TypeOK /\ HandlesDistinct /\ Session!SessionInit
    BY InitType, InitSession
  <1>2. TypeOK /\ HandlesDistinct /\ [Next]_vars
          => TypeOK' /\ HandlesDistinct' /\ [Session!SessionNext]_(Session!sessionVars)
    BY NextType, NextSession
  <1> QED
    BY <1>1, <1>2, PTL DEF Spec, ImplementsSession, Session!SessionSpec

-----------------------------------------------------------------------------
(***************************************************************************)
(* A State whose revision is still the module's lists live windows only:   *)
(* CurrentViewIsLive, for any number of windows, callers and connections.  *)
(*                                                                         *)
(* The property is not inductive.  What makes it hold is that a window     *)
(* which disappears always leaves the client behind the module's revision  *)
(* until the client has heard of the removal: SurfaceRemoved announces the *)
(* removal and then raises the revision, and nothing the client may hear   *)
(* before the announcement carries the new revision.  So a handle in the   *)
(* cache, or in the list of a snapshot in flight, is live, or its removal  *)
(* is on the wire and the client is behind, or the module has no           *)
(* controller to tell and the client is behind.                            *)
(***************************************************************************)
\* The events that carry a revision, and the one they carry.
Revised(e) == e.ev \in {"snapshot", "toplevel_changed", "request_done", "resize_done"}
RevOf(e) == IF e.ev = "toplevel_changed" THEN e.window.rev ELSE e.rev

RemovalAt(i, h) == toClient[i].ev = "toplevel_removed" /\ toClient[i].handle = h
Announced(h) == \E i \in 1 .. Len(toClient) : RemovalAt(i, h)

\* Nothing the client holds, or has handed to a caller, is as new as the module.
Behind ==
    /\ clientRevision < revision
    /\ finishing.reply.rev < revision
    /\ \A c \in Callers : call[c].reply.rev < revision

Severed == ~controller /\ Behind

\* A window the client may still list.
Excused(h) == h \in Live \/ Announced(h) \/ Severed

SilentWithoutController == controller \/ toClient = <<>>

PendingIsUnanswered ==
    \A c \in Callers :
        /\ call[c].pc = "idle" => call[c] = NoCall
        /\ c \in pending => call[c].pc \in {"registered", "waiting"} /\ call[c].reply = NoReply

RevisionIsNewest ==
    /\ clientRevision <= revision
    /\ finishing.reply.rev <= revision
    /\ \A c \in Callers : call[c].reply.rev <= revision /\ view[c].rev <= revision
    /\ \A i \in 1 .. Len(toClient) : Revised(toClient[i]) => RevOf(toClient[i]) <= revision

CacheExcused == \A w \in cache : Excused(w.handle)

ListsExcused ==
    \A c \in Callers : \A w \in call[c].list : w.handle \in removed \/ Excused(w.handle)

ChangesExcused ==
    \A i \in 1 .. Len(toClient) :
        toClient[i].ev = "toplevel_changed" =>
            \/ toClient[i].window.handle \in Live
            \/ \E j \in i + 1 .. Len(toClient) : RemovalAt(j, toClient[i].window.handle)

RemovalsOutrun ==
    \A i \in 1 .. Len(toClient) :
        toClient[i].ev = "toplevel_removed" =>
            /\ Behind
            /\ \A j \in 1 .. i - 1 : Revised(toClient[j]) => RevOf(toClient[j]) < revision

IInv ==
    /\ SilentWithoutController /\ PendingIsUnanswered /\ RevisionIsNewest
    /\ CacheExcused /\ ListsExcused /\ ChangesExcused /\ RemovalsOutrun
    /\ CurrentViewIsLive

-----------------------------------------------------------------------------
LEMMA InitInvariant == Init => IInv
  <1> SUFFICES ASSUME Init PROVE IInv
    OBVIOUS
  <1> USE DEF Init, ClientInit, NoConnection, ShellInit
  <1>1. /\ SilentWithoutController /\ PendingIsUnanswered
        /\ CacheExcused /\ ListsExcused /\ ChangesExcused /\ RemovalsOutrun
    BY DEF SilentWithoutController, PendingIsUnanswered, CacheExcused, ListsExcused,
           ChangesExcused, RemovalsOutrun, NoCall
  <1>2. RevisionIsNewest
    BY DEF RevisionIsNewest, NoCall, NoReply, NoView
  <1>3. CurrentViewIsLive
    BY DEF CurrentViewIsLive, NoView, Handles
  <1> QED
    BY <1>1, <1>2, <1>3 DEF IInv

-----------------------------------------------------------------------------
(***************************************************************************)
(* What the module does when it appends events.                            *)
(***************************************************************************)
\* The events an emitter may append while the windows stay or grow.
Harmless(events) ==
    \A i \in 1 .. Len(events) :
        /\ events[i].ev # "toplevel_removed"
        /\ events[i].ev = "toplevel_changed" => events[i].window.handle \in Live'
        /\ Revised(events[i]) => RevOf(events[i]) <= revision'

LEMMA EmittedAt ==
    ASSUME WireTypeOK, NEW events \in Seq(Event), Emit(events), controller
    PROVE  /\ Len(toClient') = Len(toClient) + Len(events)
           /\ \A i \in 1 .. Len(toClient) : toClient'[i] = toClient[i]
           /\ \A i \in 1 .. Len(toClient') :
                 \/ i \in 1 .. Len(toClient) /\ toClient'[i] = toClient[i]
                 \/ /\ i - Len(toClient) \in 1 .. Len(events)
                    /\ toClient'[i] = events[i - Len(toClient)]
  <1>1. toClient' = toClient \o events
    BY DEF Emit
  <1>2. Len(toClient) \in Nat /\ Len(events) \in Nat
    BY DEF WireTypeOK
  <1> QED
    BY <1>1, <1>2, ConcatProperties DEF WireTypeOK

LEMMA AppendKeeps ==
    ASSUME TypeOK, IInv, NEW events \in Seq(Event), Emit(events), Harmless(events),
           revision' \in Nat, revision' >= revision, Live \subseteq Live',
           controller' = controller, UNCHANGED clientVars
    PROVE  IInv'
  <1> USE DEF clientVars, cacheVars, linkVars
  <1>0. /\ clientRevision \in Nat /\ finishing.reply.rev \in Nat /\ revision \in Nat
        /\ \A c \in Callers : call[c].reply.rev \in Nat /\ view[c].rev \in Nat
    BY DEF TypeOK, ClientTypeOK, ShellTypeOK, Reply, Call, View
  <1>1. SilentWithoutController' /\ PendingIsUnanswered'
    BY DEF IInv, SilentWithoutController, PendingIsUnanswered, Emit
  <1>2. Behind => Behind'
    BY <1>0 DEF Behind
  <1>3. /\ Len(toClient) \in Nat /\ Len(toClient') \in Nat /\ Len(toClient') >= Len(toClient)
        /\ \A i \in 1 .. Len(toClient) : toClient'[i] = toClient[i]
        /\ \A i \in 1 .. Len(toClient') :
              \/ i \in 1 .. Len(toClient) /\ toClient'[i] = toClient[i]
              \/ /\ i - Len(toClient) \in 1 .. Len(events)
                 /\ toClient'[i] = events[i - Len(toClient)]
    <2>1. Len(toClient) \in Nat /\ Len(events) \in Nat
      BY DEF TypeOK, WireTypeOK
    <2>2. CASE controller
      BY <2>1, <2>2, EmittedAt DEF TypeOK
    <2>3. CASE ~controller
      BY <2>1, <2>3 DEF Emit
    <2> QED
      BY <2>2, <2>3
  <1>4. ASSUME NEW h, Excused(h) PROVE Excused(h)'
    <2>1. CASE h \in Live
      BY <2>1 DEF Excused
    <2>2. CASE Announced(h)
      BY <2>2, <1>3 DEF Excused, Announced, RemovalAt
    <2>3. CASE Severed
      BY <2>3, <1>2 DEF Excused, Severed
    <2> QED
      BY <1>4, <2>1, <2>2, <2>3 DEF Excused
  <1>5. CacheExcused' /\ ListsExcused'
    BY <1>4 DEF IInv, CacheExcused, ListsExcused
  <1>6. RevisionIsNewest'
    <2>1. ASSUME NEW i \in 1 .. Len(toClient'), Revised(toClient'[i])
          PROVE  RevOf(toClient'[i]) <= revision'
      <3>1. CASE i \in 1 .. Len(toClient) /\ toClient'[i] = toClient[i]
        <4>1. toClient[i] \in Event
          BY <3>1 DEF TypeOK, WireTypeOK
        <4>2. RevOf(toClient[i]) \in Nat
          BY <2>1, <3>1, <4>1, EventOfKind
             DEF Revised, RevOf, SnapshotEvents, ChangedEvents, DoneEvents, ResizeDoneEvents,
                 Toplevel
        <4> QED
          BY <1>0, <2>1, <3>1, <4>2 DEF IInv, RevisionIsNewest
      <3> QED
        BY <1>3, <2>1, <3>1 DEF Harmless
    <2>2. /\ clientRevision' <= revision' /\ finishing'.reply.rev <= revision'
          /\ \A c \in Callers : call'[c].reply.rev <= revision' /\ view'[c].rev <= revision'
      BY <1>0 DEF IInv, RevisionIsNewest
    <2> QED
      BY <2>1, <2>2 DEF RevisionIsNewest, Revised, RevOf
  <1>7. ChangesExcused'
    <2> SUFFICES ASSUME NEW i \in 1 .. Len(toClient'), toClient'[i].ev = "toplevel_changed"
                 PROVE  \/ toClient'[i].window.handle \in Live'
                        \/ \E j \in i + 1 .. Len(toClient') :
                              RemovalAt(j, toClient[i].window.handle)'
      BY DEF ChangesExcused, RemovalAt
    <2>1. CASE i \in 1 .. Len(toClient) /\ toClient'[i] = toClient[i]
      <3>1. CASE toClient[i].window.handle \in Live
        BY <2>1, <3>1
      <3>2. ASSUME NEW j \in i + 1 .. Len(toClient), RemovalAt(j, toClient[i].window.handle)
            PROVE  j \in i + 1 .. Len(toClient') /\ RemovalAt(j, toClient[i].window.handle)'
        <4>1. j \in 1 .. Len(toClient) /\ j \in i + 1 .. Len(toClient')
          BY <1>3, <2>1
        <4> QED
          BY <1>3, <2>1, <3>2, <4>1 DEF RemovalAt
      <3>3. \/ toClient[i].window.handle \in Live
            \/ \E j \in i + 1 .. Len(toClient) : RemovalAt(j, toClient[i].window.handle)
        BY <2>1 DEF IInv, ChangesExcused
      <3> QED
        BY <3>1, <3>2, <3>3
    <2> QED
      BY <1>3, <2>1 DEF Harmless
  <1>8. RemovalsOutrun'
    <2> SUFFICES ASSUME NEW i \in 1 .. Len(toClient'), toClient'[i].ev = "toplevel_removed"
                 PROVE  /\ Behind'
                        /\ \A j \in 1 .. i - 1 :
                              Revised(toClient'[j]) => RevOf(toClient'[j]) < revision'
      BY DEF RemovalsOutrun, Revised, RevOf
    <2>1. i \in 1 .. Len(toClient) /\ toClient'[i] = toClient[i]
      BY <1>3 DEF Harmless
    <2>2. Behind'
      BY <1>2, <2>1 DEF IInv, RemovalsOutrun
    <2>3. ASSUME NEW j \in 1 .. i - 1, Revised(toClient'[j])
          PROVE  RevOf(toClient'[j]) < revision'
      <3>1. j \in 1 .. Len(toClient) /\ toClient'[j] = toClient[j]
        BY <1>3, <2>1
      <3>2. toClient[j] \in Event
        BY <3>1 DEF TypeOK, WireTypeOK
      <3>3. RevOf(toClient[j]) \in Nat
        BY <2>3, <3>1, <3>2, EventOfKind
           DEF Revised, RevOf, SnapshotEvents, ChangedEvents, DoneEvents, ResizeDoneEvents,
               Toplevel
      <3>4. \A k \in 1 .. i - 1 : Revised(toClient[k]) => RevOf(toClient[k]) < revision
        BY <2>1 DEF IInv, RemovalsOutrun
      <3>5. RevOf(toClient[j]) < revision
        BY <2>3, <3>1, <3>4
      <3> QED
        BY <1>0, <3>1, <3>3, <3>5
    <2> QED
      BY <2>2, <2>3
  <1>9. CurrentViewIsLive'
    BY <1>0 DEF IInv, CurrentViewIsLive, RevisionIsNewest
  <1> QED
    BY <1>1, <1>5, <1>6, <1>7, <1>8, <1>9 DEF IInv

-----------------------------------------------------------------------------
(***************************************************************************)
(* The steps of the module.                                                *)
(***************************************************************************)
LEMMA HarmlessOne ==
    ASSUME NEW a, a.ev # "toplevel_removed",
           a.ev = "toplevel_changed" => a.window.handle \in Live',
           Revised(a) => RevOf(a) <= revision'
    PROVE  Harmless(<<a>>)
  BY DEF Harmless

LEMMA HarmlessTwo ==
    ASSUME NEW a, a.ev # "toplevel_removed",
           a.ev = "toplevel_changed" => a.window.handle \in Live',
           Revised(a) => RevOf(a) <= revision',
           NEW b, b.ev # "toplevel_removed",
           b.ev = "toplevel_changed" => b.window.handle \in Live',
           Revised(b) => RevOf(b) <= revision'
    PROVE  Harmless(<<a, b>>)
  <1> DEFINE s == <<a, b>>
  <1>1. Len(s) = 2 /\ s[1] = a /\ s[2] = b
    OBVIOUS
  <1>2. ASSUME NEW i \in 1 .. Len(s) PROVE i = 1 \/ i = 2
    BY <1>1
  <1> QED
    BY <1>1, <1>2 DEF Harmless

LEMMA HandlesKeep ==
    ASSUME TypeOK, IInv, ShellHandles, UNCHANGED clientVars
    PROVE  IInv'
  <1> DEFINE q == Head(toShell)
  <1> USE DEF shellVars, windowVars, captureVars
  <1>1. q.id \in Nat /\ revision \in Nat
    BY DEF ShellHandles, TypeOK, WireTypeOK, ShellTypeOK, Request
  <1>2. CASE HandleSnapshot(q)
    <2> DEFINE windows == [i \in 1 .. Len(toplevels) |->
                             Changed(toplevels[i], activated, mapped, revision)]
               start == <<[ev |-> "snapshot", rev |-> revision]>>
               list == start \o windows \o <<Done(q.id, revision)>>
    <2>1. /\ windows \in Seq(Event) /\ start \in Seq(Event) /\ start \o windows \in Seq(Event)
          /\ <<Done(q.id, revision)>> \in Seq(Event)
      <3>1. windows \in Seq(Event)
        BY ChangedType DEF TypeOK, ShellTypeOK
      <3>2. start \in Seq(Event) /\ <<Done(q.id, revision)>> \in Seq(Event)
        BY <1>1, EventTypes, OneEvent
      <3> QED
        BY <3>1, <3>2, ConcatProperties
    <2>2. list \in Seq(Event)
      BY <2>1, ConcatProperties
    <2>3. Live' = Live /\ revision' = revision /\ controller' = controller /\ Emit(list)
      BY <1>2 DEF HandleSnapshot, Live
    <2>4. Harmless(list)
      <3>1. ASSUME NEW i \in 1 .. Len(toplevels)
            PROVE  /\ windows[i].ev = "toplevel_changed"
                   /\ windows[i].window.handle \in Live
                   /\ windows[i].window.rev = revision
        BY DEF Changed, Live
      <3>2. Len(toplevels) \in Nat /\ Len(windows) = Len(toplevels) /\ Len(start) = 1
        BY DEF TypeOK, ShellTypeOK
      <3>3. /\ Len(list) = Len(toplevels) + 2
            /\ \A i \in 1 .. Len(list) :
                  \/ list[i] = [ev |-> "snapshot", rev |-> revision]
                  \/ i - 1 \in 1 .. Len(toplevels) /\ list[i] = windows[i - 1]
                  \/ list[i] = Done(q.id, revision)
        <4>1. /\ Len(start \o windows) = Len(toplevels) + 1
              /\ \A i \in 1 .. Len(toplevels) + 1 :
                    (start \o windows)[i] = IF i <= 1 THEN start[i] ELSE windows[i - 1]
          BY <2>1, <3>2, ConcatProperties
        <4>2. /\ Len(list) = Len(toplevels) + 2
              /\ \A i \in 1 .. Len(toplevels) + 2 :
                    list[i] = IF i <= Len(toplevels) + 1 THEN (start \o windows)[i]
                              ELSE <<Done(q.id, revision)>>[i - (Len(toplevels) + 1)]
          BY <2>1, <3>2, <4>1, ConcatProperties
        <4>3. ASSUME NEW i \in 1 .. Len(toplevels) + 2
              PROVE  \/ list[i] = [ev |-> "snapshot", rev |-> revision]
                     \/ i - 1 \in 1 .. Len(toplevels) /\ list[i] = windows[i - 1]
                     \/ list[i] = Done(q.id, revision)
          <5>1. CASE i = 1
            BY <3>2, <4>1, <4>2, <5>1
          <5>2. CASE i > 1 /\ i <= Len(toplevels) + 1
            BY <3>2, <4>1, <4>2, <5>2
          <5>3. CASE i = Len(toplevels) + 2
            BY <3>2, <4>2, <5>3
          <5> QED
            BY <3>2, <5>1, <5>2, <5>3
        <4> QED
          BY <4>2, <4>3
      <3>4. ASSUME NEW i \in 1 .. Len(list)
            PROVE  /\ list[i].ev # "toplevel_removed"
                   /\ list[i].ev = "toplevel_changed" => list[i].window.handle \in Live'
                   /\ Revised(list[i]) => RevOf(list[i]) <= revision'
        <4>1. CASE list[i] = [ev |-> "snapshot", rev |-> revision]
          BY <1>1, <2>3, <4>1 DEF RevOf
        <4>2. CASE i - 1 \in 1 .. Len(toplevels) /\ list[i] = windows[i - 1]
          BY <1>1, <2>3, <3>1, <4>2 DEF RevOf
        <4>3. CASE list[i] = Done(q.id, revision)
          BY <1>1, <2>3, <4>3 DEF RevOf, Done
        <4> QED
          BY <3>3, <4>1, <4>2, <4>3
      <3> QED
        BY <3>4 DEF Harmless
    <2>5. /\ Live \subseteq Live' /\ revision' \in Nat /\ revision' >= revision
          /\ controller' = controller
      BY <1>1, <2>3
    <2> QED
      BY <2>2, <2>3, <2>4, <2>5, AppendKeeps, Zenon
  <1>3. CASE HandleRefused(q)
    <2>1. PICK code \in Refusal(q) : Emit(<<Failed(q.id, code)>>)
      BY <1>3 DEF HandleRefused
    <2>2. code \in Codes /\ Live' = Live /\ revision' = revision /\ controller' = controller
      BY <1>3 DEF HandleRefused, Refusal, Codes, Live
    <2>3. Harmless(<<Failed(q.id, code)>>)
      BY HarmlessOne DEF Failed, Revised
    <2>4. <<Failed(q.id, code)>> \in Seq(Event)
      BY <1>1, <2>2, EventTypes, OneEvent
    <2>5. /\ Live \subseteq Live' /\ revision' \in Nat /\ revision' >= revision
          /\ controller' = controller
      BY <1>1, <2>2
    <2> QED
      BY <2>1, <2>3, <2>4, <2>5, AppendKeeps, Zenon
  <1>4. ASSUME Refusal(q) = {}, BumpRevision, UNCHANGED <<toplevels, controller>>, NEW active,
               Emit(<<Changed(q.handle, active, mapped, revision'), Done(q.id, revision')>>),
               q.kind \in WindowOps
        PROVE  IInv'
    <2> DEFINE change == Changed(q.handle, active, mapped, revision')
               done == Done(q.id, revision')
    <2>1. /\ q.handle \in Live /\ q.handle \in Nat
          /\ Live' = Live /\ controller' = controller /\ revision' \in Nat /\ revision' >= revision
      <3>1. q.handle \in Live
        BY <1>4 DEF Refusal, WindowOps
      <3>2. q.handle \in Nat
        BY DEF ShellHandles, TypeOK, WireTypeOK, Request
      <3>3. Live' = Live
        BY <1>4 DEF Live
      <3> QED
        BY <1>1, <1>4, <3>1, <3>2, <3>3 DEF BumpRevision
    <2>2. /\ change.ev = "toplevel_changed" /\ change.window.handle = q.handle
          /\ change.window.rev = revision' /\ done.ev = "request_done" /\ done.rev = revision'
      BY DEF Changed, Done
    <2>3. Harmless(<<change, done>>)
      BY <2>1, <2>2, HarmlessTwo DEF RevOf
    <2>4. <<change, done>> \in Seq(Event)
      BY <1>1, <2>1, ChangedType, EventTypes, TwoEvents
    <2>5. Live \subseteq Live'
      BY <2>1
    <2> QED
      BY <1>4, <2>1, <2>3, <2>4, <2>5, AppendKeeps, Zenon
  <1>5. CASE HandleActivate(q)
    BY <1>4, <1>5 DEF HandleActivate, ActivateToplevel, WindowOps
  <1>6. CASE HandleMove(q)
    BY <1>4, <1>6 DEF HandleMove, WindowOps
  <1>7. CASE HandleResize(q)
    <2> DEFINE configured == [ev |-> "resize_configured", id |-> q.id, configured |-> q.size]
    <2>1. Emit(<<configured>>) /\ Live' = Live /\ revision' = revision /\ controller' = controller
      BY <1>7 DEF HandleResize, Live
    <2>2. q.size \in Sizes
      <3>1. q \in Request
        BY DEF ShellHandles, TypeOK, WireTypeOK
      <3> QED
        BY <1>7, <3>1 DEF HandleResize, Refusal, Request
    <2>3. <<configured>> \in Seq(Event)
      BY <1>1, <2>2, EventTypes, OneEvent
    <2>4. Harmless(<<configured>>)
      BY HarmlessOne DEF Revised
    <2>5. /\ Live \subseteq Live' /\ revision' \in Nat /\ revision' >= revision
          /\ controller' = controller
      BY <1>1, <2>1
    <2> QED
      BY <2>1, <2>3, <2>4, <2>5, AppendKeeps, Zenon
  <1>8. CASE HandleCloseWindow(q) \/ HandleInput(q)
    <2>1. Emit(<<Done(q.id, revision)>>) /\ Live' = Live /\ revision' = revision /\ controller' = controller
      BY <1>8 DEF HandleCloseWindow, HandleInput, Live
    <2>2. <<Done(q.id, revision)>> \in Seq(Event)
      BY <1>1, EventTypes, OneEvent
    <2>3. Harmless(<<Done(q.id, revision)>>)
      BY <1>1, <2>1, HarmlessOne DEF Done, RevOf
    <2>5. /\ Live \subseteq Live' /\ revision' \in Nat /\ revision' >= revision
          /\ controller' = controller
      BY <1>1, <2>1
    <2> QED
      BY <2>1, <2>2, <2>3, <2>5, AppendKeeps, Zenon
  <1>9. CASE HandleAuthorizeCapture(q)
    <2> DEFINE granted == [ev |-> "capture_authorized", id |-> q.id]
               done == Done(q.id, revision)
    <2>1. Emit(<<granted, done>>) /\ Live' = Live /\ revision' = revision /\ controller' = controller
      BY <1>9 DEF HandleAuthorizeCapture, Live
    <2>2. <<granted, done>> \in Seq(Event)
      BY <1>1, EventTypes, TwoEvents
    <2>3. /\ granted.ev = "capture_authorized" /\ done.ev = "request_done"
          /\ done.rev = revision
      BY DEF Done
    <2>4. Harmless(<<granted, done>>)
      BY <1>1, <2>1, <2>3, HarmlessTwo DEF Revised, RevOf
    <2>5. /\ Live \subseteq Live' /\ revision' \in Nat /\ revision' >= revision
          /\ controller' = controller
      BY <1>1, <2>1
    <2> QED
      BY <2>1, <2>2, <2>4, <2>5, AppendKeeps, Zenon
  <1> QED
    BY <1>2, <1>3, <1>5, <1>6, <1>7, <1>8, <1>9 DEF ShellHandles

LEMMA GrowthKeeps ==
    ASSUME TypeOK, IInv, UNCHANGED clientVars,
           \/ SurfaceAdded
           \/ \E h \in Live, size \in Sizes : SurfaceCommitted(h, size)
           \/ \E h \in Live : StateRequested(h)
           \/ Frame
    PROVE  IInv'
  <1> USE DEF windowVars, captureVars
  <1>1. revision \in Nat /\ Live \subseteq Nat
    BY DEF TypeOK, ShellTypeOK, Live
  <1>2. CASE SurfaceAdded
    <2> DEFINE h == AssignHandle
               change == Changed(h, activated, mapped, revision')
    <2>1. /\ revision' \in Nat /\ revision' >= revision /\ controller' = controller
          /\ Emit(<<change>>) /\ h \in Nat /\ toplevels' = Append(toplevels, h)
      BY <1>1, <1>2 DEF SurfaceAdded, BumpRevision, AssignHandle, TypeOK, ShellTypeOK
    <2>2. Live \subseteq Live' /\ h \in Live'
      <3>1. /\ Len(toplevels) \in Nat /\ Len(toplevels') = Len(toplevels) + 1
            /\ \A i \in 1 .. Len(toplevels) : toplevels'[i] = toplevels[i]
            /\ toplevels'[Len(toplevels) + 1] = h
        BY <2>1 DEF TypeOK, ShellTypeOK
      <3>2. ASSUME NEW i \in 1 .. Len(toplevels) PROVE i \in 1 .. Len(toplevels')
        BY <3>1
      <3>3. Len(toplevels) + 1 \in 1 .. Len(toplevels')
        BY <3>1
      <3> QED
        BY <3>1, <3>2, <3>3 DEF Live
    <2>3. <<change>> \in Seq(Event)
      BY <2>1, ChangedType, OneEvent
    <2>4. Harmless(<<change>>)
      BY <2>1, <2>2, HarmlessOne DEF Changed, RevOf
    <2> QED
      BY <2>1, <2>2, <2>3, <2>4, AppendKeeps, Zenon
  <1>3. ASSUME NEW h \in Live, NEW size \in Sizes, SurfaceCommitted(h, size)
        PROVE  IInv'
    <2>1. Live' = Live /\ controller' = controller
      BY <1>3 DEF SurfaceCommitted, Live
    <2>2. CASE Completes(h, size) = {}
      <3>1. revision' = revision /\ toClient' = toClient
        BY <1>3, <2>2 DEF SurfaceCommitted
      <3>2. Emit(<<>>) /\ <<>> \in Seq(Event)
        BY <3>1, ConcatEmptySeq DEF Emit, TypeOK, WireTypeOK
      <3>3. Harmless(<<>>)
        BY DEF Harmless
      <3>4. Live \subseteq Live' /\ revision' \in Nat /\ revision' >= revision
        BY <1>1, <2>1, <3>1
      <3> QED
        BY <2>1, <3>2, <3>3, <3>4, AppendKeeps, Zenon
    <2>3. CASE Completes(h, size) # {}
      <3>1. PICK r \in Completes(h, size) :
               /\ BumpRevision
               /\ Emit(<<Changed(h, activated, mapped', revision'),
                         [ev |-> "resize_done", id |-> r.id, configured |-> r.configured,
                          committed |-> size, rev |-> revision']>>)
        BY <1>3, <2>3 DEF SurfaceCommitted
      <3> DEFINE change == Changed(h, activated, mapped', revision')
                 done == [ev |-> "resize_done", id |-> r.id, configured |-> r.configured,
                          committed |-> size, rev |-> revision']
      <3>2. revision' \in Nat /\ revision' >= revision /\ Live \subseteq Live'
        BY <1>1, <2>1, <3>1 DEF BumpRevision
      <3>3. r.id \in Nat /\ r.configured \in Sizes
        BY DEF Completes, RequestsFor, TypeOK, ShellTypeOK, PendingResize
      <3>4. change \in Event /\ done \in Event
        BY <1>1, <3>2, <3>3, ChangedType, EventTypes
      <3>5. <<change, done>> \in Seq(Event)
        BY <3>4, TwoEvents
      <3>6. /\ change.ev = "toplevel_changed" /\ change.window.handle = h
            /\ change.window.rev = revision' /\ done.ev = "resize_done" /\ done.rev = revision'
        BY DEF Changed
      <3>7. Harmless(<<change, done>>)
        BY <2>1, <3>2, <3>6, HarmlessTwo DEF RevOf
      <3> QED
        BY <2>1, <3>1, <3>2, <3>5, <3>7, AppendKeeps, Zenon
    <2> QED
      BY <2>2, <2>3
  <1>4. ASSUME NEW h \in Live, StateRequested(h) PROVE IInv'
    <2> DEFINE change == Changed(h, activated, mapped, revision')
    <2>1. /\ revision' \in Nat /\ revision' >= revision /\ controller' = controller
          /\ Emit(<<change>>) /\ Live' = Live
      BY <1>1, <1>4 DEF StateRequested, BumpRevision, Live
    <2>2. <<change>> \in Seq(Event)
      BY <1>1, <2>1, ChangedType, OneEvent
    <2>3. Harmless(<<change>>)
      BY <2>1, HarmlessOne DEF Changed, RevOf
    <2>4. Live \subseteq Live'
      BY <2>1
    <2> QED
      BY <2>1, <2>2, <2>3, <2>4, AppendKeeps, Zenon
  <1>5. CASE Frame
    <2> DEFINE frame == [ev |-> "frame", captureID |-> IF capturePending THEN captureID ELSE 0,
                         seq |-> frameSequence']
    <2>1. /\ revision' \in Nat /\ revision' >= revision /\ controller' = controller
          /\ Emit(<<frame>>) /\ Live \subseteq Live'
      BY <1>1, <1>5 DEF Frame, Live
    <2>2. (IF capturePending THEN captureID ELSE 0) \in Nat /\ frameSequence' \in Nat
      BY <1>5 DEF Frame, TypeOK, ShellTypeOK
    <2>3. <<frame>> \in Seq(Event)
      BY <2>2, EventTypes, OneEvent
    <2>4. Harmless(<<frame>>)
      BY HarmlessOne DEF Revised
    <2> QED
      BY <2>1, <2>3, <2>4, AppendKeeps, Zenon
  <1> QED
    BY <1>2, <1>3, <1>4, <1>5

LEMMA JoinedEvents ==
    ASSUME NEW a \in Event, NEW b \in Event
    PROVE  /\ <<a>> \o <<b>> \in Seq(Event) /\ Len(<<a>> \o <<b>>) = 2
           /\ (<<a>> \o <<b>>)[1] = a /\ (<<a>> \o <<b>>)[2] = b
  <1> DEFINE s == <<a>>
             t == <<b>>
  <1>1. s \in Seq(Event) /\ t \in Seq(Event) /\ Len(s) = 1 /\ Len(t) = 1 /\ s[1] = a /\ t[1] = b
    OBVIOUS
  <1> HIDE DEF s, t
  <1>2. /\ s \o t \in Seq(Event) /\ Len(s \o t) = 2 /\ (s \o t)[1] = a /\ (s \o t)[2] = b
    BY <1>1, ConcatProperties
  <1> QED
    BY <1>2 DEF s, t

\* The revision rises after the removal is announced, so the client is behind
\* from this step on, told or not.
LEMMA RemovalKeeps ==
    ASSUME TypeOK, IInv, UNCHANGED clientVars,
           NEW k \in 1 .. Len(toplevels), SurfaceRemoved(k)
    PROVE  IInv'
  <1> USE DEF clientVars, cacheVars, linkVars
  <1> PICK h : h = toplevels[k]
    OBVIOUS
  <1> PICK n : n = Len(toClient)
    OBVIOUS
  <1> DEFINE removal == [ev |-> "toplevel_removed", handle |-> h]
  <1>1. /\ clientRevision \in Nat /\ finishing.reply.rev \in Nat /\ revision \in Nat
        /\ \A c \in Callers : call[c].reply.rev \in Nat /\ view[c].rev \in Nat
        /\ n \in Nat /\ h \in Nat
    BY DEF TypeOK, ClientTypeOK, ShellTypeOK, WireTypeOK, Reply, Call, View
  <1>2. revision' = revision + 1 /\ controller' = controller
    BY DEF SurfaceRemoved, BumpRevision
  <1>3. Behind'
    BY <1>1, <1>2 DEF IInv, RevisionIsNewest, Behind
  <1>4. ASSUME NEW x \in Live PROVE x = h \/ x \in Live'
    <2>1. PICK i \in 1 .. Len(toplevels) : x = toplevels[i]
      BY DEF Live
    <2>2. Len(toplevels) \in Nat
      BY DEF TypeOK, ShellTypeOK
    <2>3. toplevels' = Without(toplevels, k)
      BY DEF SurfaceRemoved
    <2>4. Len(toplevels') = Len(toplevels) - 1
      BY <2>2, <2>3 DEF Without
    <2>5. CASE i < k
      <3>1. i \in 1 .. Len(toplevels) - 1
        BY <2>2, <2>5
      <3>2. toplevels'[i] = x
        BY <2>1, <2>3, <2>5, <3>1 DEF Without
      <3> QED
        BY <2>4, <3>1, <3>2 DEF Live
    <2>6. CASE i > k
      <3>1. i - 1 \in 1 .. Len(toplevels) - 1 /\ ~(i - 1 < k) /\ (i - 1) + 1 = i
        BY <2>2, <2>6
      <3>2. toplevels'[i - 1] = x
        BY <2>1, <2>3, <3>1 DEF Without
      <3> QED
        BY <2>4, <3>1, <3>2 DEF Live
    <2> QED
      BY <2>1, <2>5, <2>6
  <1>5. SilentWithoutController' /\ PendingIsUnanswered'
    BY DEF IInv, SilentWithoutController, PendingIsUnanswered, SurfaceRemoved, Emit
  <1>6. CASE ~controller
    <2>1. toClient = <<>> /\ toClient' = <<>>
      BY <1>6 DEF IInv, SilentWithoutController, SurfaceRemoved, Emit
    <2>2. Severed'
      BY <1>2, <1>3, <1>6 DEF Severed
    <2>3. CacheExcused' /\ ListsExcused' /\ ChangesExcused' /\ RemovalsOutrun'
      BY <2>1, <2>2 DEF CacheExcused, ListsExcused, ChangesExcused, RemovalsOutrun, Excused
    <2>4. RevisionIsNewest'
      BY <1>1, <1>2, <2>1 DEF IInv, RevisionIsNewest
    <2>5. CurrentViewIsLive'
      BY <1>1, <1>2 DEF IInv, RevisionIsNewest, CurrentViewIsLive
    <2> QED
      BY <1>5, <2>3, <2>4, <2>5 DEF IInv
  <1>7. CASE controller
    <2>0. \E events \in Seq(Event) :
             /\ Emit(events)
             /\ Len(events) \in {1, 2}
             /\ events[Len(events)] = removal
             /\ Len(events) = 2 => events[1].ev = "request_failed"
      <3> DEFINE failures == {Failed(r.id, "window_not_found") : r \in RequestsFor(h)}
      <3>0. removal \in Event
        BY <1>1, EventTypes
      <3>1. CASE failures = {}
        <4>1. Emit(<<removal>>)
          BY <3>1 DEF SurfaceRemoved
        <4> DEFINE alone == <<removal>>
        <4>2. /\ alone \in Seq(Event) /\ Len(alone) = 1 /\ alone[1] = removal
          BY <3>0, OneEvent
        <4>3. Emit(alone)
          BY <4>1
        <4> HIDE DEF alone
        <4>4. Len(alone) \in {1, 2} /\ alone[Len(alone)] = removal /\ Len(alone) # 2
          BY <4>2
        <4> QED
          BY <4>2, <4>3, <4>4, Zenon
      <3>2. CASE failures # {}
        <4>1. PICK r \in RequestsFor(h) :
                 Emit(<<Failed(r.id, "window_not_found")>> \o <<removal>>)
          BY <3>2 DEF SurfaceRemoved
        <4> DEFINE failure == Failed(r.id, "window_not_found")
                   events == <<failure>> \o <<removal>>
        <4>2. r.id \in Nat
          BY DEF RequestsFor, TypeOK, ShellTypeOK, PendingResize
        <4>3. "window_not_found" \in Codes
          BY DEF Codes
        <4>4. failure \in Event /\ failure.ev = "request_failed"
          BY <4>2, <4>3, EventTypes DEF Failed
        <4>5. events \in Seq(Event) /\ Len(events) = 2
              /\ events[1] = failure /\ events[2] = removal
          <5> HIDE DEF failure, removal
          <5> QED
            BY <3>0, <4>4, JoinedEvents, Zenon
        <4>6. Emit(events)
          BY <4>1
        <4> HIDE DEF events
        <4> QED
          BY <4>4, <4>5, <4>6
      <3> QED
        BY <3>1, <3>2
    <2> PICK events \in Seq(Event) :
             /\ Emit(events)
             /\ Len(events) \in {1, 2}
             /\ events[Len(events)] = removal
             /\ Len(events) = 2 => events[1].ev = "request_failed"
      BY <2>0
    <2> PICK m : m = Len(events)
      OBVIOUS
    <2>1. /\ Len(toClient') = n + m /\ m \in {1, 2}
          /\ \A i \in 1 .. n : toClient'[i] = toClient[i]
          /\ toClient'[n + m] = removal
          /\ m = 2 => toClient'[n + 1].ev = "request_failed"
      <3>1. WireTypeOK
        BY DEF TypeOK
      <3>2. /\ Len(toClient') = n + m
            /\ \A i \in 1 .. n : toClient'[i] = toClient[i]
            /\ \A i \in 1 .. Len(toClient') :
                  \/ i \in 1 .. n /\ toClient'[i] = toClient[i]
                  \/ i - n \in 1 .. m /\ toClient'[i] = events[i - n]
        BY <1>7, <3>1, EmittedAt
      <3>3. toClient'[n + m] = events[m]
        <4>1. n + m \in 1 .. Len(toClient') /\ n + m \notin 1 .. n /\ (n + m) - n = m
          BY <1>1, <3>2
        <4> QED
          BY <3>2, <4>1
      <3>4. m = 2 => toClient'[n + 1] = events[1]
        <4>1. m = 2 => n + 1 \in 1 .. Len(toClient') /\ n + 1 \notin 1 .. n /\ (n + 1) - n = 1
          BY <1>1, <3>2
        <4> QED
          BY <3>2, <4>1
      <3> QED
        BY <3>2, <3>3, <3>4
    <2>2. ASSUME NEW i \in 1 .. Len(toClient')
          PROVE  \/ i \in 1 .. n
                 \/ i = n + m
                 \/ i = n + 1 /\ toClient'[i].ev = "request_failed"
      BY <1>1, <2>1
    <2>3. n + m \in 1 .. Len(toClient') /\ RemovalAt(n + m, h)'
      BY <1>1, <2>1 DEF RemovalAt
    <2>4. ASSUME NEW x, Excused(x) PROVE Excused(x)'
      <3>1. CASE x \in Live
        BY <1>4, <2>3, <3>1 DEF Excused, Announced, RemovalAt
      <3>2. CASE Announced(x)
        BY <1>1, <2>1, <3>2 DEF Excused, Announced, RemovalAt
      <3>3. CASE Severed
        BY <1>7, <3>3 DEF Severed
      <3> QED
        BY <2>4, <3>1, <3>2, <3>3 DEF Excused
    <2>5. CacheExcused' /\ ListsExcused'
      BY <2>4 DEF IInv, CacheExcused, ListsExcused
    <2>6. ASSUME NEW i \in 1 .. n, Revised(toClient[i])
          PROVE  RevOf(toClient[i]) < revision'
      <3>1. toClient[i] \in Event
        BY DEF TypeOK, WireTypeOK
      <3>2. RevOf(toClient[i]) \in Nat
        BY <2>6, <3>1, EventOfKind
           DEF Revised, RevOf, SnapshotEvents, ChangedEvents, DoneEvents, ResizeDoneEvents,
               Toplevel
      <3> QED
        BY <1>1, <1>2, <2>6, <3>2 DEF IInv, RevisionIsNewest
    <2>7. ASSUME NEW i \in 1 .. Len(toClient'), Revised(toClient'[i])
          PROVE  RevOf(toClient'[i]) < revision'
      <3>1. i \in 1 .. n
        BY <2>1, <2>2, <2>7 DEF Revised
      <3>2. toClient'[i] = toClient[i]
        BY <2>1, <3>1
      <3> QED
        BY <2>6, <2>7, <3>1, <3>2
    <2>8. RevisionIsNewest'
      <3>1. ASSUME NEW i \in 1 .. Len(toClient'), Revised(toClient'[i])
            PROVE  RevOf(toClient'[i]) <= revision'
        <4>1. i \in 1 .. n
          BY <2>1, <2>2, <3>1 DEF Revised
        <4>2. toClient[i] \in Event /\ toClient'[i] = toClient[i]
          BY <2>1, <4>1 DEF TypeOK, WireTypeOK
        <4>3. RevOf(toClient'[i]) \in Nat
          BY <3>1, <4>2, EventOfKind
             DEF Revised, RevOf, SnapshotEvents, ChangedEvents, DoneEvents, ResizeDoneEvents,
                 Toplevel
        <4>4. RevOf(toClient'[i]) < revision'
          BY <2>7, <3>1
        <4> QED
          BY <1>1, <1>2, <4>3, <4>4
      <3>2. /\ clientRevision' <= revision' /\ finishing'.reply.rev <= revision'
            /\ \A c \in Callers : call'[c].reply.rev <= revision' /\ view'[c].rev <= revision'
        BY <1>1, <1>2 DEF IInv, RevisionIsNewest
      <3> QED
        BY <3>1, <3>2 DEF RevisionIsNewest, Revised, RevOf
    <2>9. ChangesExcused'
      <3> SUFFICES ASSUME NEW i \in 1 .. Len(toClient'), toClient'[i].ev = "toplevel_changed"
                   PROVE  \/ toClient'[i].window.handle \in Live'
                          \/ \E j \in i + 1 .. Len(toClient') :
                                RemovalAt(j, toClient[i].window.handle)'
        BY DEF ChangesExcused, RemovalAt
      <3>1. i \in 1 .. n /\ toClient'[i] = toClient[i]
        BY <2>1, <2>2
      <3>2. CASE toClient[i].window.handle \in Live
        <4>1. n + m \in i + 1 .. Len(toClient')
          BY <1>1, <2>1, <3>1
        <4> QED
          BY <1>4, <2>3, <3>1, <3>2, <4>1 DEF RemovalAt
      <3>3. ASSUME NEW j \in i + 1 .. n, RemovalAt(j, toClient[i].window.handle)
            PROVE  j \in i + 1 .. Len(toClient') /\ RemovalAt(j, toClient[i].window.handle)'
        <4>1. j \in 1 .. n /\ j \in i + 1 .. Len(toClient')
          BY <1>1, <2>1, <3>1
        <4> QED
          BY <2>1, <3>1, <3>3, <4>1 DEF RemovalAt
      <3>4. \/ toClient[i].window.handle \in Live
            \/ \E j \in i + 1 .. n : RemovalAt(j, toClient[i].window.handle)
        BY <3>1 DEF IInv, ChangesExcused
      <3> QED
        BY <3>2, <3>3, <3>4
    <2>10. RemovalsOutrun'
      <3> SUFFICES ASSUME NEW i \in 1 .. Len(toClient'), NEW j \in 1 .. i - 1,
                          Revised(toClient'[j])
                   PROVE  RevOf(toClient'[j]) < revision'
        BY <1>3 DEF RemovalsOutrun, Revised, RevOf
      <3>1. j \in 1 .. Len(toClient')
        BY <1>1, <2>1
      <3> QED
        BY <2>7, <3>1
    <2>11. CurrentViewIsLive'
      BY <1>1, <1>2 DEF IInv, RevisionIsNewest, CurrentViewIsLive
    <2> QED
      BY <1>5, <2>5, <2>8, <2>9, <2>10, <2>11 DEF IInv
  <1> QED
    BY <1>6, <1>7

-----------------------------------------------------------------------------
(***************************************************************************)
(* The steps of the client.                                                *)
(***************************************************************************)
\* A step that hears nothing and hands out no State: answers only move on.
LEMMA QuietKeeps ==
    ASSUME TypeOK, TypeOK', IInv, PendingIsUnanswered',
           UNCHANGED <<toClient, toplevels, revision, controller, cache, removed,
                       clientRevision, view>>,
           finishing'.reply.rev \in {finishing.reply.rev, 0},
           \A c \in Callers :
              /\ call'[c].list \subseteq call[c].list
              /\ call'[c].reply.rev \in {call[c].reply.rev, finishing.reply.rev, 0}
    PROVE  IInv'
  <1>1. /\ clientRevision \in Nat /\ finishing.reply.rev \in Nat /\ revision \in Nat
        /\ \A c \in Callers : call[c].reply.rev \in Nat
    BY DEF TypeOK, ClientTypeOK, ShellTypeOK, Reply, Call
  <1>2. Live' = Live /\ SilentWithoutController'
    BY DEF IInv, SilentWithoutController, Live
  <1>3. Behind => Behind'
    <2> SUFFICES ASSUME Behind PROVE Behind'
      OBVIOUS
    <2>1. clientRevision' < revision' /\ finishing'.reply.rev < revision'
      BY <1>1 DEF Behind
    <2>2. ASSUME NEW c \in Callers PROVE call'[c].reply.rev < revision'
      BY <1>1 DEF Behind
    <2> QED
      BY <2>1, <2>2 DEF Behind
  <1>4. ASSUME NEW h, Excused(h) PROVE Excused(h)'
    BY <1>2, <1>3, <1>4 DEF Excused, Announced, RemovalAt, Severed
  <1>5. CacheExcused'
    BY <1>4 DEF IInv, CacheExcused
  <1>6. ListsExcused'
    BY <1>4 DEF IInv, ListsExcused
  <1>7. RevisionIsNewest'
    <2>1. clientRevision' <= revision' /\ finishing'.reply.rev <= revision'
      BY <1>1 DEF IInv, RevisionIsNewest
    <2>2. ASSUME NEW c \in Callers
          PROVE  call'[c].reply.rev <= revision' /\ view'[c].rev <= revision'
      BY <1>1 DEF IInv, RevisionIsNewest
    <2>3. ASSUME NEW i \in 1 .. Len(toClient'), Revised(toClient'[i])
          PROVE  RevOf(toClient'[i]) <= revision'
      BY <2>3 DEF IInv, RevisionIsNewest
    <2> QED
      BY <2>1, <2>2, <2>3 DEF RevisionIsNewest, Revised, RevOf
  <1>8. ChangesExcused'
    BY <1>2 DEF IInv, ChangesExcused, RemovalAt
  <1>9. RemovalsOutrun'
    BY <1>3 DEF IInv, RemovalsOutrun, Revised, RevOf
  <1>10. CurrentViewIsLive'
    BY <1>2 DEF IInv, CurrentViewIsLive
  <1> QED
    BY <1>2, <1>5, <1>6, <1>7, <1>8, <1>9, <1>10 DEF IInv

\* What a handler may do to the calls in flight.
CallsDeliver(e) ==
    \A c \in Callers :
       /\ c \notin pending => call'[c] = call[c]
       /\ call'[c].pc = call[c].pc
       /\ call'[c].reply.rev = call[c].reply.rev \/ call'[c].reply.rev = 0
       /\ c \in pending' => call'[c].reply = call[c].reply
       /\ \A w \in call'[c].list :
             \/ w \in call[c].list
             \/ e.ev = "toplevel_changed" /\ w = e.window

\* What every handler does with the event it takes.
Delivers(e) ==
    /\ \/ clientRevision' = clientRevision
       \/ Revised(e) /\ clientRevision' = RevOf(e)
    /\ \/ finishing' = finishing
       \/ Revised(e) /\ finishing'.reply.rev = RevOf(e)
    /\ \A w \in cache' : \/ w \in cache /\ ~(e.ev = "toplevel_removed" /\ e.handle = w.handle)
                         \/ e.ev = "toplevel_changed" /\ w = e.window
    /\ removed \subseteq removed'
    /\ e.ev = "toplevel_removed" => e.handle \in removed'
    /\ CallsDeliver(e)
    /\ pending' \subseteq pending

LEMMA DeliveryKeeps ==
    ASSUME TypeOK, TypeOK', IInv, toClient # <<>>, toClient' = Tail(toClient),
           Delivers(Head(toClient)), UNCHANGED <<toplevels, revision, controller, view>>
    PROVE  IInv'
  <1> PICK e : e = Head(toClient)
    OBVIOUS
  <1> PICK n : n = Len(toClient)
    OBVIOUS
  <1>1. /\ clientRevision \in Nat /\ finishing.reply.rev \in Nat /\ revision \in Nat
        /\ \A c \in Callers : call[c].reply.rev \in Nat
    BY DEF TypeOK, ClientTypeOK, ShellTypeOK, Reply, Call
  <1>2. /\ n \in Nat /\ n >= 1 /\ Len(toClient') = n - 1 /\ toClient[1] = e
        /\ \A i \in 1 .. n - 1 : toClient'[i] = toClient[i + 1]
    BY HeadTailProperties DEF TypeOK, WireTypeOK
  <1>3. ASSUME NEW i \in 1 .. Len(toClient')
        PROVE  i + 1 \in 1 .. n /\ toClient'[i] = toClient[i + 1]
    BY <1>2
  <1>4. controller /\ controller' /\ Live' = Live
    BY DEF IInv, SilentWithoutController, Live
  <1>5. PendingIsUnanswered'
    BY DEF IInv, PendingIsUnanswered, Delivers, CallsDeliver
  <1>6. Revised(e) => RevOf(e) \in Nat /\ RevOf(e) <= revision
    <2>1. 1 \in 1 .. Len(toClient) /\ e \in Event
      BY <1>2 DEF TypeOK, WireTypeOK
    <2>2. Revised(e) => RevOf(e) \in Nat
      BY <2>1, EventOfKind
         DEF Revised, RevOf, SnapshotEvents, ChangedEvents, DoneEvents, ResizeDoneEvents,
             Toplevel
    <2> QED
      BY <1>2, <2>1, <2>2 DEF IInv, RevisionIsNewest
  <1>7. RevisionIsNewest'
    <2>1. clientRevision' <= revision' /\ finishing'.reply.rev <= revision'
      BY <1>1, <1>6 DEF IInv, RevisionIsNewest, Delivers, CallsDeliver
    <2>2. ASSUME NEW c \in Callers
          PROVE  call'[c].reply.rev <= revision' /\ view'[c].rev <= revision'
      BY <1>1 DEF IInv, RevisionIsNewest, Delivers, CallsDeliver
    <2>3. ASSUME NEW i \in 1 .. Len(toClient'), Revised(toClient'[i])
          PROVE  RevOf(toClient'[i]) <= revision'
      BY <1>3, <2>3 DEF IInv, RevisionIsNewest
    <2> QED
      BY <2>1, <2>2, <2>3 DEF RevisionIsNewest, Revised, RevOf
  <1>8. ASSUME NEW h, Excused(h), ~(e.ev = "toplevel_removed" /\ e.handle = h)
        PROVE  Excused(h)'
    <2>1. CASE h \in Live
      BY <1>4, <2>1 DEF Excused
    <2>2. CASE Announced(h)
      <3>1. PICK i \in 1 .. n : RemovalAt(i, h)
        BY <2>2 DEF Announced
      <3>2. i # 1
        BY <1>2, <1>8, <3>1 DEF RemovalAt
      <3>3. i - 1 \in 1 .. Len(toClient') /\ (i - 1) + 1 = i
        BY <1>2, <3>2
      <3>4. toClient'[i - 1] = toClient[i]
        BY <1>3, <3>3
      <3> QED
        BY <3>1, <3>3, <3>4 DEF Excused, Announced, RemovalAt
    <2>3. CASE Severed
      BY <1>4, <2>3 DEF Severed
    <2> QED
      BY <1>8, <2>1, <2>2, <2>3 DEF Excused
  <1>9. e.ev = "toplevel_changed" => Excused(e.window.handle)'
    <2> SUFFICES ASSUME e.ev = "toplevel_changed" PROVE Excused(e.window.handle)'
      OBVIOUS
    <2>1. Excused(e.window.handle)
      <3>1. 1 \in 1 .. Len(toClient)
        BY <1>2
      <3>2. \/ e.window.handle \in Live
            \/ \E j \in 1 + 1 .. Len(toClient) : RemovalAt(j, e.window.handle)
        BY <1>2, <3>1 DEF IInv, ChangesExcused
      <3>3. ASSUME NEW j \in 1 + 1 .. Len(toClient) PROVE j \in 1 .. Len(toClient)
        BY <1>2
      <3> QED
        BY <3>2, <3>3 DEF Excused, Announced
    <2>2. PICK h : h = e.window.handle
      OBVIOUS
    <2>3. e.ev # "toplevel_removed"
      OBVIOUS
    <2> QED
      BY <1>8, <2>1, <2>2, <2>3
  <1>10. CacheExcused'
    <2> SUFFICES ASSUME NEW w \in cache' PROVE Excused(w.handle)'
      BY DEF CacheExcused
    <2> QED
      BY <1>8, <1>9 DEF IInv, CacheExcused, Delivers, CallsDeliver
  <1>11. ListsExcused'
    <2> SUFFICES ASSUME NEW c \in Callers, NEW w \in call'[c].list
                 PROVE  w.handle \in removed' \/ Excused(w.handle)'
      BY DEF ListsExcused
    <2> QED
      BY <1>8, <1>9 DEF IInv, ListsExcused, Delivers, CallsDeliver
  <1>12. ChangesExcused'
    <2> SUFFICES ASSUME NEW i \in 1 .. Len(toClient'), toClient'[i].ev = "toplevel_changed"
                 PROVE  \/ toClient'[i].window.handle \in Live'
                        \/ \E j \in i + 1 .. Len(toClient') :
                              /\ toClient'[j].ev = "toplevel_removed"
                              /\ toClient'[j].handle = toClient'[i].window.handle
      BY DEF ChangesExcused, RemovalAt
    <2>1. i + 1 \in 1 .. n /\ toClient'[i] = toClient[i + 1]
      BY <1>3
    <2>2. ASSUME NEW j \in (i + 1) + 1 .. n, RemovalAt(j, toClient[i + 1].window.handle)
          PROVE  \E k \in i + 1 .. Len(toClient') :
                              /\ toClient'[k].ev = "toplevel_removed"
                              /\ toClient'[k].handle = toClient'[i].window.handle
      <3>1. j - 1 \in i + 1 .. Len(toClient') /\ j - 1 \in 1 .. Len(toClient') /\ (j - 1) + 1 = j
        BY <1>2, <2>1
      <3>2. toClient'[j - 1] = toClient[j]
        BY <1>3, <3>1
      <3> QED
        BY <2>1, <2>2, <3>1, <3>2 DEF RemovalAt
    <2>3. \/ toClient[i + 1].window.handle \in Live
          \/ \E j \in (i + 1) + 1 .. n : RemovalAt(j, toClient[i + 1].window.handle)
      BY <2>1 DEF IInv, ChangesExcused
    <2> QED
      BY <1>4, <2>1, <2>2, <2>3
  <1>13. RemovalsOutrun'
    <2> SUFFICES ASSUME NEW i \in 1 .. Len(toClient'), toClient'[i].ev = "toplevel_removed"
                 PROVE  /\ Behind'
                        /\ \A j \in 1 .. i - 1 :
                              Revised(toClient'[j]) => RevOf(toClient'[j]) < revision'
      BY DEF RemovalsOutrun, Revised, RevOf
    <2>1. i + 1 \in 1 .. n /\ toClient'[i] = toClient[i + 1]
      BY <1>3
    <2>2. /\ Behind
          /\ \A j \in 1 .. (i + 1) - 1 : Revised(toClient[j]) => RevOf(toClient[j]) < revision
      BY <2>1 DEF IInv, RemovalsOutrun
    <2>3. Revised(e) => RevOf(e) < revision
      <3>1. 1 \in 1 .. (i + 1) - 1
        BY <1>2
      <3> QED
        BY <1>2, <2>2, <3>1
    <2>4. Behind'
      <3>1. clientRevision' < revision' /\ finishing'.reply.rev < revision'
        BY <1>1, <2>2, <2>3 DEF Behind, Delivers, CallsDeliver
      <3>2. ASSUME NEW c \in Callers PROVE call'[c].reply.rev < revision'
        BY <1>1, <2>2 DEF Behind, Delivers, CallsDeliver
      <3> QED
        BY <3>1, <3>2 DEF Behind
    <2>5. ASSUME NEW j \in 1 .. i - 1, Revised(toClient'[j])
          PROVE  RevOf(toClient'[j]) < revision'
      <3>1. j \in 1 .. Len(toClient') /\ j + 1 \in 1 .. (i + 1) - 1
        BY <1>2
      <3>2. toClient'[j] = toClient[j + 1]
        BY <1>3, <3>1
      <3> QED
        BY <2>2, <2>5, <3>1, <3>2
    <2> QED
      BY <2>4, <2>5
  <1>14. SilentWithoutController' /\ CurrentViewIsLive'
    BY <1>4 DEF IInv, SilentWithoutController, CurrentViewIsLive
  <1> QED
    BY <1>5, <1>7, <1>10, <1>11, <1>12, <1>13, <1>14 DEF IInv

LEMMA ListedDelivers ==
    ASSUME TypeOK, NEW lists, ListsBecome(lists), NEW c \in Callers
    PROVE  /\ c \notin pending => call'[c] = call[c]
           /\ call'[c].pc = call[c].pc /\ call'[c].reply = call[c].reply
           /\ call'[c].list = call[c].list \/ call'[c].list = lists[c]
  <1>1. call[c] \in Call
    BY DEF TypeOK, ClientTypeOK
  <1>2. call'[c] = IF c \in pending /\ call[c].kind = "snapshot"
                   THEN [call[c] EXCEPT !.list = lists[c]] ELSE call[c]
    BY DEF ListsBecome
  <1> QED
    BY <1>1, <1>2 DEF Call

LEMMA FinishDelivers ==
    ASSUME TypeOK, NEW id, NEW r, Finish(id, r), NEW c \in Callers
    PROVE  /\ c \notin pending => call'[c] = call[c]
           /\ call'[c].pc = call[c].pc /\ call'[c].list = call[c].list
           /\ call'[c].reply = call[c].reply \/ call'[c].reply = r
           /\ c \in pending' => call'[c].reply = call[c].reply
           /\ pending' \subseteq pending
  <1>1. call[c] \in Call
    BY DEF TypeOK, ClientTypeOK
  <1>2. call'[c] = IF c \in Owner(id) THEN [call[c] EXCEPT !.reply = r] ELSE call[c]
    BY DEF Finish, Woken
  <1>3. Owner(id) \subseteq pending /\ pending' = pending \ Owner(id)
    BY DEF Finish, Owner
  <1> QED
    BY <1>1, <1>2, <1>3 DEF Call

LEMMA DispatchKeeps ==
    ASSUME TypeOK, TypeOK', IInv, Dispatch, UNCHANGED shellVars
    PROVE  IInv'
  <1> PICK e : e = Head(toClient)
    OBVIOUS
  <1> USE DEF cacheVars, linkVars
  <1>1. /\ toClient # <<>> /\ toClient' = Tail(toClient)
        /\ UNCHANGED <<toplevels, revision, controller, view>>
    BY DEF Dispatch, shellVars, windowVars
  <1>2. clientRevision \in Nat
    BY DEF TypeOK, ClientTypeOK
  <1>3. CASE OnSnapshot(e)
    <2>1. ListsBecome([c \in Callers |-> {}])
      BY <1>3 DEF OnSnapshot
    <2>2. ASSUME NEW c \in Callers
          PROVE  /\ c \notin pending => call'[c] = call[c]
                 /\ call'[c].pc = call[c].pc /\ call'[c].reply = call[c].reply
                 /\ \A w \in call'[c].list : w \in call[c].list
      <3> DEFINE lists == [d \in Callers |-> {}]
      <3>1. lists[c] = {}
        OBVIOUS
      <3> HIDE DEF lists
      <3>2. ListsBecome(lists)
        BY <2>1 DEF lists
      <3> QED
        BY <3>1, <3>2, ListedDelivers
    <2>3. CallsDeliver(e)
      BY <2>2 DEF CallsDeliver
    <2>4. e.ev = "snapshot" /\ clientRevision' = e.rev /\ UNCHANGED <<cache, removed, pending, finishing>>
      BY <1>3 DEF OnSnapshot
    <2>5. Delivers(e)
      BY <2>3, <2>4 DEF Delivers, Revised, RevOf
    <2> QED
      BY <1>1, <2>5, DeliveryKeeps
  <1>4. CASE OnToplevelChanged(e)
    <2>1. ListsBecome([c \in Callers |-> Upsert(call[c].list, e.window)])
      BY <1>4 DEF OnToplevelChanged
    <2>2. ASSUME NEW c \in Callers
          PROVE  /\ c \notin pending => call'[c] = call[c]
                 /\ call'[c].pc = call[c].pc /\ call'[c].reply = call[c].reply
                 /\ \A w \in call'[c].list : w \in call[c].list \/ w = e.window
      <3> DEFINE lists == [d \in Callers |-> Upsert(call[d].list, e.window)]
      <3>1. lists[c] = Upsert(call[c].list, e.window)
        OBVIOUS
      <3> HIDE DEF lists
      <3>2. ListsBecome(lists)
        BY <2>1 DEF lists
      <3>3. /\ c \notin pending => call'[c] = call[c]
            /\ call'[c].pc = call[c].pc /\ call'[c].reply = call[c].reply
            /\ call'[c].list = call[c].list \/ call'[c].list = lists[c]
        BY <3>2, ListedDelivers
      <3> QED
        BY <3>1, <3>3 DEF Upsert
    <2>3. \A w \in cache' : w \in cache \/ w = e.window
      BY <1>4 DEF OnToplevelChanged, Upsert
    <2>4. e.ev = "toplevel_changed" /\ clientRevision' = e.window.rev
          /\ UNCHANGED <<removed, pending, finishing>>
      BY <1>4 DEF OnToplevelChanged
    <2>5. CallsDeliver(e)
      BY <2>2, <2>4 DEF CallsDeliver
    <2>6. Delivers(e)
      BY <2>3, <2>4, <2>5 DEF Delivers, Revised, RevOf
    <2> QED
      BY <1>1, <2>6, DeliveryKeeps
  <1>5. CASE OnToplevelRemoved(e)
    <2>1. ListsBecome([c \in Callers |-> Drop(call[c].list, e.handle)])
      BY <1>5 DEF OnToplevelRemoved
    <2>2. ASSUME NEW c \in Callers
          PROVE  /\ c \notin pending => call'[c] = call[c]
                 /\ call'[c].pc = call[c].pc /\ call'[c].reply = call[c].reply
                 /\ \A w \in call'[c].list : w \in call[c].list
      <3> DEFINE lists == [d \in Callers |-> Drop(call[d].list, e.handle)]
      <3>1. lists[c] = Drop(call[c].list, e.handle)
        OBVIOUS
      <3> HIDE DEF lists
      <3>2. ListsBecome(lists)
        BY <2>1 DEF lists
      <3>3. /\ c \notin pending => call'[c] = call[c]
            /\ call'[c].pc = call[c].pc /\ call'[c].reply = call[c].reply
            /\ call'[c].list = call[c].list \/ call'[c].list = lists[c]
        BY <3>2, ListedDelivers
      <3> QED
        BY <3>1, <3>3 DEF Drop
    <2>3. \A w \in cache' : w \in cache /\ w.handle # e.handle
      BY <1>5 DEF OnToplevelRemoved, Drop
    <2>4. e.ev = "toplevel_removed" /\ removed' = removed \cup {e.handle}
          /\ UNCHANGED <<clientRevision, pending, finishing>>
      BY <1>5 DEF OnToplevelRemoved
    <2>5. CallsDeliver(e)
      BY <2>2 DEF CallsDeliver
    <2>6. Delivers(e)
      BY <2>3, <2>4, <2>5 DEF Delivers
    <2> QED
      BY <1>1, <2>6, DeliveryKeeps
  <1>6. CASE OnRequestDone(e) \/ OnResizeDone(e)
    <2>1. e.ev \in {"request_done", "resize_done"} /\ clientRevision' = RaisedTo(e.rev)
          /\ UNCHANGED <<cache, removed, pending, call>>
      BY <1>6 DEF OnRequestDone, OnResizeDone
    <2>2. finishing'.reply.rev = e.rev
      <3>1. CASE OnRequestDone(e)
        BY <3>1 DEF OnRequestDone, DoneReply, NoReply
      <3>2. CASE OnResizeDone(e)
        BY <3>2 DEF OnResizeDone, ResizedReply
      <3> QED
        BY <1>6, <3>1, <3>2
    <2>3. CallsDeliver(e)
      BY <2>1 DEF CallsDeliver
    <2>4. Revised(e) /\ RevOf(e) = e.rev
      BY <2>1 DEF Revised, RevOf
    <2>5. clientRevision' = clientRevision \/ clientRevision' = e.rev
      BY <2>1 DEF RaisedTo
    <2>6. Delivers(e)
      BY <2>1, <2>2, <2>3, <2>4, <2>5 DEF Delivers
    <2> QED
      BY <1>1, <2>6, DeliveryKeeps
  <1>7. CASE OnRequestFailed(e) \/ OnCaptureAuthorized(e)
    <2>1. PICK r : r.rev = 0 /\ Finish(e.id, r)
      <3>1. (\A code : FailedReply(code).rev = 0) /\ DoneReply(0).rev = 0
        BY DEF FailedReply, DoneReply, NoReply
      <3>2. CASE OnRequestFailed(e)
        BY <3>1, <3>2 DEF OnRequestFailed
      <3>3. CASE OnCaptureAuthorized(e)
        BY <3>1, <3>3 DEF OnCaptureAuthorized
      <3> QED
        BY <1>7, <3>2, <3>3
    <2>2. /\ e.ev \notin {"toplevel_removed", "toplevel_changed"}
          /\ UNCHANGED <<cache, removed, clientRevision, finishing>>
      BY <1>7 DEF OnRequestFailed, OnCaptureAuthorized
    <2>3. ASSUME NEW c \in Callers
          PROVE  /\ c \notin pending => call'[c] = call[c]
                 /\ call'[c].pc = call[c].pc /\ call'[c].list = call[c].list
                 /\ call'[c].reply = call[c].reply \/ call'[c].reply = r
                 /\ c \in pending' => call'[c].reply = call[c].reply
      BY <2>1, FinishDelivers
    <2>4. pending' \subseteq pending
      BY <2>1 DEF Finish
    <2>5. CallsDeliver(e)
      BY <2>1, <2>3 DEF CallsDeliver
    <2>6. Delivers(e)
      BY <2>2, <2>4, <2>5 DEF Delivers
    <2> QED
      BY <1>1, <2>6, DeliveryKeeps
  <1>8. CASE OnResizeConfigured(e) \/ OnFrame(e)
    <2>1. /\ e.ev \notin {"toplevel_removed", "toplevel_changed"}
          /\ UNCHANGED <<cache, removed, clientRevision, finishing, pending, call>>
      BY <1>8 DEF OnResizeConfigured, OnFrame
    <2>2. CallsDeliver(e)
      BY <2>1 DEF CallsDeliver
    <2>3. Delivers(e)
      BY <2>1, <2>2 DEF Delivers
    <2> QED
      BY <1>1, <2>3, DeliveryKeeps
  <1> QED
    BY <1>3, <1>4, <1>5, <1>6, <1>7, <1>8 DEF Dispatch

\* A State is handed out with the revision of the answer, or the client's own.
\* If that is the module's, nobody is behind: every window listed is live.
LEMMA ReceiveKeeps ==
    ASSUME TypeOK, TypeOK', IInv, NEW c \in Callers, Receive(c), UNCHANGED shellVars
    PROVE  IInv'
  <1> USE DEF linkVars, wireVars, shellVars, windowVars
  <1>1. /\ clientRevision \in Nat /\ finishing.reply.rev \in Nat /\ revision \in Nat
        /\ \A d \in Callers : call[d].reply.rev \in Nat /\ view[d].rev \in Nat
        /\ call \in [Callers -> Call] /\ view \in [Callers -> View]
    BY DEF TypeOK, ClientTypeOK, ShellTypeOK, Reply, Call, View
  <1>2. /\ UNCHANGED <<toClient, toplevels, revision, controller, removed, clientRevision,
                       finishing, pending>>
        /\ call' = [call EXCEPT ![c] = NoCall]
    BY DEF Receive, cacheVars
  <1>3. /\ Live' = Live
        /\ \A d \in Callers : call'[d] = IF d = c THEN NoCall ELSE call[d]
    BY <1>1, <1>2 DEF Live
  <1>4. Behind => Behind'
    <2> SUFFICES ASSUME Behind PROVE Behind'
      OBVIOUS
    <2>1. NoCall.reply.rev = 0
      BY DEF NoCall, NoReply
    <2>2. ASSUME NEW d \in Callers PROVE call'[d].reply.rev < revision'
      BY <1>1, <1>2, <1>3, <2>1 DEF Behind
    <2> QED
      BY <1>1, <1>2, <2>2 DEF Behind
  <1>5. ASSUME NEW h, Excused(h) PROVE Excused(h)'
    BY <1>2, <1>3, <1>4, <1>5 DEF Excused, Announced, RemovalAt, Severed
  <1>6. ASSUME NEW w \in cache' PROVE Excused(w.handle)
    <2>1. w \in cache \/ (w \in call[c].list /\ w.handle \notin removed)
      <3>1. CASE cache' = MergeSnapshot(cache, removed, call[c].list)
        BY <3>1 DEF MergeSnapshot
      <3>2. CASE cache' = cache
        BY <3>2
      <3> QED
        BY <3>1, <3>2 DEF Receive
    <2> QED
      BY <2>1 DEF IInv, CacheExcused, ListsExcused
  <1>7. CacheExcused'
    BY <1>5, <1>6 DEF CacheExcused
  <1>8. ListsExcused'
    <2> SUFFICES ASSUME NEW d \in Callers, NEW w \in call'[d].list
                 PROVE  w.handle \in removed' \/ Excused(w.handle)'
      BY DEF ListsExcused
    <2>1. d # c /\ w \in call[d].list
      BY <1>3 DEF NoCall
    <2> QED
      BY <1>2, <1>5, <2>1 DEF IInv, ListsExcused
  <1>9. PendingIsUnanswered' /\ SilentWithoutController'
    <2>1. c \notin pending
      BY DEF IInv, PendingIsUnanswered, Receive
    <2> QED
      BY <1>2, <1>3, <2>1 DEF IInv, PendingIsUnanswered, SilentWithoutController
  <1>10. /\ clientRevision <= revision /\ call[c].reply.rev <= revision
         /\ clientRevision = revision \/ call[c].reply.rev = revision => ~Behind
         /\ \A d \in Callers : view[d].rev <= revision
    BY <1>1 DEF IInv, RevisionIsNewest, Behind
  <1>11. \A d \in Callers :
            \/ view'[d] = view[d]
            \/ /\ view'[d].windows = cache'
               /\ view'[d].rev = clientRevision \/ view'[d].rev = call[c].reply.rev
    BY <1>1 DEF Receive, cacheVars
  <1>12. RevisionIsNewest'
    <2>1. clientRevision' <= revision' /\ finishing'.reply.rev <= revision'
      BY <1>2 DEF IInv, RevisionIsNewest
    <2>2. ASSUME NEW d \in Callers
          PROVE  call'[d].reply.rev <= revision' /\ view'[d].rev <= revision'
      <3>1. NoCall.reply.rev = 0
        BY DEF NoCall, NoReply
      <3>2. call'[d].reply.rev <= revision'
        BY <1>1, <1>2, <1>3, <3>1 DEF IInv, RevisionIsNewest
      <3>3. view'[d].rev <= revision'
        BY <1>2, <1>10, <1>11
      <3> QED
        BY <3>2, <3>3
    <2>3. ASSUME NEW i \in 1 .. Len(toClient'), Revised(toClient'[i])
          PROVE  RevOf(toClient'[i]) <= revision'
      BY <1>2, <2>3 DEF IInv, RevisionIsNewest
    <2> QED
      BY <2>1, <2>2, <2>3 DEF RevisionIsNewest, Revised, RevOf
  <1>13. ChangesExcused' /\ RemovalsOutrun'
    <2>1. ChangesExcused'
      BY <1>2, <1>3 DEF IInv, ChangesExcused, RemovalAt
    <2>2. RemovalsOutrun'
      BY <1>2, <1>4 DEF IInv, RemovalsOutrun, Revised, RevOf
    <2> QED
      BY <2>1, <2>2
  <1>14. CurrentViewIsLive'
    <2> SUFFICES ASSUME NEW d \in Callers, view'[d].rev = revision'
                 PROVE  Handles(view'[d].windows) \subseteq Live'
      BY DEF CurrentViewIsLive, Handles
    <2>1. CASE view'[d] = view[d]
      BY <1>2, <1>3, <2>1 DEF IInv, CurrentViewIsLive
    <2>2. CASE /\ view'[d].windows = cache'
               /\ view'[d].rev = clientRevision \/ view'[d].rev = call[c].reply.rev
      <3>1. ~Behind
        BY <1>2, <1>10, <2>2
      <3>2. ASSUME NEW h, Excused(h) PROVE h \in Live
        <4>1. ~Announced(h)
          BY <3>1 DEF IInv, RemovalsOutrun, Announced, RemovalAt
        <4> QED
          BY <3>1, <3>2, <4>1 DEF Excused, Severed
      <3> QED
        BY <1>3, <1>6, <2>2, <3>2 DEF Handles
    <2> QED
      BY <1>11, <2>1, <2>2
  <1> QED
    BY <1>7, <1>8, <1>9, <1>12, <1>13, <1>14 DEF IInv

\* A caller's own step that hands out no State puts its call in place x.
LEMMA PlacedKeeps ==
    ASSUME TypeOK, TypeOK', IInv, NEW c \in Callers, NEW x, call' = [call EXCEPT ![c] = x],
           UNCHANGED <<toClient, toplevels, revision, controller, cache, removed,
                       clientRevision, finishing, view>>,
           x.list \subseteq call[c].list, x.reply = call[c].reply \/ x.reply = NoReply,
           x.pc = "idle" => x = NoCall,
           c \in pending' => x.pc \in {"registered", "waiting"} /\ x.reply = NoReply,
           pending' \subseteq pending \cup {c}
    PROVE  IInv'
  <1>1. call \in [Callers -> Call] /\ NoReply.rev = 0
    BY DEF TypeOK, ClientTypeOK, NoReply
  <1>2. \A d \in Callers : call'[d] = IF d = c THEN x ELSE call[d]
    BY <1>1
  <1>3. \A d \in Callers :
           /\ call'[d].list \subseteq call[d].list
           /\ call'[d].reply.rev \in {call[d].reply.rev, finishing.reply.rev, 0}
    BY <1>1, <1>2
  <1>4. PendingIsUnanswered'
    <2>1. ASSUME NEW d \in Callers
          PROVE  /\ call'[d].pc = "idle" => call'[d] = NoCall
                 /\ d \in pending' => /\ call'[d].pc \in {"registered", "waiting"}
                                      /\ call'[d].reply = NoReply
      <3>1. CASE d = c
        BY <1>2, <3>1
      <3>2. CASE d # c
        <4>1. call'[d] = call[d] /\ (d \in pending' => d \in pending)
          BY <1>2, <3>2
        <4> QED
          BY <4>1 DEF IInv, PendingIsUnanswered
      <3> QED
        BY <3>1, <3>2
    <2> QED
      BY <2>1 DEF PendingIsUnanswered
  <1>5. finishing'.reply.rev \in {finishing.reply.rev, 0}
    OBVIOUS
  <1> QED
    BY <1>3, <1>4, <1>5, QuietKeeps

LEMMA BeginKeeps ==
    ASSUME TypeOK, TypeOK', IInv, UNCHANGED shellVars, NEW c \in Callers, StartCall(c)
    PROVE  IInv'
  <1>1. ASSUME NEW kind, NEW h, NEW size, Begin(c, kind, h, size) PROVE IInv'
    <2> DEFINE x == [pc |-> "registered", kind |-> kind, id |-> nextRequestID',
                     handle |-> h, rev |-> view[c].rev, size |-> size,
                     list |-> {}, reply |-> NoReply]
    <2>1. x.list = {} /\ x.reply = NoReply /\ x.pc = "registered"
      OBVIOUS
    <2>2. call' = [call EXCEPT ![c] = x] /\ pending' = pending \cup {c}
      BY <1>1 DEF Begin
    <2>3. UNCHANGED <<toClient, toplevels, revision, controller, cache, removed,
                      clientRevision, finishing, view>>
      BY <1>1 DEF Begin, wireVars, cacheVars, linkVars, shellVars, windowVars
    <2> HIDE DEF x
    <2> QED
      BY <2>1, <2>2, <2>3, PlacedKeeps
  <1> QED
    BY <1>1 DEF StartCall

LEMMA CallerKeeps ==
    ASSUME TypeOK, TypeOK', IInv, UNCHANGED shellVars, NEW c \in Callers,
           CallerSteps(c) \/ GivesUp(c)
    PROVE  IInv'
  <1> USE DEF wireVars, cacheVars, linkVars, quietVars, shellVars, windowVars
  <1>1. NoCall.list = {} /\ NoCall.reply = NoReply
    BY DEF NoCall
  <1>2. call[c] \in Call
    BY DEF TypeOK, ClientTypeOK
  <1>3. ASSUME call' = [call EXCEPT ![c] = NoCall], pending' = pending \ {c},
               UNCHANGED <<toClient, toplevels, revision, controller, cache, removed,
                           clientRevision, finishing, view>>
        PROVE  IInv'
    <2>1. c \notin pending' /\ pending' \subseteq pending \cup {c}
      BY <1>3
    <2> QED
      BY <1>1, <1>3, <2>1, PlacedKeeps
  <1>4. CASE Issue(c)
    <2> DEFINE x == [call[c] EXCEPT !.pc = "waiting"]
    <2>1. x.list = call[c].list /\ x.reply = call[c].reply /\ x.pc = "waiting"
      BY <1>2 DEF Call
    <2>2. call' = [call EXCEPT ![c] = x] /\ pending' = pending
      BY <1>4 DEF Issue
    <2>3. UNCHANGED <<toClient, toplevels, revision, controller, cache, removed,
                      clientRevision, finishing, view>>
      BY <1>4 DEF Issue
    <2>4. c \in pending => call[c].reply = NoReply
      BY DEF IInv, PendingIsUnanswered
    <2> HIDE DEF x
    <2> QED
      BY <2>1, <2>2, <2>3, <2>4, PlacedKeeps
  <1>5. CASE IssueFails(c)
    BY <1>3, <1>5 DEF IssueFails
  <1>6. CASE Receive(c)
    BY <1>6, ReceiveKeeps
  <1>7. CASE ReturnClosed(c)
    BY <1>3, <1>7 DEF ReturnClosed
  <1>8. CASE ReportTimeout(c)
    <2>1. /\ call' = [call EXCEPT ![c] = NoCall] /\ pending' = pending
          /\ UNCHANGED <<toClient, toplevels, revision, controller, cache, removed,
                         clientRevision, finishing, view>>
      BY <1>8 DEF ReportTimeout
    <2>2. c \notin pending
      BY <1>8 DEF ReportTimeout, IInv, PendingIsUnanswered
    <2> QED
      BY <1>1, <2>1, <2>2, PlacedKeeps
  <1>9. CASE Expire(c)
    <2>1. CASE call[c].kind = "resize"
      <3> DEFINE x == [call[c] EXCEPT !.pc = "expired"]
      <3>1. x.list = call[c].list /\ x.reply = call[c].reply /\ x.pc = "expired"
        BY <1>2 DEF Call
      <3>2. call' = [call EXCEPT ![c] = x] /\ pending' = pending \ {c}
        BY <1>9, <2>1 DEF Expire
      <3>3. UNCHANGED <<toClient, toplevels, revision, controller, cache, removed,
                        clientRevision, finishing, view>>
        BY <1>9 DEF Expire
      <3> HIDE DEF x
      <3> QED
        BY <3>1, <3>2, <3>3, PlacedKeeps
    <2>2. CASE call[c].kind # "resize"
      BY <1>3, <1>9, <2>2 DEF Expire
    <2> QED
      BY <2>1, <2>2
  <1>10. CASE Cancel(c)
    BY <1>3, <1>10 DEF Cancel
  <1> QED
    BY <1>4, <1>5, <1>6, <1>7, <1>8, <1>9, <1>10 DEF CallerSteps, GivesUp

LEMMA FinishHandlerKeeps ==
    ASSUME TypeOK, TypeOK', IInv, UNCHANGED shellVars, FinishHandler
    PROVE  IInv'
  <1> PICK r : r = finishing.reply
    OBVIOUS
  <1>1. /\ finishing'.reply.rev = 0 /\ Finish(finishing.id, r)
        /\ UNCHANGED <<toClient, toplevels, revision, controller, cache, removed,
                       clientRevision, view>>
    BY DEF FinishHandler, NoReply, wireVars, cacheVars, linkVars, shellVars, windowVars
  <1>2. ASSUME NEW c \in Callers
        PROVE  /\ c \notin pending => call'[c] = call[c]
               /\ call'[c].pc = call[c].pc /\ call'[c].list = call[c].list
               /\ call'[c].reply = call[c].reply \/ call'[c].reply = r
               /\ c \in pending' => call'[c].reply = call[c].reply
               /\ pending' \subseteq pending
    BY <1>1, FinishDelivers
  <1>3. PendingIsUnanswered'
    BY <1>2 DEF IInv, PendingIsUnanswered
  <1>4. \A c \in Callers :
           /\ call'[c].list \subseteq call[c].list
           /\ call'[c].reply.rev \in {call[c].reply.rev, finishing.reply.rev, 0}
    BY <1>2
  <1> QED
    BY <1>1, <1>3, <1>4, QuietKeeps

LEMMA ConnectionKeeps ==
    ASSUME TypeOK, TypeOK', IInv, UNCHANGED shellVars,
           TakeFrame \/ Lose \/ CloseStart \/ CloseFinish
    PROVE  IInv'
  <1> USE DEF wireVars, cacheVars, linkVars, shellVars, windowVars
  <1>1. UNCHANGED <<toClient, toplevels, revision, controller, cache, removed,
                    clientRevision, finishing, view>>
    BY DEF TakeFrame, Lose, CloseStart, CloseFinish
  <1>2. /\ finishing'.reply.rev \in {finishing.reply.rev, 0}
        /\ call \in [Callers -> Call] /\ LostReply.rev = 0
    BY <1>1 DEF TypeOK, ClientTypeOK, LostReply, NoReply
  <1>3. CASE TakeFrame \/ CloseStart
    <2>1. call' = call /\ pending' = pending
      BY <1>3 DEF TakeFrame, CloseStart
    <2>2. PendingIsUnanswered'
      BY <2>1 DEF IInv, PendingIsUnanswered
    <2>3. \A c \in Callers :
             /\ call'[c].list \subseteq call[c].list
             /\ call'[c].reply.rev \in {call[c].reply.rev, finishing.reply.rev, 0}
      BY <2>1
    <2> QED
      BY <1>1, <1>2, <2>2, <2>3, QuietKeeps
  <1>4. CASE Lose \/ CloseFinish
    <2>1. call' = Woken(pending, LostReply) /\ pending' = {}
      BY <1>4 DEF Lose, CloseFinish, FailAll
    <2>2. ASSUME NEW c \in Callers
          PROVE  /\ call'[c].pc = call[c].pc /\ call'[c].list = call[c].list
                 /\ call'[c].reply = call[c].reply \/ call'[c].reply = LostReply
                 /\ c \notin pending => call'[c] = call[c]
      <3>1. call[c] \in Call
        BY <1>2
      <3>2. call'[c] = IF c \in pending THEN [call[c] EXCEPT !.reply = LostReply] ELSE call[c]
        BY <2>1 DEF Woken
      <3> QED
        BY <3>1, <3>2 DEF Call
    <2>3. PendingIsUnanswered'
      BY <2>1, <2>2 DEF IInv, PendingIsUnanswered
    <2>4. \A c \in Callers :
             /\ call'[c].list \subseteq call[c].list
             /\ call'[c].reply.rev \in {call[c].reply.rev, finishing.reply.rev, 0}
      BY <1>2, <2>2
    <2> QED
      BY <1>1, <1>2, <2>3, <2>4, QuietKeeps
  <1> QED
    BY <1>3, <1>4

\* A fresh client knows no window, and nobody has a call in flight.
LEMMA ConnectKeeps == ASSUME TypeOK, IInv, Connect PROVE IInv'
  <1>1. /\ toClient' = <<>> /\ cache' = {} /\ pending' = {} /\ call' = call /\ view' = view
        /\ clientRevision' = 0 /\ finishing'.reply.rev = 0 /\ controller'
        /\ revision' = revision /\ toplevels' = toplevels
    BY DEF Connect, CreateController, windowVars, NoReply
  <1>2. \A c \in Callers : call[c] = NoCall
    BY DEF IInv, PendingIsUnanswered, Connect, Idle
  <1>3. revision \in Nat
    BY DEF TypeOK, ShellTypeOK
  <1>4. /\ SilentWithoutController' /\ PendingIsUnanswered'
        /\ CacheExcused' /\ ListsExcused' /\ ChangesExcused' /\ RemovalsOutrun'
    <2>1. SilentWithoutController' /\ PendingIsUnanswered'
      BY <1>1, <1>2 DEF SilentWithoutController, PendingIsUnanswered
    <2>2. CacheExcused' /\ ListsExcused'
      BY <1>1, <1>2 DEF CacheExcused, ListsExcused, NoCall
    <2>3. ChangesExcused' /\ RemovalsOutrun'
      BY <1>1 DEF ChangesExcused, RemovalsOutrun
    <2> QED
      BY <2>1, <2>2, <2>3
  <1>5. RevisionIsNewest'
    BY <1>1, <1>2, <1>3 DEF IInv, RevisionIsNewest, NoCall, NoReply
  <1>6. CurrentViewIsLive'
    BY <1>1 DEF IInv, CurrentViewIsLive, Live
  <1> QED
    BY <1>4, <1>5, <1>6 DEF IInv

\* The removals that were on the wire are never heard, but whoever waited for
\* one is behind, and stays behind.
LEMMA DisconnectKeeps == ASSUME TypeOK, IInv, Disconnect PROVE IInv'
  <1>1. /\ toClient' = <<>> /\ ~controller' /\ controller
        /\ UNCHANGED <<revision, toplevels, clientVars>>
    BY DEF Disconnect, ControllerDestroyed, windowVars
  <1> USE DEF clientVars, cacheVars, linkVars
  <1>2. Live' = Live /\ (Behind => Behind')
    BY <1>1 DEF Live, Behind
  <1>3. ASSUME NEW h, Excused(h) PROVE Excused(h)'
    <2>1. Announced(h) => Behind
      BY DEF IInv, RemovalsOutrun, Announced, RemovalAt
    <2> QED
      BY <1>1, <1>2, <1>3, <2>1 DEF Excused, Severed
  <1>4. CacheExcused' /\ ListsExcused'
    BY <1>1, <1>3 DEF IInv, CacheExcused, ListsExcused
  <1>5. SilentWithoutController' /\ PendingIsUnanswered' /\ ChangesExcused' /\ RemovalsOutrun'
    BY <1>1 DEF IInv, SilentWithoutController, PendingIsUnanswered, ChangesExcused,
                RemovalsOutrun
  <1>6. RevisionIsNewest' /\ CurrentViewIsLive'
    BY <1>1, <1>2 DEF IInv, RevisionIsNewest, CurrentViewIsLive
  <1> QED
    BY <1>4, <1>5, <1>6 DEF IInv

LEMMA NextInvariant == TypeOK /\ IInv /\ [Next]_vars => IInv'
  <1> SUFFICES ASSUME TypeOK, IInv, [Next]_vars PROVE IInv'
    OBVIOUS
  <1>1. TypeOK'
    BY NextType
  <1>2. CASE Connect
    BY <1>2, ConnectKeeps
  <1>3. CASE Disconnect
    BY <1>3, DisconnectKeeps
  <1>4. CASE ShellStep
    BY <1>4, HandlesKeep, GrowthKeeps, RemovalKeeps DEF ShellStep, Applications
  <1>5. CASE ClientStep
    BY <1>1, <1>5, DispatchKeeps, FinishHandlerKeeps, BeginKeeps, CallerKeeps, ConnectionKeeps
       DEF ClientStep
  <1>6. CASE UNCHANGED vars
    <2>1. /\ UNCHANGED <<toClient, toplevels, revision, controller, cache, removed,
                         clientRevision, view, call, finishing, pending>>
      BY <1>6 DEF vars, wireVars, shellVars, windowVars, clientVars, cacheVars
    <2>2. PendingIsUnanswered'
      BY <2>1 DEF IInv, PendingIsUnanswered
    <2>3. /\ finishing'.reply.rev \in {finishing.reply.rev, 0}
          /\ \A c \in Callers :
                /\ call'[c].list \subseteq call[c].list
                /\ call'[c].reply.rev \in {call[c].reply.rev, finishing.reply.rev, 0}
      BY <2>1
    <2> QED
      BY <1>1, <2>1, <2>2, <2>3, QuietKeeps
  <1> QED
    BY <1>2, <1>3, <1>4, <1>5, <1>6 DEF Next

\* A State whose revision is still the module's lists only live windows, for
\* any number of windows, callers, requests and connections: revision_matches
\* protects every handle a caller has read from a State.
THEOREM ViewsLive == Spec => []CurrentViewIsLive
  <1>1. Init => TypeOK /\ IInv
    BY InitType, InitInvariant
  <1>2. TypeOK /\ IInv /\ [Next]_vars => TypeOK' /\ IInv'
    BY NextType, NextInvariant
  <1>3. IInv => CurrentViewIsLive
    BY DEF IInv
  <1> QED
    BY <1>1, <1>2, <1>3, PTL DEF Spec

-----------------------------------------------------------------------------
(***************************************************************************)
(* What a caller is told is the answer to what it asked: a resize reports  *)
(* its own size, a window of the caller's State is never reported missing, *)
(* a request is answered once, and a frame follows the authorization it    *)
(* carries.  All of it for any number of callers, windows, requests and    *)
(* connections.                                                            *)
(*                                                                         *)
(* The argument is about the identifiers.  The client numbers the requests *)
(* of a connection 1, 2, ... and gives each number to one call; a new      *)
(* connection starts again at 1, when nothing of the last is left.  So     *)
(* every message, pending resize, progress entry and answer with the id of *)
(* a call in flight was made for that call (Fits), a request is in one of  *)
(* its places at a time (OnePlace), and a request the module has not read  *)
(* cannot be the authorization a frame carries (FramesLag).                *)
(***************************************************************************)

InFlight(c) == call[c].pc # "idle"

\* The events that answer a request or report on it.
HasId(e) == e.ev \in {"request_done", "request_failed", "resize_configured", "resize_done",
                      "capture_authorized"}

Ids == 1 .. nextRequestID

\* Every id in use was given by this client, to one call.
Numbered ==
    /\ \A c \in Callers : InFlight(c) => call[c].id \in Ids /\ call[c].rev = view[c].rev
    /\ \A c, d \in Callers : InFlight(c) /\ InFlight(d) /\ call[c].id = call[d].id => c = d
    /\ \A q \in Range(toShell) : q.id \in Ids
    /\ \A r \in requests : r.id \in Ids
    /\ \A e \in Range(toClient) : HasId(e) => e.id \in Ids
    /\ \A p \in resizeProgress : p.id \in Ids
    /\ HandlerRunning => finishing.id \in Ids
    /\ controller \/ (requests = {} /\ ~capturePending)

(***************************************************************************)
(* What is under way with a call's id belongs to the call.                 *)
(***************************************************************************)
\* The reply the caller of k may be given, if windows are those of its State.
ReplyFits(k, windows, r) ==
    /\ (k.kind = "resize" /\ r.status = "done")
          => r.configured = k.size /\ r.committed = k.size
    /\ (k.kind # "resize" /\ r.code = "window_not_found") => k.handle \notin Handles(windows)

EventFits(k, windows, e) ==
    /\ e.ev = "request_done" => k.kind # "resize"
    /\ e.ev = "capture_authorized" => k.kind = "capture"
    /\ e.ev = "resize_configured" => k.kind = "resize" /\ e.configured = k.size
    /\ e.ev = "resize_done" => k.kind = "resize" /\ e.configured = k.size /\ e.committed = k.size
    /\ (e.ev = "request_failed" /\ e.code = "window_not_found" /\ k.kind # "resize")
          => k.handle \notin Handles(windows)

QueueFits(c) == \A q \in Range(toShell) : q.id = call[c].id => q = RequestOf(c)

ResizesFit(c) ==
    \A r \in requests :
        r.id = call[c].id => call[c].kind = "resize" /\ r.configured = call[c].size

EventsFit(c) ==
    \A e \in Range(toClient) :
        HasId(e) /\ e.id = call[c].id => EventFits(call[c], view[c].windows, e)

ProgressFits(c) ==
    \A p \in resizeProgress :
        p.id = call[c].id => call[c].kind = "resize" /\ p.configured = call[c].size

AnswerFits(c) ==
    /\ (HandlerRunning /\ finishing.id = call[c].id)
          => ReplyFits(call[c], view[c].windows, finishing.reply)
    /\ ReplyFits(call[c], view[c].windows, call[c].reply)

Fits ==
    \A c \in Callers :
        InFlight(c) => /\ QueueFits(c) /\ ResizesFit(c) /\ EventsFit(c)
                       /\ ProgressFits(c) /\ AnswerFits(c)

(***************************************************************************)
(* A request is in one place until it is answered.                         *)
(***************************************************************************)
Sent(id) == \E q \in Range(toShell) : q.id = id

\* The module has not read the request: it may not even be on the wire.
Ahead(id) == Sent(id) \/ \E c \in Callers : call[c].pc = "registered" /\ call[c].id = id

Resizing(id) == \E r \in requests : r.id = id
Answered(id) == \E e \in Range(toClient) : Terminal(e) /\ e.id = id

\* The dispatcher holds the answer between the critical sections of a handler.
Finishing(id) == HandlerRunning /\ finishing.id = id

\* No request of the list comes twice, and no answer.
AskedOnce(s) == \A i, j \in 1 .. Len(s) : s[i].id = s[j].id => i = j
ToldOnce(s) ==
    \A i, j \in 1 .. Len(s) : Terminal(s[i]) /\ Terminal(s[j]) /\ s[i].id = s[j].id => i = j

OnePlace ==
    /\ \A c \in Callers : call[c].pc = "registered" => ~Sent(call[c].id)
    /\ AskedOnce(toShell) /\ ToldOnce(toClient)
    /\ \A r, s \in requests : r.id = s.id => r = s
    /\ \A id \in Nat : Ahead(id) => ~Resizing(id) /\ ~Answered(id)
    /\ \A id \in Nat : Resizing(id) => ~Answered(id)
    /\ \A id \in Nat : Finishing(id) => ~Ahead(id) /\ ~Resizing(id) /\ ~Answered(id)

(***************************************************************************)
(* A request the module has not read is not the authorization of a frame.  *)
(***************************************************************************)
Captured(id) ==
    \/ \E e \in Range(toClient) : e.ev = "frame" /\ e.captureID = id
    \/ \E f \in Range(frames) : f.captureID = id
    \/ capturePending /\ captureID = id

\* No frame of the list is ahead of the authorization it carries.
Ordered(s) ==
    \A j \in 1 .. Len(s) : s[j].ev = "capture_authorized" =>
        \A i \in 1 .. j - 1 : s[i].ev = "frame" => s[i].captureID # s[j].id

FramesLag ==
    /\ \A id \in Nat \ {0} : Captured(id) => id \in Ids /\ ~Ahead(id)
    /\ Ordered(toClient)
    /\ \A e \in Range(toClient), f \in Range(frames) :
          e.ev = "capture_authorized" => f.captureID # e.id

AInv == Numbered /\ Fits /\ OnePlace /\ FramesLag

-----------------------------------------------------------------------------
(***************************************************************************)
(* Lists of messages.                                                      *)
(***************************************************************************)
LEMMA InRange ==
    ASSUME NEW S, NEW s \in Seq(S)
    PROVE  /\ Range(s) = {s[i] : i \in 1 .. Len(s)}
           /\ Len(s) \in Nat /\ \A i \in 1 .. Len(s) : s[i] \in S /\ s[i] \in Range(s)
  BY RangeEquality, LenProperties

LEMMA RangeSmall ==
    ASSUME NEW S, NEW a \in S, NEW b \in S
    PROVE  /\ Range(<< >>) = {} /\ Range(<<a>>) = {a} /\ Range(<<a, b>>) = {a, b}
           /\ ToldOnce(<< >>) /\ ToldOnce(<<a>>)
           /\ ~Terminal(a) => ToldOnce(<<a, b>>)
  <1> DEFINE s == <<a>>
             t == <<a, b>>
  <1>1. s \in Seq(S) /\ Len(s) = 1 /\ s[1] = a /\ t \in Seq(S) /\ Len(t) = 2 /\ t[1] = a /\ t[2] = b
    OBVIOUS
  <1>2. ASSUME NEW i \in 1 .. Len(t) PROVE i = 1 \/ i = 2
    BY <1>1
  <1>3. Range(<< >>) = {} /\ ToldOnce(<< >>)
    BY DEF Range, ToldOnce
  <1> HIDE DEF s, t
  <1>4. Range(s) = {a} /\ ToldOnce(s)
    BY <1>1, InRange DEF ToldOnce
  <1>5. Range(t) = {a, b}
    BY <1>1, <1>2, InRange
  <1>6. ~Terminal(a) => ToldOnce(t)
    BY <1>1, <1>2 DEF ToldOnce
  <1> QED
    BY <1>3, <1>4, <1>5, <1>6 DEF s, t

LEMMA RangeOfTwo ==
    ASSUME NEW a, NEW b
    PROVE  /\ Range(<<a, b>>) = {a, b}
           /\ ~Terminal(a) => ToldOnce(<<a, b>>)
  <1>1. PICK S : S = {a, b}
    OBVIOUS
  <1>2. a \in S /\ b \in S
    BY <1>1
  <1> QED
    BY <1>2, RangeSmall

LEMMA JoinedAt ==
    ASSUME NEW S, NEW s \in Seq(S), NEW t \in Seq(S)
    PROVE  /\ s \o t \in Seq(S) /\ Range(s \o t) = Range(s) \cup Range(t)
           /\ Len(s) \in Nat /\ Len(t) \in Nat /\ Len(s \o t) = Len(s) + Len(t)
           /\ \A i \in 1 .. Len(s \o t) :
                 \/ i \in 1 .. Len(s) /\ (s \o t)[i] = s[i]
                 \/ /\ i - Len(s) \in 1 .. Len(t) /\ i > Len(s)
                    /\ (s \o t)[i] = t[i - Len(s)]
  <1>1. Len(s) \in Nat /\ Len(t) \in Nat
    BY InRange
  <1> QED
    BY <1>1, ConcatProperties, RangeConcatenation

LEMMA JoinedOnce ==
    ASSUME NEW s \in Seq(Event), NEW t \in Seq(Event), ToldOnce(s), ToldOnce(t),
           \A a \in Range(s), b \in Range(t) : Terminal(a) /\ Terminal(b) => a.id # b.id
    PROVE  ToldOnce(s \o t)
  <1> DEFINE u == s \o t
             m == Len(s)
             n == Len(t)
  <1>1. /\ Len(u) = m + n /\ m \in Nat /\ n \in Nat
        /\ \A i \in 1 .. Len(u) :
              \/ i \in 1 .. m /\ u[i] = s[i]
              \/ i - m \in 1 .. n /\ i > m /\ u[i] = t[i - m]
    BY JoinedAt
  <1>2. /\ \A i \in 1 .. m : s[i] \in Range(s)
        /\ \A i \in 1 .. n : t[i] \in Range(t)
    BY InRange
  <1> HIDE DEF u, m, n
  <1>3. ASSUME NEW i \in 1 .. Len(u), NEW j \in 1 .. Len(u),
               Terminal(u[i]), Terminal(u[j]), u[i].id = u[j].id
        PROVE  i = j
    <2>1. CASE i \in 1 .. m /\ u[i] = s[i] /\ j \in 1 .. m /\ u[j] = s[j]
      BY <1>3, <2>1 DEF ToldOnce, m
    <2>2. CASE i \in 1 .. m /\ u[i] = s[i] /\ j - m \in 1 .. n /\ u[j] = t[j - m]
      BY <1>2, <1>3, <2>2
    <2>3. CASE i - m \in 1 .. n /\ u[i] = t[i - m] /\ j \in 1 .. m /\ u[j] = s[j]
      BY <1>2, <1>3, <2>3
    <2>4. CASE i - m \in 1 .. n /\ u[i] = t[i - m] /\ j - m \in 1 .. n /\ u[j] = t[j - m]
      <3>1. i - m = j - m
        BY <1>3, <2>4 DEF ToldOnce, n
      <3> QED
        BY <1>1, <3>1
    <2> QED
      BY <1>1, <2>1, <2>2, <2>3, <2>4
  <1> QED
    BY <1>3 DEF ToldOnce, u

LEMMA JoinedOrdered ==
    ASSUME NEW s \in Seq(Event), NEW t \in Seq(Event), Ordered(s),
           \A a \in Range(s), b \in Range(t) :
              a.ev = "frame" /\ b.ev = "capture_authorized" => a.captureID # b.id,
           \A a, b \in Range(t) : ~(a.ev = "frame" /\ b.ev = "capture_authorized")
    PROVE  Ordered(s \o t)
  <1> DEFINE u == s \o t
             m == Len(s)
             n == Len(t)
  <1>1. /\ Len(u) = m + n /\ m \in Nat /\ n \in Nat
        /\ \A i \in 1 .. Len(u) :
              \/ i \in 1 .. m /\ u[i] = s[i]
              \/ i - m \in 1 .. n /\ i > m /\ u[i] = t[i - m]
    BY JoinedAt
  <1>2. /\ \A i \in 1 .. m : s[i] \in Range(s)
        /\ \A i \in 1 .. n : t[i] \in Range(t)
    BY InRange
  <1> HIDE DEF u, m, n
  <1>3. ASSUME NEW j \in 1 .. Len(u), u[j].ev = "capture_authorized",
               NEW i \in 1 .. j - 1, u[i].ev = "frame"
        PROVE  u[i].captureID # u[j].id
    <2>1. i \in 1 .. Len(u) /\ i < j
      BY <1>1
    <2>2. CASE j \in 1 .. m /\ u[j] = s[j]
      <3>1. i \in 1 .. m /\ u[i] = s[i]
        BY <1>1, <2>1, <2>2
      <3> QED
        BY <1>3, <2>2, <3>1 DEF Ordered, m
    <2>3. CASE j - m \in 1 .. n /\ u[j] = t[j - m]
      <3>1. CASE i \in 1 .. m /\ u[i] = s[i]
        BY <1>2, <1>3, <2>3, <3>1
      <3>2. CASE i - m \in 1 .. n /\ u[i] = t[i - m]
        BY <1>2, <1>3, <2>3, <3>2
      <3> QED
        BY <1>1, <2>1, <3>1, <3>2
    <2> QED
      BY <1>1, <2>2, <2>3
  <1> QED
    BY <1>3 DEF Ordered, u

LEMMA TailAt ==
    ASSUME NEW S, NEW s \in Seq(S), s # << >>
    PROVE  /\ Tail(s) \in Seq(S) /\ Len(s) \in Nat /\ Len(s) >= 1 /\ Len(Tail(s)) = Len(s) - 1
           /\ Head(s) \in Range(s) /\ Head(s) = s[1]
           /\ Range(Tail(s)) \subseteq Range(s)
           /\ \A i \in 1 .. Len(Tail(s)) : Tail(s)[i] = s[i + 1] /\ i + 1 \in 1 .. Len(s)
           /\ AskedOnce(s) => /\ AskedOnce(Tail(s))
                              /\ \A q \in Range(Tail(s)) : q.id # Head(s).id
           /\ ToldOnce(s) => /\ ToldOnce(Tail(s))
                             /\ \A e \in Range(Tail(s)) :
                                   Terminal(Head(s)) /\ Terminal(e) => e.id # Head(s).id
           /\ Ordered(s) =>
                 /\ Ordered(Tail(s))
                 /\ \A e \in Range(Tail(s)) :
                       Head(s).ev = "frame" /\ e.ev = "capture_authorized"
                           => Head(s).captureID # e.id
  <1> DEFINE t == Tail(s)
             n == Len(s)
  <1>1. t \in Seq(S) /\ n \in Nat /\ n >= 1 /\ Len(t) = n - 1 /\ Head(s) = s[1]
    <2>1. n \in Nat /\ n # 0
      BY LenProperties, EmptySeq
    <2> QED
      BY <2>1, HeadTailProperties
  <1>2. \A i \in 1 .. Len(t) : t[i] = s[i + 1]
    BY HeadTailProperties
  <1>3. Range(s) = {s[i] : i \in 1 .. n} /\ Range(t) = {t[i] : i \in 1 .. Len(t)}
    BY <1>1, InRange
  <1> HIDE DEF t, n
  <1>4. \A i \in 1 .. Len(t) : i + 1 \in 1 .. n /\ t[i] = s[i + 1] /\ 1 \in 1 .. (i + 1) - 1
    BY <1>1, <1>2
  <1>5. Head(s) \in Range(s) /\ Range(t) \subseteq Range(s)
    BY <1>1, <1>3, <1>4
  <1>6. ASSUME AskedOnce(s)
        PROVE  AskedOnce(t) /\ \A q \in Range(t) : q.id # Head(s).id
    <2>1. \A i, j \in 1 .. n : s[i].id = s[j].id => i = j
      BY <1>6 DEF AskedOnce, n
    <2>2. ASSUME NEW i \in 1 .. Len(t), NEW j \in 1 .. Len(t), t[i].id = t[j].id PROVE i = j
      <3>1. i + 1 = j + 1
        BY <1>4, <2>1, <2>2
      <3> QED
        BY <1>1, <3>1
    <2>3. ASSUME NEW i \in 1 .. Len(t) PROVE t[i].id # s[1].id
      <3>1. 1 \in 1 .. n /\ i + 1 # 1
        BY <1>1
      <3> QED
        BY <1>4, <2>1, <3>1
    <2> QED
      BY <1>1, <1>3, <2>2, <2>3 DEF AskedOnce
  <1>7. ASSUME ToldOnce(s)
        PROVE  /\ ToldOnce(t)
               /\ \A e \in Range(t) : Terminal(Head(s)) /\ Terminal(e) => e.id # Head(s).id
    <2>1. \A i, j \in 1 .. n : Terminal(s[i]) /\ Terminal(s[j]) /\ s[i].id = s[j].id => i = j
      BY <1>7 DEF ToldOnce, n
    <2>2. ASSUME NEW i \in 1 .. Len(t), NEW j \in 1 .. Len(t),
                 Terminal(t[i]), Terminal(t[j]), t[i].id = t[j].id
          PROVE  i = j
      <3>1. i + 1 = j + 1
        BY <1>4, <2>1, <2>2
      <3> QED
        BY <1>1, <3>1
    <2>3. ASSUME NEW i \in 1 .. Len(t), Terminal(s[1]), Terminal(t[i]) PROVE t[i].id # s[1].id
      <3>1. 1 \in 1 .. n /\ i + 1 # 1
        BY <1>1
      <3> QED
        BY <1>4, <2>1, <2>3, <3>1
    <2> QED
      BY <1>1, <1>3, <2>2, <2>3 DEF ToldOnce
  <1>8. ASSUME Ordered(s)
        PROVE  /\ Ordered(t)
               /\ \A e \in Range(t) :
                     Head(s).ev = "frame" /\ e.ev = "capture_authorized"
                         => Head(s).captureID # e.id
    <2>1. \A j \in 1 .. n : s[j].ev = "capture_authorized" =>
             \A i \in 1 .. j - 1 : s[i].ev = "frame" => s[i].captureID # s[j].id
      BY <1>8 DEF Ordered, n
    <2>2. ASSUME NEW j \in 1 .. Len(t), t[j].ev = "capture_authorized",
                 NEW i \in 1 .. j - 1, t[i].ev = "frame"
          PROVE  t[i].captureID # t[j].id
      <3>1. i \in 1 .. Len(t) /\ i + 1 \in 1 .. (j + 1) - 1
        BY <1>1
      <3> QED
        BY <1>4, <2>1, <2>2, <3>1
    <2>3. ASSUME NEW j \in 1 .. Len(t), t[j].ev = "capture_authorized", s[1].ev = "frame"
          PROVE  s[1].captureID # t[j].id
      BY <1>4, <2>1, <2>3
    <2> QED
      BY <1>1, <1>3, <2>2, <2>3 DEF Ordered
  <1> QED
    BY <1>1, <1>4, <1>5, <1>6, <1>7, <1>8 DEF t, n

-----------------------------------------------------------------------------
(***************************************************************************)
(* What a step of the module says.                                         *)
(***************************************************************************)
\* The module reads q and says events about it.
HandledSays(q, events) ==
    /\ events \in Seq(Event) /\ toClient' = toClient \o events /\ ToldOnce(events)
    /\ \A e \in Range(events) :
          /\ HasId(e) => e.id = q.id
          /\ e.ev # "frame" /\ e.ev # "resize_done"
          /\ e.ev = "request_done" => q.kind # "resize"
          /\ e.ev = "capture_authorized" => q.kind = "capture"
          /\ e.ev = "resize_configured" => q.kind = "resize" /\ e.configured = q.size
          /\ (e.ev = "request_failed" /\ e.code = "window_not_found" /\ q.kind # "resize")
                => q.rev = revision /\ q.handle \notin Live
    /\ \/ requests' \subseteq requests
       \/ /\ q.kind = "resize" /\ \A e \in Range(events) : ~Terminal(e)
          /\ \E r : requests' \subseteq requests \cup {r} /\ r.id = q.id /\ r.configured = q.size
    /\ \/ capturePending' = capturePending /\ captureID' = captureID
       \/ captureID' = q.id

\* An application's step ends the resizes it answers, and no other request.
EventsSay(events) ==
    /\ events \in Seq(Event) /\ toClient' = toClient \o events /\ ToldOnce(events)
    /\ requests' \subseteq requests
    /\ \A e \in Range(events) :
          /\ HasId(e) =>
                /\ e.ev \in {"request_failed", "resize_done"}
                /\ \E r \in requests \ requests' :
                      /\ r.id = e.id
                      /\ e.ev = "resize_done" => /\ e.configured = r.configured
                                                 /\ e.committed = r.configured
          /\ (e.ev = "frame" /\ e.captureID # 0) => capturePending /\ captureID = e.captureID

LEMMA EventFacts ==
    /\ \A h, active, map, rev : LET e == Changed(h, active, map, rev) IN
          e.ev = "toplevel_changed" /\ ~HasId(e) /\ ~Terminal(e)
    /\ \A id, rev : LET e == Done(id, rev) IN
          e.ev = "request_done" /\ e.id = id /\ HasId(e) /\ Terminal(e)
    /\ \A id, code : LET e == Failed(id, code) IN
          e.ev = "request_failed" /\ e.id = id /\ e.code = code /\ HasId(e) /\ Terminal(e)
  BY DEF Changed, Done, Failed, HasId, Terminal

LEMMA SaysOnly ==
    ASSUME TypeOK, ShellHandles, controller, NEW q, NEW a \in Event, Emit(<<a>>),
           HasId(a) => a.id = q.id, a.ev \notin {"frame", "resize_done", "capture_authorized"},
           a.ev = "request_done" => q.kind # "resize",
           a.ev = "resize_configured" => q.kind = "resize" /\ a.configured = q.size,
           (a.ev = "request_failed" /\ a.code = "window_not_found" /\ q.kind # "resize")
               => q.rev = revision /\ q.handle \notin Live,
           UNCHANGED captureVars,
           \/ requests' \subseteq requests
           \/ /\ q.kind = "resize" /\ ~Terminal(a)
              /\ \E r : /\ requests' \subseteq requests \cup {r}
                        /\ r.id = q.id /\ r.configured = q.size
    PROVE  \E events : HandledSays(q, events)
  <1> DEFINE events == <<a>>
  <1>1. events \in Seq(Event) /\ toClient' = toClient \o events
    BY DEF Emit
  <1>2. Range(events) = {a} /\ ToldOnce(events)
    BY RangeSmall
  <1> HIDE DEF events
  <1>3. capturePending' = capturePending /\ captureID' = captureID
    BY DEF captureVars
  <1>4. HandledSays(q, events)
    BY <1>1, <1>2, <1>3 DEF HandledSays
  <1> QED
    BY <1>4

LEMMA HandledSomething ==
    ASSUME TypeOK, ShellHandles
    PROVE  \E events : HandledSays(Head(toShell), events)
  <1> PICK q : q = Head(toShell)
    OBVIOUS
  <1> SUFFICES \E events : HandledSays(q, events)
    OBVIOUS
  <1> USE DEF shellVars, windowVars
  <1>1. q \in Request /\ q.id \in Nat /\ q.handle \in Nat /\ revision \in Nat /\ controller
    <2>1. q \in Request /\ controller
      BY DEF ShellHandles, TypeOK, WireTypeOK
    <2> QED
      BY <2>1 DEF Request, TypeOK, ShellTypeOK
  <1>2. CASE HandleSnapshot(q)
    <2> DEFINE windows == [i \in 1 .. Len(toplevels) |->
                             Changed(toplevels[i], activated, mapped, revision)]
               first == [ev |-> "snapshot", rev |-> revision]
               done == Done(q.id, revision)
    <2>1. /\ windows \in Seq(Event) /\ first \in Event /\ done \in Event
          /\ \A e \in Range(windows) : ~HasId(e) /\ ~Terminal(e) /\ e.ev = "toplevel_changed"
      <3>1. windows \in Seq(Event)
        BY ChangedType DEF TypeOK, ShellTypeOK
      <3>2. \A i \in 1 .. Len(toplevels) :
               /\ ~HasId(windows[i]) /\ ~Terminal(windows[i])
               /\ windows[i].ev = "toplevel_changed"
        BY EventFacts
      <3>3. \A e \in Range(windows) : ~HasId(e) /\ ~Terminal(e) /\ e.ev = "toplevel_changed"
        BY <3>2 DEF Range
      <3> QED
        BY <1>1, <3>1, <3>3, EventTypes
    <2>2. /\ first.ev = "snapshot" /\ ~HasId(first) /\ ~Terminal(first)
          /\ done.ev = "request_done" /\ done.id = q.id
      BY DEF HasId, Terminal, Done
    <2>3. /\ toClient' = toClient \o (<<first>> \o windows \o <<done>>)
          /\ requests' = requests /\ capturePending' = capturePending /\ captureID' = captureID
          /\ q.kind = "snapshot"
      BY <1>1, <1>2 DEF HandleSnapshot, Emit, captureVars
    <2> HIDE DEF windows, first, done
    <2> DEFINE head == <<first>>
               last == <<done>>
               start == head \o windows
               events == start \o last
    <2>4. /\ head \in Seq(Event) /\ Range(head) = {first} /\ ToldOnce(head)
          /\ last \in Seq(Event) /\ Range(last) = {done} /\ ToldOnce(last)
      BY <2>1, OneEvent, RangeSmall
    <2>13. toClient' = toClient \o events
      BY <2>3
    <2> HIDE DEF head, last
    <2>5. start \in Seq(Event) /\ Range(start) = {first} \cup Range(windows)
      BY <2>1, <2>4, JoinedAt
    <2>6. \A e \in Range(start) : ~HasId(e) /\ ~Terminal(e) /\ e.ev \in {"snapshot", "toplevel_changed"}
      BY <2>1, <2>2, <2>5
    <2>7. ToldOnce(start)
      <3>1. \A i \in 1 .. Len(start) : start[i] \in Range(start)
        BY <2>5, InRange
      <3> QED
        BY <2>6, <3>1 DEF ToldOnce
    <2> HIDE DEF start
    <2>8. events \in Seq(Event) /\ Range(events) = Range(start) \cup {done}
      BY <2>4, <2>5, JoinedAt
    <2>9. ToldOnce(events)
      BY <2>4, <2>5, <2>6, <2>7, JoinedOnce
    <2> HIDE DEF events
    <2>10. \A e \in Range(events) :
              /\ HasId(e) => e.id = q.id
              /\ e.ev \in {"snapshot", "toplevel_changed", "request_done"}
      BY <2>2, <2>6, <2>8
    <2>11. HandledSays(q, events)
      BY <2>3, <2>8, <2>9, <2>10, <2>13 DEF HandledSays
    <2> QED
      BY <2>11
  <1>3. CASE HandleRefused(q)
    <2>1. PICK code \in Refusal(q) : Emit(<<Failed(q.id, code)>>)
      BY <1>3 DEF HandleRefused
    <2>2. code \in Codes /\ requests' = requests /\ UNCHANGED captureVars
      BY <1>3 DEF HandleRefused, Refusal, Codes
    <2>3. code = "window_not_found" => q.rev = revision /\ q.handle \notin Live
      BY <2>1 DEF Refusal
    <2> DEFINE failed == Failed(q.id, code)
    <2>4. failed \in Event /\ failed.ev = "request_failed" /\ failed.id = q.id /\ failed.code = code
      BY <1>1, <2>2, EventTypes, EventFacts
    <2>5. Emit(<<failed>>)
      BY <2>1
    <2> HIDE DEF failed
    <2> QED
      BY <1>1, <2>2, <2>3, <2>4, <2>5, SaysOnly
  <1>4. CASE HandleActivate(q) \/ HandleMove(q)
    <2>1. PICK active : Emit(<<Changed(q.handle, active, mapped, revision'),
                              Done(q.id, revision')>>)
      BY <1>4 DEF HandleActivate, HandleMove
    <2>2. /\ requests' = requests /\ UNCHANGED captureVars
          /\ q.kind # "resize" /\ BumpRevision
      BY <1>4 DEF HandleActivate, HandleMove
    <2>6. revision' \in Nat /\ capturePending' = capturePending /\ captureID' = captureID
      BY <1>1, <2>2, BumpType DEF captureVars
    <2> DEFINE change == Changed(q.handle, active, mapped, revision')
               done == Done(q.id, revision')
               events == <<change, done>>
    <2>3. /\ change \in Event /\ done \in Event
          /\ change.ev = "toplevel_changed" /\ ~HasId(change) /\ ~Terminal(change)
          /\ done.ev = "request_done" /\ done.id = q.id
      BY <1>1, <2>6, ChangedType, EventTypes, EventFacts
    <2>4. toClient' = toClient \o events
      BY <1>1, <2>1 DEF Emit
    <2> HIDE DEF change, done
    <2>5. events \in Seq(Event) /\ Range(events) = {change, done} /\ ToldOnce(events)
      BY <2>3, TwoEvents, RangeSmall
    <2> HIDE DEF events
    <2>7. HandledSays(q, events)
      BY <2>2, <2>3, <2>4, <2>5, <2>6 DEF HandledSays
    <2> QED
      BY <2>7
  <1>5. CASE HandleResize(q)
    <2> DEFINE a == [ev |-> "resize_configured", id |-> q.id, configured |-> q.size]
               r == [id |-> q.id, toplevel |-> q.handle, configured |-> q.size]
    <2>1. /\ q.kind = "resize" /\ Emit(<<a>>) /\ UNCHANGED captureVars
          /\ requests' \subseteq requests \cup {r} /\ r.id = q.id /\ r.configured = q.size
      BY <1>5 DEF HandleResize, KeptBeside
    <2>2. q.size \in Sizes
      BY <1>1, <1>5 DEF HandleResize, Refusal, Request
    <2>3. /\ a \in Event /\ a.ev = "resize_configured" /\ a.id = q.id /\ a.configured = q.size
          /\ ~Terminal(a)
      BY <1>1, <2>2, EventTypes DEF Terminal
    <2> HIDE DEF a, r
    <2> QED
      BY <1>1, <2>1, <2>3, SaysOnly
  <1>6. CASE HandleCloseWindow(q) \/ HandleInput(q)
    <2> DEFINE a == Done(q.id, revision)
    <2>1. Emit(<<a>>) /\ requests' = requests /\ UNCHANGED captureVars /\ q.kind # "resize"
      BY <1>6 DEF HandleCloseWindow, HandleInput
    <2>2. a \in Event /\ a.ev = "request_done" /\ a.id = q.id
      BY <1>1, EventTypes, EventFacts
    <2> HIDE DEF a
    <2> QED
      BY <1>1, <2>1, <2>2, SaysOnly
  <1>7. CASE HandleAuthorizeCapture(q)
    <2> DEFINE granted == [ev |-> "capture_authorized", id |-> q.id]
               done == Done(q.id, revision)
               events == <<granted, done>>
    <2>1. /\ toClient' = toClient \o events /\ requests' = requests /\ captureID' = q.id
          /\ q.kind = "capture"
      BY <1>1, <1>7 DEF HandleAuthorizeCapture, Emit
    <2>2. /\ granted \in Event /\ done \in Event
          /\ granted.ev = "capture_authorized" /\ granted.id = q.id /\ ~Terminal(granted)
          /\ done.ev = "request_done" /\ done.id = q.id
      BY <1>1, EventTypes, EventFacts DEF Terminal
    <2> HIDE DEF granted, done
    <2>3. events \in Seq(Event) /\ Range(events) = {granted, done} /\ ToldOnce(events)
      BY <2>2, TwoEvents, RangeSmall
    <2> HIDE DEF events
    <2>4. HandledSays(q, events)
      BY <2>1, <2>2, <2>3 DEF HandledSays
    <2> QED
      BY <2>4
  <1> QED
    BY <1>2, <1>3, <1>4, <1>5, <1>6, <1>7 DEF ShellHandles
LEMMA SilenceSays ==
    ASSUME TypeOK, toClient' = toClient, requests' \subseteq requests
    PROVE  EventsSay(<< >>)
  <1>1. << >> \in Seq(Event) /\ toClient' = toClient \o << >>
    BY ConcatEmptySeq DEF TypeOK, WireTypeOK
  <1>2. Range(<< >>) = {} /\ ToldOnce(<< >>)
    BY DEF Range, ToldOnce
  <1> QED
    BY <1>1, <1>2 DEF EventsSay

\* An event that answers no request.
LEMMA NewsSays ==
    ASSUME TypeOK, NEW a \in Event, Emit(<<a>>), ~HasId(a), requests' \subseteq requests,
           (a.ev = "frame" /\ a.captureID # 0) => capturePending /\ captureID = a.captureID
    PROVE  \E events : EventsSay(events)
  <1>1. CASE ~controller
    <2>1. toClient' = toClient
      BY <1>1 DEF Emit
    <2> QED
      BY <2>1, SilenceSays
  <1>2. CASE controller
    <2> DEFINE events == <<a>>
    <2>1. events \in Seq(Event) /\ toClient' = toClient \o events
      BY <1>2 DEF Emit
    <2>2. Range(events) = {a} /\ ToldOnce(events)
      BY RangeSmall
    <2> HIDE DEF events
    <2>3. EventsSay(events)
      BY <2>1, <2>2 DEF EventsSay
    <2> QED
      BY <2>3
  <1> QED
    BY <1>1, <1>2

LEMMA RemovalSays ==
    ASSUME TypeOK, NEW i \in 1 .. Len(toplevels), SurfaceRemoved(i)
    PROVE  \E events : EventsSay(events)
  <1> PICK h : h = toplevels[i]
    OBVIOUS
  <1> DEFINE failures == {Failed(r.id, "window_not_found") : r \in RequestsFor(h)}
             gone == [ev |-> "toplevel_removed", handle |-> h]
             removal == <<gone>>
  <1>1. requests' = requests \ RequestsFor(h)
    BY DEF SurfaceRemoved
  <1>2. IF failures = {} THEN Emit(removal) ELSE \E f \in failures : Emit(<<f>> \o removal)
    BY DEF SurfaceRemoved
  <1>3. gone \in Event /\ gone.ev = "toplevel_removed" /\ ~HasId(gone) /\ ~Terminal(gone)
    <2>1. h \in Nat
      BY DEF TypeOK, ShellTypeOK
    <2> QED
      BY <2>1, EventTypes DEF HasId, Terminal
  <1> HIDE DEF gone
  <1>4. CASE failures = {} \/ ~controller
    <2>1. CASE ~controller
      <3>1. toClient' = toClient
        BY <1>2, <2>1 DEF Emit
      <3> QED
        BY <1>1, <3>1, SilenceSays
    <2>2. CASE failures = {}
      BY <1>1, <1>2, <1>3, <2>2, NewsSays
    <2> QED
      BY <1>4, <2>1, <2>2
  <1>5. CASE failures # {} /\ controller
    <2>1. PICK r \in RequestsFor(h) : Emit(<<Failed(r.id, "window_not_found")>> \o removal)
      BY <1>2, <1>5
    <2> DEFINE failed == Failed(r.id, "window_not_found")
               first == <<failed>>
               last == <<gone>>
               events == first \o last
    <2>2. r \in requests \ requests' /\ r.id \in Nat
      BY <1>1 DEF RequestsFor, TypeOK, ShellTypeOK, PendingResize
    <2>3. failed \in Event /\ failed.ev = "request_failed" /\ failed.id = r.id
      BY <2>2, EventTypes, EventFacts DEF Codes
    <2>4. toClient' = toClient \o events
      BY <1>5, <2>1 DEF Emit
    <2> HIDE DEF failed
    <2>5. /\ first \in Seq(Event) /\ Range(first) = {failed} /\ ToldOnce(first)
          /\ last \in Seq(Event) /\ Range(last) = {gone} /\ ToldOnce(last)
      BY <1>3, <2>3, OneEvent, RangeSmall
    <2> HIDE DEF first, last
    <2>6. events \in Seq(Event) /\ Range(events) = Range(first) \cup Range(last)
      <3>1. first \in Seq(Event) /\ last \in Seq(Event)
        BY <2>5
      <3>2. first \o last \in Seq(Event)
        BY <3>1, JoinedAt
      <3>3. Range(first \o last) = Range(first) \cup Range(last)
        BY <3>1, JoinedAt
      <3> QED
        BY <3>2, <3>3
    <2>7. ToldOnce(events)
      BY <1>3, <2>5, JoinedOnce
    <2> HIDE DEF events
    <2>8. \A e \in Range(events) : e = failed \/ e = gone
      BY <2>5, <2>6
    <2>9. EventsSay(events)
      BY <1>1, <1>3, <2>2, <2>3, <2>4, <2>6, <2>7, <2>8 DEF EventsSay
    <2> QED
      BY <2>9
  <1> QED
    BY <1>4, <1>5

LEMMA CommitSays ==
    ASSUME TypeOK, NEW h \in Live, NEW size \in Sizes, SurfaceCommitted(h, size)
    PROVE  \E events : EventsSay(events)
  <1>1. CASE Completes(h, size) = {}
    <2>1. toClient' = toClient /\ requests' = requests
      BY <1>1 DEF SurfaceCommitted
    <2> QED
      BY <2>1, SilenceSays
  <1>2. CASE Completes(h, size) # {}
    <2>1. PICK r \in Completes(h, size) :
             /\ BumpRevision
             /\ requests' = requests \ {r}
             /\ Emit(<<Changed(h, activated, mapped', revision'),
                       [ev |-> "resize_done", id |-> r.id, configured |-> r.configured,
                        committed |-> size, rev |-> revision']>>)
      BY <1>2 DEF SurfaceCommitted
    <2>2. CASE ~controller
      <3>1. toClient' = toClient
        BY <2>1, <2>2 DEF Emit
      <3> QED
        BY <2>1, <3>1, SilenceSays
    <2>3. CASE controller
      <3> DEFINE change == Changed(h, activated, mapped', revision')
                 done == [ev |-> "resize_done", id |-> r.id, configured |-> r.configured,
                          committed |-> size, rev |-> revision']
                 events == <<change, done>>
      <3>1. /\ r \in requests \ requests' /\ r.id \in Nat /\ r.configured \in Sizes
            /\ r.configured = size /\ h \in Nat /\ revision' \in Nat
        BY <2>1, BumpType DEF Completes, RequestsFor, Live, TypeOK, ShellTypeOK, PendingResize
      <3>2. /\ change \in Event /\ done \in Event
            /\ change.ev = "toplevel_changed" /\ ~HasId(change) /\ ~Terminal(change)
            /\ done.ev = "resize_done" /\ done.id = r.id
            /\ done.configured = r.configured /\ done.committed = r.configured
        BY <3>1, ChangedType, EventTypes, EventFacts
      <3>3. toClient' = toClient \o events
        BY <2>1, <2>3 DEF Emit
      <3> HIDE DEF change, done
      <3>4. events \in Seq(Event) /\ Range(events) = {change, done} /\ ToldOnce(events)
        <4>1. change \in Event /\ done \in Event /\ ~Terminal(change) BY <3>2
        <4>2. <<change, done>> \in Seq(Event) BY <4>1, TwoEvents
        <4>3. Range(<<change, done>>) = {change, done} BY RangeOfTwo
        <4>4. ToldOnce(<<change, done>>) BY <4>1, RangeOfTwo
        <4> QED BY <4>2, <4>3, <4>4
      <3> HIDE DEF events
      <3>5. EventsSay(events)
        BY <2>1, <3>1, <3>2, <3>3, <3>4 DEF EventsSay
      <3> QED
        BY <3>5
    <2> QED
      BY <2>2, <2>3
  <1> QED
    BY <1>1, <1>2

LEMMA ApplicationsSaySomething ==
    ASSUME TypeOK, Applications
    PROVE  /\ \E events : EventsSay(events)
           /\ UNCHANGED <<toShell, controller, captureClient, captureID, capturePending>>
  <1>1. UNCHANGED <<toShell, controller, captureClient, captureID, capturePending>>
    BY DEF Applications, SurfaceAdded, SurfaceRemoved, SurfaceCommitted, StateRequested, Frame,
           captureVars
  <1>2. revision \in Nat /\ nextIndex \in Nat /\ Live \subseteq Nat
    BY DEF TypeOK, ShellTypeOK, Live
  <1>3. CASE SurfaceAdded
    <2> DEFINE a == Changed(nextIndex', activated, mapped, revision')
    <2>1. Emit(<<a>>) /\ requests' = requests /\ nextIndex' \in Nat /\ BumpRevision
      BY <1>2, <1>3 DEF SurfaceAdded, AssignHandle
    <2>2. a \in Event /\ a.ev = "toplevel_changed" /\ ~HasId(a)
      BY <1>2, <2>1, BumpType, ChangedType, EventFacts
    <2> HIDE DEF a
    <2> QED
      BY <1>1, <2>1, <2>2, NewsSays
  <1>4. ASSUME NEW h \in Live, StateRequested(h) PROVE \E events : EventsSay(events)
    <2> DEFINE a == Changed(h, activated, mapped, revision')
    <2>1. Emit(<<a>>) /\ requests' = requests /\ BumpRevision
      BY <1>4 DEF StateRequested
    <2>2. a \in Event /\ a.ev = "toplevel_changed" /\ ~HasId(a)
      BY <1>2, <2>1, BumpType, ChangedType, EventFacts
    <2> HIDE DEF a
    <2> QED
      BY <2>1, <2>2, NewsSays
  <1>5. CASE Frame
    <2> DEFINE a == [ev |-> "frame", captureID |-> IF capturePending THEN captureID ELSE 0,
                     seq |-> frameSequence']
    <2>1. Emit(<<a>>) /\ requests' = requests
      BY <1>5 DEF Frame
    <2>2. (IF capturePending THEN captureID ELSE 0) \in Nat /\ frameSequence' \in Nat
      BY <1>5 DEF Frame, TypeOK, ShellTypeOK
    <2>3. a \in Event /\ ~HasId(a) /\ (a.captureID # 0 => capturePending /\ captureID = a.captureID)
      BY <2>2, EventTypes DEF HasId
    <2> HIDE DEF a
    <2> QED
      BY <1>1, <2>1, <2>3, NewsSays
  <1> QED
    BY <1>1, <1>3, <1>4, <1>5, RemovalSays, CommitSays DEF Applications
-----------------------------------------------------------------------------
LEMMA InitAnswers == Init => AInv
  <1> SUFFICES ASSUME Init PROVE AInv
    OBVIOUS
  <1>1. /\ toShell = << >> /\ toClient = << >> /\ frames = << >> /\ requests = {}
        /\ resizeProgress = {} /\ ~HandlerRunning /\ ~capturePending
        /\ \A c \in Callers : ~InFlight(c) /\ call[c].pc # "registered"
    BY DEF Init, ShellInit, ClientInit, NoConnection, HandlerRunning, InFlight, NoCall
  <1>2. Range(toShell) = {} /\ Range(toClient) = {} /\ Range(frames) = {}
    BY <1>1 DEF Range
  <1>3. Numbered /\ Fits
    BY <1>1, <1>2 DEF Numbered, Fits
  <1>4. AskedOnce(toShell) /\ ToldOnce(toClient) /\ Ordered(toClient)
    BY <1>1 DEF AskedOnce, ToldOnce, Ordered
  <1>5. OnePlace /\ FramesLag
    BY <1>1, <1>2, <1>4
       DEF OnePlace, FramesLag, Sent, Ahead, Resizing, Answered, Finishing, Captured
  <1> QED
    BY <1>3, <1>5 DEF AInv

-----------------------------------------------------------------------------
(***************************************************************************)
(* The module reads a request.                                             *)
(***************************************************************************)
LEMMA HandledAnswers ==
    ASSUME TypeOK, IInv, AInv, ShellHandles, UNCHANGED clientVars
    PROVE  AInv'
  <1> PICK q : q = Head(toShell)
    OBVIOUS
  <1> PICK events : HandledSays(q, events)
    BY HandledSomething
  <1> USE DEF clientVars, cacheVars, linkVars
  <1>1. controller' = controller /\ controller
    BY DEF ShellHandles, HandleSnapshot, HandleRefused, HandleActivate, HandleMove, HandleResize,
           HandleCloseWindow, HandleInput, HandleAuthorizeCapture, shellVars
  <1>2. /\ q \in Range(toShell) /\ Range(toShell') \subseteq Range(toShell)
        /\ AskedOnce(toShell') /\ \A a \in Range(toShell') : a.id # q.id
    <2>1. toShell \in Seq(Request) /\ toShell # << >> /\ toShell' = Tail(toShell)
      BY DEF ShellHandles, TypeOK, WireTypeOK
    <2> QED
      BY <2>1, TailAt DEF AInv, OnePlace
  <1>3. events \in Seq(Event) /\ toClient \in Seq(Event) /\ toClient' = toClient \o events
    BY DEF HandledSays, TypeOK, WireTypeOK
  <1>4. Range(toClient') = Range(toClient) \cup Range(events)
    BY <1>3, JoinedAt
  <1>5. q.id \in Ids /\ q.id \in Nat \ {0}
    BY <1>2 DEF AInv, Numbered, Ids, TypeOK, ClientTypeOK
  <1>6. \A c \in Callers : InFlight(c) /\ call[c].id = q.id =>
           /\ q = RequestOf(c) /\ q.kind = call[c].kind /\ q.handle = call[c].handle
           /\ q.size = call[c].size /\ q.rev = view[c].rev
    BY <1>2 DEF AInv, Fits, QueueFits, Numbered, RequestOf
  <1>7. \A r \in requests' : \/ r \in requests
                             \/ r.id = q.id /\ q.kind = "resize" /\ r.configured = q.size
    BY DEF HandledSays
  <1>8. Numbered'
    <2>1. \A e \in Range(toClient') : HasId(e) => e.id \in Ids
      BY <1>4, <1>5 DEF AInv, Numbered, HandledSays
    <2>2. \A r \in requests' : r.id \in Ids
      BY <1>5, <1>7 DEF AInv, Numbered
    <2> QED
      BY <1>1, <1>2, <2>1, <2>2 DEF AInv, Numbered, Ids, InFlight, HandlerRunning
  <1>9. Fits'
    <2> SUFFICES ASSUME NEW c \in Callers, InFlight(c)
                 PROVE  (QueueFits(c) /\ ResizesFit(c) /\ EventsFit(c)
                         /\ ProgressFits(c) /\ AnswerFits(c))'
      BY DEF Fits, InFlight
    <2>1. QueueFits(c) /\ ResizesFit(c) /\ EventsFit(c) /\ ProgressFits(c) /\ AnswerFits(c)
      BY DEF AInv, Fits
    <2>2. QueueFits(c)'
      BY <1>2, <2>1 DEF QueueFits, RequestOf
    <2>3. ResizesFit(c)'
      BY <1>6, <1>7, <2>1 DEF ResizesFit
    <2>4. EventsFit(c)'
      <3> SUFFICES ASSUME NEW e \in Range(events), HasId(e), e.id = call[c].id
                   PROVE  EventFits(call[c], view[c].windows, e)
        BY <1>4, <2>1 DEF EventsFit
      <3>1. e.id = q.id
        BY DEF HandledSays
      <3>2. q.rev = revision => Handles(view[c].windows) \subseteq Live
        BY <1>6, <3>1 DEF IInv, CurrentViewIsLive
      <3> QED
        BY <1>6, <3>1, <3>2 DEF EventFits, HandledSays
    <2>5. ProgressFits(c)' /\ AnswerFits(c)'
      BY <2>1 DEF ProgressFits, AnswerFits, HandlerRunning
    <2> QED
      BY <2>2, <2>3, <2>4, <2>5
  <1>10. /\ Ahead(q.id) /\ ~Answered(q.id) /\ ~Resizing(q.id) /\ ~Captured(q.id)
         /\ ~Finishing(q.id)
         /\ \A id \in Nat : Ahead(id)' => Ahead(id) /\ id # q.id
         /\ \A id \in Nat : Resizing(id)' => Resizing(id) \/ id = q.id
         /\ \A id \in Nat : Answered(id)' => Answered(id) \/ id = q.id
         /\ \A id \in Nat : Captured(id)' => Captured(id) \/ id = q.id
    <2>1. Sent(q.id)
      BY <1>2 DEF Sent
    <2>2. /\ Ahead(q.id) /\ ~Answered(q.id) /\ ~Resizing(q.id) /\ ~Captured(q.id)
          /\ ~Finishing(q.id)
      BY <1>5, <2>1 DEF Ahead, AInv, OnePlace, FramesLag
    <2>3. ASSUME NEW id \in Nat, Ahead(id)' PROVE Ahead(id) /\ id # q.id
      <3>1. CASE Sent(id)'
        BY <1>2, <3>1 DEF Sent, Ahead
      <3>2. CASE \E c \in Callers : call[c].pc = "registered" /\ call[c].id = id
        BY <2>1, <3>2 DEF Ahead, AInv, OnePlace
      <3> QED
        BY <2>3, <3>1, <3>2 DEF Ahead
    <2>4. \A id \in Nat : Resizing(id)' => Resizing(id) \/ id = q.id
      BY <1>7 DEF Resizing
    <2>5. \A id \in Nat : Answered(id)' => Answered(id) \/ id = q.id
      <3>1. \A e \in Range(events) : Terminal(e) => e.id = q.id
        BY DEF HandledSays, Terminal, HasId
      <3> QED
        BY <1>4, <3>1 DEF Answered
    <2>6. \A id \in Nat : Captured(id)' => Captured(id) \/ id = q.id
      <3>1. \A e \in Range(events) : e.ev # "frame"
        BY DEF HandledSays
      <3>2. \/ capturePending' = capturePending /\ captureID' = captureID
            \/ captureID' = q.id
        BY DEF HandledSays
      <3> QED
        BY <1>4, <3>1, <3>2 DEF Captured
    <2> QED
      BY <2>2, <2>3, <2>4, <2>5, <2>6
  <1>11. OnePlace'
    <2>1. \A c \in Callers : call'[c].pc = "registered" => ~Sent(call[c].id)'
      BY <1>2 DEF AInv, OnePlace, Sent
    <2>2. ToldOnce(toClient')
      <3>1. \A a \in Range(toClient), b \in Range(events) :
               Terminal(a) /\ Terminal(b) => a.id # b.id
        BY <1>10 DEF HandledSays, Terminal, HasId, Answered
      <3> QED
        BY <1>3, <3>1, JoinedOnce DEF AInv, OnePlace, HandledSays
    <2>3. ASSUME NEW r \in requests', NEW s \in requests', r.id = s.id PROVE r = s
      <3>1. CASE requests' \subseteq requests
        BY <2>3, <3>1 DEF AInv, OnePlace
      <3>2. CASE \E x : requests' \subseteq requests \cup {x} /\ x.id = q.id
        BY <1>10, <2>3, <3>2 DEF AInv, OnePlace, Resizing
      <3> QED
        BY <3>1, <3>2 DEF HandledSays
    <2>4. \A id \in Nat : Ahead(id)' => ~Resizing(id)' /\ ~Answered(id)'
      BY <1>10 DEF AInv, OnePlace
    <2>5. ASSUME NEW id \in Nat, Resizing(id)' PROVE ~Answered(id)'
      <3>1. CASE id = q.id
        <4>1. \A e \in Range(events) : ~Terminal(e)
          <5>1. ~(requests' \subseteq requests)
            BY <1>10, <2>5, <3>1 DEF Resizing
          <5> QED
            BY <5>1 DEF HandledSays
        <4> QED
          BY <1>4, <1>10, <3>1, <4>1 DEF Answered
      <3>2. CASE id # q.id
        BY <1>10, <2>5, <3>2 DEF AInv, OnePlace
      <3> QED
        BY <3>1, <3>2
    <2>6. \A id \in Nat : Finishing(id)' => ~Ahead(id)' /\ ~Resizing(id)' /\ ~Answered(id)'
      <3>1. \A id \in Nat : Finishing(id)' <=> Finishing(id)
        BY DEF Finishing, HandlerRunning
      <3> QED
        BY <1>10, <3>1 DEF AInv, OnePlace
    <2> QED
      BY <1>2, <2>1, <2>2, <2>3, <2>4, <2>5, <2>6 DEF OnePlace
  <1>12. FramesLag'
    <2>1. \A id \in Nat \ {0} : Captured(id)' => (id \in Ids)' /\ ~Ahead(id)'
      BY <1>5, <1>10 DEF AInv, FramesLag, Ids
    <2>2. /\ \A e \in Range(events) : e.ev # "frame"
          /\ \A e \in Range(events) : e.ev = "capture_authorized" => e.id = q.id
      BY DEF HandledSays, HasId
    <2>3. Ordered(toClient')
      <3>1. \A a \in Range(toClient) : a.ev = "frame" => a.captureID # q.id
        BY <1>10 DEF Captured
      <3> QED
        BY <1>3, <2>2, <3>1, JoinedOrdered DEF AInv, FramesLag
    <2>4. \A e \in Range(toClient'), f \in Range(frames) :
             e.ev = "capture_authorized" => f.captureID # e.id
      BY <1>4, <1>10, <2>2 DEF AInv, FramesLag, Captured
    <2> QED
      BY <2>1, <2>3, <2>4 DEF FramesLag
  <1> QED
    BY <1>8, <1>9, <1>11, <1>12 DEF AInv

(***************************************************************************)
(* An application changes its windows, or the output is repainted.         *)
(***************************************************************************)
LEMMA ApplicationsAnswers ==
    ASSUME TypeOK, IInv, AInv, Applications, UNCHANGED clientVars
    PROVE  AInv'
  <1> PICK events : EventsSay(events)
    BY ApplicationsSaySomething
  <1> USE DEF clientVars, cacheVars, linkVars
  <1>1. UNCHANGED <<toShell, controller, captureID, capturePending>>
    BY ApplicationsSaySomething
  <1>2. events \in Seq(Event) /\ toClient \in Seq(Event) /\ toClient' = toClient \o events
    BY DEF EventsSay, TypeOK, WireTypeOK
  <1>3. Range(toClient') = Range(toClient) \cup Range(events)
    BY <1>2, JoinedAt
  <1>4. requests' \subseteq requests
    BY DEF EventsSay
  <1>5. \A e \in Range(events) : HasId(e) =>
           /\ e.ev \in {"request_failed", "resize_done"}
           /\ \E r \in requests \ requests' :
                 /\ r.id = e.id
                 /\ e.ev = "resize_done" => /\ e.configured = r.configured
                                            /\ e.committed = r.configured
    BY DEF EventsSay
  <1>6. Numbered'
    <2>1. \A e \in Range(toClient') : HasId(e) => e.id \in Ids
      BY <1>3, <1>5 DEF AInv, Numbered
    <2> QED
      BY <1>1, <1>4, <2>1 DEF AInv, Numbered, Ids, InFlight, HandlerRunning
  <1>7. Fits'
    <2> SUFFICES ASSUME NEW c \in Callers, InFlight(c)
                 PROVE  (QueueFits(c) /\ ResizesFit(c) /\ EventsFit(c)
                         /\ ProgressFits(c) /\ AnswerFits(c))'
      BY DEF Fits, InFlight
    <2>1. QueueFits(c) /\ ResizesFit(c) /\ EventsFit(c) /\ ProgressFits(c) /\ AnswerFits(c)
      BY DEF AInv, Fits
    <2>2. QueueFits(c)' /\ ResizesFit(c)' /\ ProgressFits(c)' /\ AnswerFits(c)'
      BY <1>1, <1>4, <2>1
         DEF QueueFits, RequestOf, ResizesFit, ProgressFits, AnswerFits, HandlerRunning
    <2>3. ASSUME NEW e \in Range(events), HasId(e), e.id = call[c].id
          PROVE  EventFits(call[c], view[c].windows, e)
      <3>1. PICK r \in requests :
               /\ r.id = call[c].id
               /\ e.ev = "resize_done" => /\ e.configured = r.configured
                                          /\ e.committed = r.configured
        BY <1>5, <2>3
      <3>2. call[c].kind = "resize" /\ r.configured = call[c].size
        BY <2>1, <3>1 DEF ResizesFit
      <3>3. e.ev \in {"request_failed", "resize_done"}
        BY <1>5, <2>3
      <3> QED
        BY <3>1, <3>2, <3>3 DEF EventFits
    <2>4. EventsFit(c)'
      BY <1>3, <2>1, <2>3 DEF EventsFit
    <2> QED
      BY <2>2, <2>4
  <1>8. /\ \A id \in Nat : Ahead(id)' <=> Ahead(id)
        /\ \A id \in Nat : Resizing(id)' => Resizing(id)
        /\ \A id \in Nat : Answered(id)' => Answered(id) \/ (Resizing(id) /\ ~Resizing(id)')
    <2>1. \A id \in Nat : Ahead(id)' <=> Ahead(id)
      BY <1>1 DEF Ahead, Sent
    <2>2. \A id \in Nat : Resizing(id)' => Resizing(id)
      BY <1>4 DEF Resizing
    <2>3. ASSUME NEW id \in Nat, Answered(id)', ~Answered(id)
          PROVE  Resizing(id) /\ ~Resizing(id)'
      <3>1. PICK e \in Range(events) : Terminal(e) /\ e.id = id
        BY <1>3, <2>3 DEF Answered
      <3>2. PICK r \in requests \ requests' : r.id = id
        BY <1>5, <3>1 DEF Terminal, HasId
      <3>3. \A s \in requests : s.id = id => s = r
        BY <3>2 DEF AInv, OnePlace
      <3> QED
        BY <1>4, <3>2, <3>3 DEF Resizing
    <2> QED
      BY <2>1, <2>2, <2>3
  <1>9. OnePlace'
    <2>1. /\ \A c \in Callers : call'[c].pc = "registered" => ~Sent(call[c].id)'
          /\ AskedOnce(toShell')
          /\ \A r, s \in requests' : r.id = s.id => r = s
      BY <1>1, <1>4 DEF AInv, OnePlace, Sent
    <2>2. ToldOnce(toClient')
      <3>1. ASSUME NEW a \in Range(toClient), NEW b \in Range(events),
                   Terminal(a), Terminal(b), a.id = b.id
            PROVE  FALSE
        <4>1. PICK r \in requests : r.id = b.id
          BY <1>5, <3>1 DEF Terminal, HasId
        <4>2. Resizing(b.id) /\ Answered(b.id) /\ b.id \in Nat
          BY <3>1, <4>1 DEF Resizing, Answered, TypeOK, ShellTypeOK, PendingResize
        <4> QED
          BY <4>2 DEF AInv, OnePlace
      <3> QED
        BY <1>2, <3>1, JoinedOnce DEF AInv, OnePlace, EventsSay
    <2>3. \A id \in Nat : Ahead(id)' => ~Resizing(id)' /\ ~Answered(id)'
      BY <1>8 DEF AInv, OnePlace
    <2>4. \A id \in Nat : Resizing(id)' => ~Answered(id)'
      BY <1>8 DEF AInv, OnePlace
    <2>5. \A id \in Nat : Finishing(id)' => ~Ahead(id)' /\ ~Resizing(id)' /\ ~Answered(id)'
      <3>1. \A id \in Nat : Finishing(id)' <=> Finishing(id)
        BY DEF Finishing, HandlerRunning
      <3> QED
        BY <1>8, <3>1 DEF AInv, OnePlace
    <2> QED
      BY <2>1, <2>2, <2>3, <2>4, <2>5 DEF OnePlace
  <1>10. FramesLag'
    <2>1. \A e \in Range(events) :
             (e.ev = "frame" /\ e.captureID # 0) => capturePending /\ captureID = e.captureID
      BY DEF EventsSay
    <2>2. \A e \in Range(events) : e.ev # "capture_authorized"
      BY <1>5 DEF HasId
    <2>3. \A id \in Nat \ {0} : Captured(id)' => Captured(id)
      BY <1>1, <1>3, <2>1 DEF Captured
    <2>4. \A id \in Nat \ {0} : Captured(id)' => (id \in Ids)' /\ ~Ahead(id)'
      BY <1>8, <2>3 DEF AInv, FramesLag, Ids
    <2>5. Ordered(toClient')
      BY <1>2, <2>2, JoinedOrdered DEF AInv, FramesLag
    <2>6. \A e \in Range(toClient'), f \in Range(frames) :
             e.ev = "capture_authorized" => f.captureID # e.id
      BY <1>3, <2>2 DEF AInv, FramesLag
    <2> QED
      BY <2>4, <2>5, <2>6 DEF FramesLag
  <1> QED
    BY <1>6, <1>7, <1>9, <1>10 DEF AInv

\* The socket is closed: nothing of the connection is left in the module.
LEMMA DisconnectAnswers == ASSUME TypeOK, AInv, Disconnect PROVE AInv'
  <1> USE DEF clientVars, cacheVars, linkVars
  <1>1. /\ toClient' = << >> /\ toShell' = << >> /\ requests' = {} /\ ~capturePending'
        /\ UNCHANGED clientVars
    BY DEF Disconnect, ControllerDestroyed, KeptAfterDestroy
  <1>2. Range(toShell') = {} /\ Range(toClient') = {}
    BY <1>1 DEF Range
  <1>3. Numbered'
    BY <1>1, <1>2 DEF AInv, Numbered, Ids, InFlight, HandlerRunning
  <1>4. Fits'
    BY <1>1, <1>2
       DEF AInv, Fits, InFlight, QueueFits, ResizesFit, EventsFit, ProgressFits, AnswerFits,
           HandlerRunning
  <1>5. OnePlace'
    <2>1. \A id \in Nat : Finishing(id)' => Finishing(id) /\ ~Ahead(id)
      BY <1>1 DEF AInv, OnePlace, Finishing, HandlerRunning
    <2> QED
      BY <1>1, <1>2, <2>1 DEF OnePlace, AskedOnce, ToldOnce, Sent, Ahead, Resizing, Answered
  <1>6. \A id \in Nat : Ahead(id)' => Ahead(id)
    BY <1>1, <1>2 DEF Ahead, Sent
  <1>7. \A id \in Nat : Captured(id)' => Captured(id)
    BY <1>1, <1>2 DEF Captured
  <1>8. FramesLag'
    BY <1>1, <1>2, <1>6, <1>7 DEF AInv, FramesLag, Ordered, Ids
  <1> QED
    BY <1>3, <1>4, <1>5, <1>8 DEF AInv

\* The numbers start again, and nothing that carries one is left.
LEMMA ConnectAnswers == ASSUME TypeOK, IInv, AInv, Connect PROVE AInv'
  <1>1. /\ toClient' = << >> /\ toShell' = << >> /\ resizeProgress' = {} /\ frames' = << >>
        /\ ~HandlerRunning' /\ call' = call /\ controller'
        /\ requests' = requests /\ capturePending' = capturePending /\ captureID' = captureID
    BY DEF Connect, CreateController, captureVars, HandlerRunning
  <1>2. requests = {} /\ ~capturePending
    BY DEF Connect, CreateController, AInv, Numbered
  <1>3. \A c \in Callers : call[c].pc = "idle"
    BY DEF Connect, Idle
  <1>4. Range(toShell') = {} /\ Range(toClient') = {} /\ Range(frames') = {}
    BY <1>1 DEF Range
  <1>5. Numbered' /\ Fits'
    BY <1>1, <1>2, <1>3, <1>4 DEF Numbered, Fits, InFlight
  <1>6. OnePlace'
    BY <1>1, <1>2, <1>3, <1>4
       DEF OnePlace, AskedOnce, ToldOnce, Sent, Ahead, Resizing, Answered, Finishing
  <1>7. FramesLag'
    BY <1>1, <1>2, <1>4 DEF FramesLag, Ordered, Captured
  <1> QED
    BY <1>5, <1>6, <1>7 DEF AInv

-----------------------------------------------------------------------------
(***************************************************************************)
(* The client's steps that send nothing.                                   *)
(***************************************************************************)
\* The call of c is what it was, but for its list and its reply.
SameCall(c) ==
    /\ call'[c].pc = call[c].pc /\ call'[c].id = call[c].id /\ call'[c].kind = call[c].kind
    /\ call'[c].handle = call[c].handle /\ call'[c].rev = call[c].rev
    /\ call'[c].size = call[c].size

\* A call goes on as it was, or is over.
CallGoesOn(c) ==
    (call'[c].pc # "idle") =>
        /\ InFlight(c) /\ view'[c] = view[c]
        /\ call'[c].pc = "registered" => call[c].pc = "registered"
        /\ call'[c].id = call[c].id /\ call'[c].kind = call[c].kind
        /\ call'[c].handle = call[c].handle /\ call'[c].rev = call[c].rev
        /\ call'[c].size = call[c].size
        /\ ReplyFits(call[c], view[c].windows, call'[c].reply)

\* A progress entry, or an answer, made for whoever has the id.
MadeFor(id, Fit(_)) == id \in Ids /\ \A c \in Callers : InFlight(c) /\ call[c].id = id => Fit(c)

HeadTaken == toClient # << >> /\ toClient' = Tail(toClient)

LEMMA QuietAnswers ==
    ASSUME TypeOK, AInv,
           UNCHANGED <<toShell, requests, controller, captureID, capturePending, nextRequestID>>,
           toClient' = toClient \/ HeadTaken,
           \A c \in Callers : CallGoesOn(c),
           \A p \in resizeProgress' :
              \/ p \in resizeProgress
              \/ MadeFor(p.id, LAMBDA c : call[c].kind = "resize" /\ p.configured = call[c].size),
           HandlerRunning' =>
              \/ HandlerRunning /\ finishing' = finishing
              \/ MadeFor(finishing'.id,
                         LAMBDA c : ReplyFits(call[c], view[c].windows, finishing'.reply)),
           \A id \in Nat : Finishing(id)' =>
              \/ Finishing(id)
              \/ HeadTaken /\ Terminal(Head(toClient)) /\ Head(toClient).id = id,
           \A f \in Range(frames') :
              \/ f \in Range(frames)
              \/ HeadTaken /\ f = Head(toClient) /\ f.ev = "frame"
    PROVE  AInv'
  <1>1. /\ Range(toClient') \subseteq Range(toClient)
        /\ ToldOnce(toClient') /\ Ordered(toClient')
        /\ HeadTaken => /\ Head(toClient) \in Range(toClient)
                        /\ \A e \in Range(toClient') :
                              Head(toClient).ev = "frame" /\ e.ev = "capture_authorized"
                                  => Head(toClient).captureID # e.id
                        /\ \A e \in Range(toClient') :
                              Terminal(Head(toClient)) /\ Terminal(e)
                                  => e.id # Head(toClient).id
    <2>1. toClient \in Seq(Event) /\ ToldOnce(toClient) /\ Ordered(toClient)
      BY DEF TypeOK, WireTypeOK, AInv, OnePlace, FramesLag
    <2>2. CASE HeadTaken
      BY <2>1, <2>2, TailAt DEF HeadTaken
    <2>3. CASE toClient' = toClient /\ ~HeadTaken
      BY <2>1, <2>3
    <2> QED
      BY <2>2, <2>3
  <1>2. \A c \in Callers : InFlight(c)' =>
           /\ InFlight(c) /\ view'[c] = view[c]
           /\ call'[c].pc = "registered" => call[c].pc = "registered"
           /\ call'[c].id = call[c].id /\ call'[c].kind = call[c].kind
           /\ call'[c].handle = call[c].handle /\ call'[c].rev = call[c].rev
           /\ call'[c].size = call[c].size
           /\ ReplyFits(call[c], view[c].windows, call'[c].reply)
    BY DEF CallGoesOn, InFlight
  <1>3. Numbered'
    <2>1. \A p \in resizeProgress' : p.id \in Ids
      BY DEF AInv, Numbered, MadeFor
    <2>2. HandlerRunning' => finishing'.id \in Ids
      BY DEF AInv, Numbered, MadeFor
    <2>3. /\ \A c \in Callers : InFlight(c)' => call'[c].id \in Ids /\ call'[c].rev = view'[c].rev
          /\ \A c, d \in Callers :
                InFlight(c)' /\ InFlight(d)' /\ call'[c].id = call'[d].id => c = d
      BY <1>2 DEF AInv, Numbered
    <2> QED
      BY <1>1, <2>1, <2>2, <2>3 DEF AInv, Numbered, Ids
  <1>4. Fits'
    <2> SUFFICES ASSUME NEW c \in Callers, InFlight(c)'
                 PROVE  (QueueFits(c) /\ ResizesFit(c) /\ EventsFit(c)
                         /\ ProgressFits(c) /\ AnswerFits(c))'
      BY DEF Fits
    <2>1. /\ InFlight(c)
          /\ QueueFits(c) /\ ResizesFit(c) /\ EventsFit(c) /\ ProgressFits(c) /\ AnswerFits(c)
      BY <1>2 DEF AInv, Fits
    <2>2. QueueFits(c)' /\ ResizesFit(c)'
      BY <1>2, <2>1 DEF QueueFits, RequestOf, ResizesFit
    <2>3. EventsFit(c)'
      BY <1>1, <1>2, <2>1 DEF EventsFit, EventFits
    <2>4. ProgressFits(c)'
      BY <1>2, <2>1 DEF ProgressFits, MadeFor
    <2>5. AnswerFits(c)'
      <3>1. \A r : ReplyFits(call[c], view[c].windows, r)
                      => ReplyFits(call'[c], view'[c].windows, r)
        BY <1>2 DEF ReplyFits
      <3>2. HandlerRunning' /\ finishing'.id = call[c].id
               => ReplyFits(call[c], view[c].windows, finishing'.reply)
        BY <2>1 DEF AnswerFits, MadeFor
      <3> QED
        BY <1>2, <3>1, <3>2 DEF AnswerFits
    <2> QED
      BY <2>2, <2>3, <2>4, <2>5
  <1>5. /\ \A id \in Nat : Ahead(id)' => Ahead(id)
        /\ \A id \in Nat : Resizing(id)' => Resizing(id)
        /\ \A id \in Nat : Answered(id)' => Answered(id)
    <2>1. \A c \in Callers : call'[c].pc = "registered" =>
             call[c].pc = "registered" /\ call'[c].id = call[c].id
      BY <1>2 DEF InFlight
    <2> QED
      BY <1>1, <2>1 DEF Ahead, Sent, Resizing, Answered
  <1>6. OnePlace'
    <2>1. \A c \in Callers : call'[c].pc = "registered" => ~Sent(call[c].id)'
      <3>1. \A c \in Callers : call'[c].pc = "registered" =>
               call[c].pc = "registered" /\ call'[c].id = call[c].id
        BY <1>2 DEF InFlight
      <3> QED
        BY <3>1 DEF AInv, OnePlace, Sent
    <2>2. ASSUME NEW id \in Nat, Finishing(id)'
          PROVE  ~Ahead(id)' /\ ~Resizing(id)' /\ ~Answered(id)'
      <3>1. CASE Finishing(id)
        BY <1>5, <3>1 DEF AInv, OnePlace
      <3>2. CASE HeadTaken /\ Terminal(Head(toClient)) /\ Head(toClient).id = id
        <4>1. Answered(id) /\ ~Answered(id)'
          BY <1>1, <3>2 DEF Answered
        <4> QED
          BY <1>5, <4>1 DEF AInv, OnePlace
      <3> QED
        BY <2>2, <3>1, <3>2
    <2> QED
      BY <1>1, <1>5, <2>1, <2>2 DEF AInv, OnePlace
  <1>7. FramesLag'
    <2>1. \A id \in Nat : Captured(id)' => Captured(id)
      BY <1>1 DEF Captured
    <2>2. \A id \in Nat \ {0} : Captured(id)' => (id \in Ids)' /\ ~Ahead(id)'
      BY <1>5, <2>1 DEF AInv, FramesLag, Ids
    <2>3. \A e \in Range(toClient'), f \in Range(frames') :
             e.ev = "capture_authorized" => f.captureID # e.id
      BY <1>1 DEF AInv, FramesLag
    <2> QED
      BY <1>1, <2>2, <2>3 DEF FramesLag
  <1> QED
    BY <1>3, <1>4, <1>6, <1>7 DEF AInv

\* The call of c keeps its place, and holds the reply r or the one it had.
LEMMA GoesOn ==
    ASSUME AInv, NEW c \in Callers, SameCall(c), view'[c] = view[c], NEW r,
           call'[c].reply = call[c].reply \/ call'[c].reply = r,
           (InFlight(c) /\ call'[c].reply = r) => ReplyFits(call[c], view[c].windows, r)
    PROVE  CallGoesOn(c)
  <1>1. InFlight(c) => ReplyFits(call[c], view[c].windows, call[c].reply)
    BY DEF AInv, Fits, AnswerFits
  <1> QED
    BY <1>1 DEF CallGoesOn, SameCall, InFlight

LEMMA ListedSame ==
    ASSUME TypeOK, NEW lists, ListsBecome(lists), NEW c \in Callers
    PROVE  SameCall(c) /\ call'[c].reply = call[c].reply
  <1>1. call[c] \in Call
    BY DEF TypeOK, ClientTypeOK
  <1>2. call'[c] = IF c \in pending /\ call[c].kind = "snapshot"
                   THEN [call[c] EXCEPT !.list = lists[c]] ELSE call[c]
    BY DEF ListsBecome
  <1> QED
    BY <1>1, <1>2 DEF Call, SameCall

LEMMA WokenSame ==
    ASSUME TypeOK, NEW woken, NEW r, call' = Woken(woken, r), NEW c \in Callers
    PROVE  SameCall(c) /\ call'[c].reply = IF c \in woken THEN r ELSE call[c].reply
  <1>1. call[c] \in Call
    BY DEF TypeOK, ClientTypeOK
  <1>2. call'[c] = IF c \in woken THEN [call[c] EXCEPT !.reply = r] ELSE call[c]
    BY DEF Woken
  <1> QED
    BY <1>1, <1>2 DEF Call, SameCall

\* finish wakes the one caller the answer was made for.
LEMMA FinishGoesOn ==
    ASSUME TypeOK, AInv, NEW id, NEW r, Finish(id, r), view' = view,
           \A c \in Callers : InFlight(c) /\ call[c].id = id
                                 => ReplyFits(call[c], view[c].windows, r)
    PROVE  \A c \in Callers : CallGoesOn(c)
  <1> TAKE c \in Callers
  <1>1. SameCall(c) /\ call'[c].reply = IF c \in Owner(id) THEN r ELSE call[c].reply
    BY WokenSame DEF Finish
  <1>2. CASE c \in Owner(id)
    <2>1. call[c].id = id /\ call'[c].reply = r
      BY <1>1, <1>2 DEF Owner
    <2> QED
      BY <1>1, <2>1, GoesOn
  <1>3. CASE c \notin Owner(id)
    <2>1. InFlight(c) => ReplyFits(call[c], view[c].windows, call[c].reply)
      BY DEF AInv, Fits, AnswerFits
    <2> QED
      BY <1>1, <1>3, <2>1, GoesOn
  <1> QED
    BY <1>2, <1>3

LEMMA UntouchedGoesOn ==
    ASSUME AInv, call' = call, NEW c \in Callers, view'[c] = view[c]
    PROVE  CallGoesOn(c)
  <1>1. InFlight(c) => ReplyFits(call[c], view[c].windows, call[c].reply)
    BY DEF AInv, Fits, AnswerFits
  <1> QED
    BY <1>1, GoesOn DEF SameCall

LEMMA DispatchAnswers ==
    ASSUME TypeOK, AInv, Dispatch, UNCHANGED shellVars
    PROVE  AInv'
  <1> PICK e : e = Head(toClient)
    OBVIOUS
  <1> USE DEF cacheVars, linkVars
  <1>1. HeadTaken /\ view' = view /\ ~HandlerRunning
        /\ UNCHANGED <<toShell, requests, controller, captureID, capturePending, nextRequestID>>
    BY DEF Dispatch, HeadTaken, shellVars, captureVars
  <1>2. e \in Event /\ e \in Range(toClient)
    <2>1. toClient \in Seq(Event)
      BY DEF TypeOK, WireTypeOK
    <2> QED
      BY <1>1, <2>1, TailAt, HeadTailProperties DEF HeadTaken
  <1>3. HasId(e) => /\ e.id \in Ids
                    /\ \A c \in Callers : InFlight(c) /\ call[c].id = e.id
                                             => EventFits(call[c], view[c].windows, e)
    BY <1>2 DEF AInv, Numbered, Fits, EventsFit
  <1>4. CASE OnSnapshot(e) \/ OnToplevelChanged(e) \/ OnToplevelRemoved(e)
    <2>1. PICK lists : ListsBecome(lists)
      BY <1>4 DEF OnSnapshot, OnToplevelChanged, OnToplevelRemoved
    <2>2. \A c \in Callers : CallGoesOn(c)
      <3> TAKE c \in Callers
      <3>1. SameCall(c) /\ call'[c].reply = call[c].reply
        BY <2>1, ListedSame
      <3>2. InFlight(c) => ReplyFits(call[c], view[c].windows, call[c].reply)
        BY DEF AInv, Fits, AnswerFits
      <3> QED
        BY <1>1, <3>1, <3>2, GoesOn
    <2>3. resizeProgress' = resizeProgress /\ frames' = frames /\ finishing' = finishing
      BY <1>4 DEF OnSnapshot, OnToplevelChanged, OnToplevelRemoved
    <2> QED
      BY <1>1, <2>2, <2>3, QuietAnswers DEF Finishing, HandlerRunning
  <1>5. CASE OnRequestDone(e)
    <2>1. /\ call' = call /\ resizeProgress' = resizeProgress /\ frames' = frames
          /\ finishing' = [id |-> e.id, reply |-> DoneReply(e.rev)] /\ e.ev = "request_done"
      BY <1>5 DEF OnRequestDone
    <2>2. \A c \in Callers : InFlight(c) /\ call[c].id = e.id
                                => ReplyFits(call[c], view[c].windows, DoneReply(e.rev))
      <3>1. DoneReply(e.rev).code = "none"
        BY DEF DoneReply, NoReply
      <3> QED
        BY <1>3, <2>1, <3>1 DEF HasId, EventFits, ReplyFits
    <2>3. finishing'.id = e.id /\ finishing'.reply = DoneReply(e.rev)
      BY <2>1
    <2>4. MadeFor(finishing'.id, LAMBDA c : ReplyFits(call[c], view[c].windows, finishing'.reply))
      BY <1>3, <2>1, <2>2, <2>3 DEF MadeFor, HasId
    <2>5. \A c \in Callers : CallGoesOn(c)
      BY <1>1, <2>1, UntouchedGoesOn
    <2> QED
      BY <1>1, <2>1, <2>3, <2>4, <2>5, QuietAnswers DEF Finishing, Terminal
  <1>6. CASE OnResizeDone(e)
    <2>1. /\ call' = call /\ frames' = frames /\ e.ev = "resize_done"
          /\ resizeProgress' = Observed(e.id, e.configured, e.committed)
          /\ finishing' = [id |-> e.id, reply |-> ResizedReply(e)]
      BY <1>6 DEF OnResizeDone
    <2>2. \A c \in Callers : InFlight(c) /\ call[c].id = e.id =>
             /\ ReplyFits(call[c], view[c].windows, ResizedReply(e))
             /\ call[c].kind = "resize" /\ e.configured = call[c].size
      <3>1. /\ ResizedReply(e).configured = e.configured
            /\ ResizedReply(e).committed = e.committed
        BY DEF ResizedReply
      <3> QED
        BY <1>3, <2>1, <3>1 DEF HasId, EventFits, ReplyFits
    <2>3. finishing'.id = e.id /\ finishing'.reply = ResizedReply(e)
      BY <2>1
    <2>4. MadeFor(finishing'.id, LAMBDA c : ReplyFits(call[c], view[c].windows, finishing'.reply))
      BY <1>3, <2>1, <2>2, <2>3 DEF MadeFor, HasId
    <2>5. \A p \in resizeProgress' :
             \/ p \in resizeProgress
             \/ MadeFor(p.id, LAMBDA c : call[c].kind = "resize" /\ p.configured = call[c].size)
      <3>1. \A p \in resizeProgress' :
               \/ p \in resizeProgress
               \/ p = [id |-> e.id, configured |-> e.configured, committed |-> e.committed]
        BY <2>1 DEF Observed
      <3> QED
        BY <1>3, <2>1, <2>2, <3>1 DEF MadeFor, HasId
    <2>6. \A c \in Callers : CallGoesOn(c)
      BY <1>1, <2>1, UntouchedGoesOn
    <2> QED
      BY <1>1, <2>1, <2>3, <2>4, <2>5, <2>6, QuietAnswers DEF Finishing, Terminal
  <1>7. CASE OnResizeConfigured(e)
    <2>1. /\ call' = call /\ frames' = frames /\ finishing' = finishing
          /\ e.ev = "resize_configured"
          /\ resizeProgress' = Observed(e.id, e.configured, NoSize)
      BY <1>7 DEF OnResizeConfigured
    <2>2. \A c \in Callers : InFlight(c) /\ call[c].id = e.id =>
             call[c].kind = "resize" /\ e.configured = call[c].size
      BY <1>3, <2>1 DEF HasId, EventFits
    <2>3. \A p \in resizeProgress' :
             \/ p \in resizeProgress
             \/ MadeFor(p.id, LAMBDA c : call[c].kind = "resize" /\ p.configured = call[c].size)
      <3>1. \A p \in resizeProgress' :
               \/ p \in resizeProgress
               \/ p = [id |-> e.id, configured |-> e.configured, committed |-> NoSize]
        BY <2>1 DEF Observed
      <3> QED
        BY <1>3, <2>1, <2>2, <3>1 DEF MadeFor, HasId
    <2>4. \A c \in Callers : CallGoesOn(c)
      BY <1>1, <2>1, UntouchedGoesOn
    <2> QED
      BY <1>1, <2>1, <2>3, <2>4, QuietAnswers DEF Finishing, HandlerRunning
  <1>8. ASSUME NEW r, Finish(e.id, r), frames' = frames, finishing' = finishing,
               \A c \in Callers : InFlight(c) /\ call[c].id = e.id
                                     => ReplyFits(call[c], view[c].windows, r)
        PROVE  AInv'
    <2>1. resizeProgress' \subseteq resizeProgress
      BY <1>8 DEF Finish
    <2>2. \A c \in Callers : CallGoesOn(c)
      BY <1>1, <1>8, FinishGoesOn
    <2> QED
      BY <1>1, <1>8, <2>1, <2>2, QuietAnswers DEF Finishing, HandlerRunning
  <1>9. CASE OnRequestFailed(e)
    <2>1. /\ e.ev = "request_failed" /\ Finish(e.id, FailedReply(e.code))
          /\ frames' = frames /\ finishing' = finishing
      BY <1>9 DEF OnRequestFailed
    <2>2. FailedReply(e.code).status = "failed" /\ FailedReply(e.code).code = e.code
      BY DEF FailedReply, NoReply
    <2>3. \A c \in Callers : InFlight(c) /\ call[c].id = e.id
                                => ReplyFits(call[c], view[c].windows, FailedReply(e.code))
      BY <1>3, <2>1, <2>2 DEF HasId, EventFits, ReplyFits
    <2> QED
      BY <1>8, <2>1, <2>3
  <1>10. CASE OnCaptureAuthorized(e)
    <2>1. /\ e.ev = "capture_authorized" /\ Finish(e.id, DoneReply(0))
          /\ frames' = frames /\ finishing' = finishing
      BY <1>10 DEF OnCaptureAuthorized
    <2>2. DoneReply(0).code = "none"
      BY DEF DoneReply, NoReply
    <2>3. \A c \in Callers : InFlight(c) /\ call[c].id = e.id
                                => ReplyFits(call[c], view[c].windows, DoneReply(0))
      BY <1>3, <2>1, <2>2 DEF HasId, EventFits, ReplyFits
    <2> QED
      BY <1>8, <2>1, <2>3
  <1>11. CASE OnFrame(e)
    <2>1. /\ call' = call /\ resizeProgress' = resizeProgress /\ finishing' = finishing
          /\ e.ev = "frame" /\ (frames' = Append(frames, e) \/ frames' = frames)
      BY <1>11 DEF OnFrame
    <2>2. Range(frames') \subseteq Range(frames) \cup {e}
      <3>1. frames \in Seq(FrameEvents) /\ e \in FrameEvents
        BY <1>2, <2>1, EventOfKind DEF TypeOK, ClientTypeOK
      <3> DEFINE one == <<e>>
      <3>2. one \in Seq(FrameEvents) /\ Range(one) = {e} /\ Append(frames, e) = frames \o one
        <4>1. Append(frames, e) = frames \o one
          BY <3>1, AppendIsConcat
        <4>2. Range(one) = {e}
          BY <3>1, RangeSmall
        <4> QED
          BY <3>1, <4>1, <4>2
      <3> HIDE DEF one
      <3>3. Range(Append(frames, e)) = Range(frames) \cup Range(one)
        <4>1. Range(frames \o one) = Range(frames) \cup Range(one) BY <3>1, <3>2, JoinedAt
        <4> QED BY <3>2, <4>1
      <3> QED
        BY <2>1, <3>2, <3>3
    <2>3. \A c \in Callers : CallGoesOn(c)
      BY <1>1, <2>1, UntouchedGoesOn
    <2> QED
      BY <1>1, <2>1, <2>2, <2>3, QuietAnswers DEF Finishing, HandlerRunning
  <1> QED
    BY <1>4, <1>5, <1>6, <1>7, <1>9, <1>10, <1>11 DEF Dispatch

LEMMA FinishHandlerAnswers ==
    ASSUME TypeOK, AInv, FinishHandler, UNCHANGED shellVars
    PROVE  AInv'
  <1> PICK r : r = finishing.reply
    OBVIOUS
  <1>1. /\ Finish(finishing.id, r) /\ HandlerRunning /\ ~HandlerRunning' /\ view' = view
        /\ UNCHANGED <<toShell, toClient, requests, controller, captureID, capturePending,
                       nextRequestID, frames>>
    BY DEF FinishHandler, HandlerRunning, wireVars, shellVars, captureVars
  <1>2. \A c \in Callers : InFlight(c) /\ call[c].id = finishing.id
                              => ReplyFits(call[c], view[c].windows, r)
    BY <1>1 DEF AInv, Fits, AnswerFits
  <1>3. \A c \in Callers : CallGoesOn(c)
    BY <1>1, <1>2, FinishGoesOn
  <1>4. resizeProgress' \subseteq resizeProgress
    BY <1>1 DEF Finish
  <1> QED
    BY <1>1, <1>3, <1>4, QuietAnswers DEF Finishing

\* A caller's own step, Issue apart, puts its call in place x or ends it.
LEMMA PlacedAnswers ==
    ASSUME TypeOK, AInv, UNCHANGED shellVars, NEW c \in Callers, NEW x,
           call' = [call EXCEPT ![c] = x],
           \/ x = NoCall
           \/ /\ InFlight(c) /\ x.pc # "registered" /\ x.id = call[c].id
              /\ x.kind = call[c].kind /\ x.handle = call[c].handle /\ x.rev = call[c].rev
              /\ x.size = call[c].size /\ x.reply = call[c].reply /\ view' = view,
           \A d \in Callers \ {c} : view'[d] = view[d],
           UNCHANGED <<wireVars, nextRequestID, frames, finishing>>,
           resizeProgress' \subseteq resizeProgress
    PROVE  AInv'
  <1>1. call \in [Callers -> Call]
    BY DEF TypeOK, ClientTypeOK
  <1>2. \A d \in Callers : call'[d] = IF d = c THEN x ELSE call[d]
    BY <1>1
  <1>3. ASSUME NEW d \in Callers PROVE CallGoesOn(d)
    <2>1. InFlight(d) => ReplyFits(call[d], view[d].windows, call[d].reply)
      BY DEF AInv, Fits, AnswerFits
    <2>2. NoCall.pc = "idle"
      BY DEF NoCall
    <2> QED
      BY <1>2, <2>1, <2>2 DEF CallGoesOn, InFlight
  <1>4. UNCHANGED <<toShell, toClient, requests, controller, captureID, capturePending,
                    nextRequestID, frames, finishing>>
    BY DEF wireVars, shellVars, captureVars
  <1> QED
    BY <1>3, <1>4, QuietAnswers DEF Finishing, HandlerRunning

LEMMA IssueAnswers ==
    ASSUME TypeOK, AInv, UNCHANGED shellVars, NEW c \in Callers, Issue(c)
    PROVE  AInv'
  <1> USE DEF cacheVars, linkVars
  <1> PICK q : q = RequestOf(c)
    OBVIOUS
  <1>1. /\ call[c].pc = "registered" /\ toShell' = Append(toShell, q)
        /\ UNCHANGED <<toClient, nextRequestID, resizeProgress, frames, finishing, view>>
        /\ UNCHANGED <<requests, controller, captureID, capturePending>>
    BY DEF Issue, shellVars, captureVars
  <1>2. /\ toShell \in Seq(Request) /\ q \in Request /\ q.id = call[c].id
        /\ call \in [Callers -> Call] /\ q.id \in Nat
    <2>1. call[c] \in Call
      BY DEF TypeOK, ClientTypeOK
    <2> QED
      BY <1>1, <2>1 DEF TypeOK, WireTypeOK, ClientTypeOK, RequestOf, Request, Call
  <1>3. \A d \in Callers :
           /\ call'[d].id = call[d].id /\ call'[d].kind = call[d].kind
           /\ call'[d].handle = call[d].handle /\ call'[d].rev = call[d].rev
           /\ call'[d].size = call[d].size /\ call'[d].reply = call[d].reply
           /\ call'[d].pc = IF d = c THEN "waiting" ELSE call[d].pc
    <2> TAKE d \in Callers
    <2>1. call[d] \in Call /\ call[c] \in Call
      BY <1>2
    <2>2. call'[d] = IF d = c THEN [call[c] EXCEPT !.pc = "waiting"] ELSE call[d]
      BY <1>2 DEF Issue
    <2> QED
      BY <2>1, <2>2 DEF Call
  <1>4. \A d \in Callers : (InFlight(d)' <=> InFlight(d)) /\ RequestOf(d)' = RequestOf(d)
    BY <1>1, <1>3 DEF InFlight, RequestOf
  <1>5. /\ Len(toShell) \in Nat /\ Len(toShell') = Len(toShell) + 1
        /\ \A i \in 1 .. Len(toShell) : toShell'[i] = toShell[i] /\ toShell[i] \in Range(toShell)
        /\ toShell'[Len(toShell) + 1] = q
        /\ Range(toShell') = Range(toShell) \cup {q}
    <2>1. /\ Len(toShell) \in Nat /\ Len(toShell') = Len(toShell) + 1
          /\ \A i \in 1 .. Len(toShell) : toShell'[i] = toShell[i] /\ toShell[i] \in Range(toShell)
          /\ toShell'[Len(toShell) + 1] = q
      BY <1>1, <1>2, AppendProperties, InRange
    <2>2. Range(toShell') = Range(toShell) \cup {q}
      <3> DEFINE one == <<q>>
      <3>1. one \in Seq(Request) /\ toShell' = toShell \o one
        BY <1>1, <1>2, AppendIsConcat
      <3>2. Range(one) = {q}
        BY <1>2, RangeSmall
      <3> HIDE DEF one
      <3> QED
        BY <1>2, <3>1, <3>2, JoinedAt
    <2> QED
      BY <2>1, <2>2
  <1>6. InFlight(c) /\ q.id \in Ids /\ ~Sent(q.id)
    BY <1>1, <1>2 DEF InFlight, AInv, Numbered, OnePlace
  <1>7. Numbered'
    <2>1. \A a \in Range(toShell') : a.id \in Ids
      BY <1>5, <1>6 DEF AInv, Numbered
    <2>2. /\ \A d \in Callers : InFlight(d)' => call'[d].id \in Ids /\ call'[d].rev = view'[d].rev
          /\ \A d, b \in Callers :
                InFlight(d)' /\ InFlight(b)' /\ call'[d].id = call'[b].id => d = b
      BY <1>1, <1>3, <1>4 DEF AInv, Numbered
    <2> QED
      BY <1>1, <2>1, <2>2 DEF AInv, Numbered, Ids, HandlerRunning
  <1>8. Fits'
    <2> SUFFICES ASSUME NEW d \in Callers, InFlight(d)'
                 PROVE  (QueueFits(d) /\ ResizesFit(d) /\ EventsFit(d)
                         /\ ProgressFits(d) /\ AnswerFits(d))'
      BY DEF Fits
    <2>1. /\ InFlight(d)
          /\ QueueFits(d) /\ ResizesFit(d) /\ EventsFit(d) /\ ProgressFits(d) /\ AnswerFits(d)
      BY <1>4 DEF AInv, Fits
    <2>2. QueueFits(d)'
      <3>1. q.id = call[d].id => d = c
        BY <1>2, <1>6, <2>1 DEF AInv, Numbered
      <3> QED
        BY <1>3, <1>4, <1>5, <2>1, <3>1 DEF QueueFits
    <2>3. ResizesFit(d)' /\ ProgressFits(d)'
      BY <1>1, <1>3, <2>1 DEF ResizesFit, ProgressFits
    <2>4. EventsFit(d)'
      BY <1>1, <1>3, <2>1 DEF EventsFit, EventFits
    <2>5. AnswerFits(d)'
      BY <1>1, <1>3, <2>1 DEF AnswerFits, ReplyFits, HandlerRunning
    <2> QED
      BY <2>2, <2>3, <2>4, <2>5
  <1>9. /\ \A id \in Nat : Ahead(id)' => Ahead(id)
        /\ \A id \in Nat : Resizing(id)' => Resizing(id)
        /\ \A id \in Nat : Answered(id)' => Answered(id)
        /\ \A id \in Nat : Captured(id)' => Captured(id)
    <2>1. Ahead(q.id)
      BY <1>1, <1>2 DEF Ahead
    <2>2. ASSUME NEW id \in Nat, Ahead(id)' PROVE Ahead(id)
      <3>1. CASE Sent(id)'
        BY <1>5, <2>1, <3>1 DEF Sent, Ahead
      <3>2. CASE \E d \in Callers : call'[d].pc = "registered" /\ call'[d].id = id
        BY <1>3, <3>2 DEF Ahead
      <3> QED
        BY <2>2, <3>1, <3>2 DEF Ahead
    <2> QED
      BY <1>1, <2>2 DEF Resizing, Answered, Captured
  <1>10. OnePlace'
    <2>1. ASSUME NEW d \in Callers, call'[d].pc = "registered" PROVE ~Sent(call[d].id)'
      <3>1. d # c /\ call[d].pc = "registered" /\ InFlight(d)
        BY <1>3, <2>1 DEF InFlight
      <3>2. call[d].id # q.id /\ ~Sent(call[d].id)
        BY <1>2, <1>6, <3>1 DEF AInv, Numbered, OnePlace
      <3> QED
        BY <1>3, <1>5, <3>2 DEF Sent
    <2>2. AskedOnce(toShell')
      <3>1. ASSUME NEW i \in 1 .. Len(toShell'), NEW j \in 1 .. Len(toShell'),
                   toShell'[i].id = toShell'[j].id
            PROVE  i = j
        <4>1. CASE i \in 1 .. Len(toShell) /\ j \in 1 .. Len(toShell)
          BY <1>5, <3>1, <4>1 DEF AInv, OnePlace, AskedOnce
        <4>2. \A k \in 1 .. Len(toShell) : toShell'[k].id # q.id
          BY <1>5, <1>6 DEF Sent
        <4> QED
          BY <1>5, <3>1, <4>1, <4>2
      <3> QED
        BY <3>1 DEF AskedOnce
    <2>3. ToldOnce(toClient') /\ \A r, s \in requests' : r.id = s.id => r = s
      BY <1>1 DEF AInv, OnePlace
    <2>4. /\ \A id \in Nat : Ahead(id)' => ~Resizing(id)' /\ ~Answered(id)'
          /\ \A id \in Nat : Resizing(id)' => ~Answered(id)'
          /\ \A id \in Nat : Finishing(id)' => ~Ahead(id)' /\ ~Resizing(id)' /\ ~Answered(id)'
      <3>1. \A id \in Nat : Finishing(id)' <=> Finishing(id)
        BY <1>1 DEF Finishing, HandlerRunning
      <3> QED
        BY <1>9, <3>1 DEF AInv, OnePlace
    <2> QED
      BY <2>1, <2>2, <2>3, <2>4 DEF OnePlace
  <1>11. FramesLag'
    <2>1. \A id \in Nat \ {0} : Captured(id)' => (id \in Ids)' /\ ~Ahead(id)'
      BY <1>1, <1>9 DEF AInv, FramesLag, Ids
    <2> QED
      BY <1>1, <2>1 DEF AInv, FramesLag
  <1> QED
    BY <1>7, <1>8, <1>10, <1>11 DEF AInv

\* A new call takes the next number, which nothing carries yet.
LEMMA BeginAnswers ==
    ASSUME TypeOK, AInv, UNCHANGED shellVars, NEW c \in Callers, StartCall(c)
    PROVE  AInv'
  <1> USE DEF cacheVars, linkVars, wireVars
  <1> PICK n : n = nextRequestID + 1
    OBVIOUS
  <1>1. PICK kind, h, size : Begin(c, kind, h, size)
    BY DEF StartCall
  <1> DEFINE x == [pc |-> "registered", kind |-> kind, id |-> nextRequestID',
                   handle |-> h, rev |-> view[c].rev, size |-> size,
                   list |-> {}, reply |-> NoReply]
  <1>2. /\ x.pc = "registered" /\ x.id = n /\ x.rev = view[c].rev /\ x.reply = NoReply
        /\ call' = [call EXCEPT ![c] = x] /\ call[c].pc = "idle" /\ nextRequestID' = n
        /\ UNCHANGED <<toShell, toClient, resizeProgress, frames, finishing, view>>
        /\ UNCHANGED <<requests, controller, captureID, capturePending>>
    BY <1>1 DEF Begin, shellVars, captureVars
  <1> HIDE DEF x
  <1>3. /\ nextRequestID \in Nat /\ n \in Nat \ {0} /\ n \notin Ids /\ Ids' = Ids \cup {n}
        /\ call \in [Callers -> Call]
    BY <1>2 DEF TypeOK, ClientTypeOK, Ids
  <1>4. \A d \in Callers : call'[d] = IF d = c THEN x ELSE call[d]
    BY <1>2, <1>3
  <1>5. \A d \in Callers : InFlight(d)' <=> d = c \/ InFlight(d)
    BY <1>2, <1>4 DEF InFlight
  <1>6. \A d \in Callers : InFlight(d) => d # c /\ call'[d] = call[d] /\ call[d].id \in Ids
    BY <1>2, <1>4 DEF InFlight, AInv, Numbered
  <1>7. Numbered'
    <2>1. \A d \in Callers : InFlight(d)' => (call[d].id \in Ids)' /\ call'[d].rev = view'[d].rev
      BY <1>2, <1>3, <1>4, <1>5, <1>6 DEF AInv, Numbered
    <2>2. \A d, b \in Callers :
             InFlight(d)' /\ InFlight(b)' /\ call'[d].id = call'[b].id => d = b
      BY <1>2, <1>3, <1>4, <1>5, <1>6 DEF AInv, Numbered
    <2>3. /\ \A q \in Range(toShell) : q.id \in Ids'
          /\ \A r \in requests : r.id \in Ids'
          /\ \A e \in Range(toClient) : HasId(e) => e.id \in Ids'
          /\ \A p \in resizeProgress : p.id \in Ids'
          /\ HandlerRunning => finishing.id \in Ids'
      BY <1>3 DEF AInv, Numbered
    <2>4. controller \/ (requests = {} /\ ~capturePending)
      BY DEF AInv, Numbered
    <2> QED
      BY <1>2, <2>1, <2>2, <2>3, <2>4 DEF Numbered, HandlerRunning
  <1>8. Fits'
    <2> SUFFICES ASSUME NEW d \in Callers, InFlight(d)'
                 PROVE  (QueueFits(d) /\ ResizesFit(d) /\ EventsFit(d)
                         /\ ProgressFits(d) /\ AnswerFits(d))'
      BY DEF Fits
    <2>1. CASE d = c
      <3>1. call'[d].id = n /\ call'[d].reply = NoReply
        BY <1>2, <1>4, <2>1
      <3>2. NoReply.status = "none" /\ NoReply.code = "none"
        BY DEF NoReply
      <3>3. /\ \A q \in Range(toShell) : q.id # n
            /\ \A r \in requests : r.id # n
            /\ \A e \in Range(toClient) : HasId(e) => e.id # n
            /\ \A p \in resizeProgress : p.id # n
            /\ HandlerRunning => finishing.id # n
        BY <1>3 DEF AInv, Numbered
      <3>4. QueueFits(d)' /\ ResizesFit(d)' /\ EventsFit(d)' /\ ProgressFits(d)'
        BY <1>2, <3>1, <3>3 DEF QueueFits, ResizesFit, EventsFit, ProgressFits
      <3>5. AnswerFits(d)'
        BY <1>2, <3>1, <3>2, <3>3 DEF AnswerFits, ReplyFits, HandlerRunning
      <3> QED
        BY <3>4, <3>5
    <2>2. CASE InFlight(d)
      <3>1. /\ call'[d] = call[d] /\ view'[d] = view[d]
            /\ QueueFits(d) /\ ResizesFit(d) /\ EventsFit(d) /\ ProgressFits(d) /\ AnswerFits(d)
        BY <1>2, <1>6, <2>2 DEF AInv, Fits
      <3> QED
        BY <1>2, <3>1
           DEF QueueFits, RequestOf, ResizesFit, EventsFit, ProgressFits, AnswerFits,
               HandlerRunning
    <2> QED
      BY <1>5, <2>1, <2>2
  <1>9. /\ \A id \in Nat : Ahead(id)' => Ahead(id) \/ id = n
        /\ ~Resizing(n) /\ ~Answered(n) /\ ~Captured(n) /\ ~Sent(n) /\ ~Finishing(n)
    <2>1. \A id \in Nat : Ahead(id)' => Ahead(id) \/ id = n
      BY <1>2, <1>4 DEF Ahead, Sent
    <2>2. ~Resizing(n) /\ ~Sent(n) /\ ~Finishing(n)
      BY <1>3 DEF AInv, Numbered, Resizing, Sent, Finishing
    <2>3. ~Answered(n)
      BY <1>3 DEF AInv, Numbered, Answered, Terminal, HasId
    <2>4. ~Captured(n)
      BY <1>3 DEF AInv, FramesLag
    <2> QED
      BY <2>1, <2>2, <2>3, <2>4
  <1>10. OnePlace'
    <2>1. ASSUME NEW d \in Callers, call'[d].pc = "registered" PROVE ~Sent(call[d].id)'
      BY <1>2, <1>4, <1>9, <2>1 DEF AInv, OnePlace, Sent
    <2>2. /\ AskedOnce(toShell') /\ ToldOnce(toClient')
          /\ \A r, s \in requests' : r.id = s.id => r = s
      BY <1>2 DEF AInv, OnePlace
    <2>3. /\ \A id \in Nat : Resizing(id)' <=> Resizing(id)
          /\ \A id \in Nat : Answered(id)' <=> Answered(id)
          /\ \A id \in Nat : Finishing(id)' <=> Finishing(id)
      BY <1>2 DEF Resizing, Answered, Finishing, HandlerRunning
    <2>4. /\ \A id \in Nat : Ahead(id)' => ~Resizing(id)' /\ ~Answered(id)'
          /\ \A id \in Nat : Resizing(id)' => ~Answered(id)'
          /\ \A id \in Nat : Finishing(id)' => ~Ahead(id)' /\ ~Resizing(id)' /\ ~Answered(id)'
      BY <1>9, <2>3 DEF AInv, OnePlace
    <2> QED
      BY <2>1, <2>2, <2>4 DEF OnePlace
  <1>11. FramesLag'
    <2>1. \A id \in Nat : Captured(id)' <=> Captured(id)
      BY <1>2 DEF Captured
    <2>2. \A id \in Nat \ {0} : Captured(id)' => (id \in Ids)' /\ ~Ahead(id)'
      BY <1>3, <1>9, <2>1 DEF AInv, FramesLag
    <2> QED
      BY <1>2, <2>2 DEF AInv, FramesLag
  <1> QED
    BY <1>7, <1>8, <1>10, <1>11 DEF AInv

LEMMA CallerAnswers ==
    ASSUME TypeOK, AInv, UNCHANGED shellVars, NEW c \in Callers, CallerSteps(c) \/ GivesUp(c)
    PROVE  AInv'
  <1> USE DEF cacheVars, linkVars, quietVars
  <1>1. call[c] \in Call /\ view \in [Callers -> View]
    BY DEF TypeOK, ClientTypeOK
  <1>2. ASSUME call' = [call EXCEPT ![c] = NoCall], resizeProgress' \subseteq resizeProgress,
               UNCHANGED <<wireVars, nextRequestID, frames, finishing>>,
               \A d \in Callers \ {c} : view'[d] = view[d]
        PROVE  AInv'
    BY <1>2, PlacedAnswers
  <1>3. CASE Issue(c)
    BY <1>3, IssueAnswers
  <1>4. CASE IssueFails(c) \/ ReturnClosed(c) \/ ReportTimeout(c) \/ Cancel(c)
    <2>1. /\ call' = [call EXCEPT ![c] = NoCall] /\ resizeProgress' \subseteq resizeProgress
          /\ UNCHANGED <<wireVars, nextRequestID, frames, finishing, view>>
      BY <1>4 DEF IssueFails, ReturnClosed, ReportTimeout, Cancel
    <2> QED
      BY <1>2, <2>1
  <1>5. CASE Receive(c)
    <2>1. /\ call' = [call EXCEPT ![c] = NoCall] /\ resizeProgress' = resizeProgress
          /\ UNCHANGED <<wireVars, nextRequestID, frames, finishing>>
      BY <1>5 DEF Receive
    <2>2. \A d \in Callers \ {c} : view'[d] = view[d]
      BY <1>1, <1>5 DEF Receive
    <2> QED
      BY <1>2, <2>1, <2>2
  <1>6. CASE Expire(c)
    <2>1. /\ UNCHANGED <<wireVars, nextRequestID, frames, finishing, view, resizeProgress>>
          /\ call[c].pc = "waiting"
      BY <1>6 DEF Expire, Waiting
    <2>2. CASE call[c].kind = "resize"
      <3> DEFINE x == [call[c] EXCEPT !.pc = "expired"]
      <3>1. /\ InFlight(c) /\ x.pc # "registered" /\ x.id = call[c].id
            /\ x.kind = call[c].kind /\ x.handle = call[c].handle /\ x.rev = call[c].rev
            /\ x.size = call[c].size /\ x.reply = call[c].reply
        BY <1>1, <2>1 DEF Call, InFlight
      <3>2. call' = [call EXCEPT ![c] = x]
        BY <1>6, <2>2 DEF Expire
      <3> HIDE DEF x
      <3> QED
        BY <2>1, <3>1, <3>2, PlacedAnswers
    <2>3. CASE call[c].kind # "resize"
      <3>1. call' = [call EXCEPT ![c] = NoCall]
        BY <1>6, <2>3 DEF Expire
      <3> QED
        BY <1>2, <2>1, <3>1
    <2> QED
      BY <2>2, <2>3
  <1> QED
    BY <1>3, <1>4, <1>5, <1>6 DEF CallerSteps, GivesUp

LEMMA ConnectionAnswers ==
    ASSUME TypeOK, AInv, UNCHANGED shellVars, TakeFrame \/ Lose \/ CloseStart \/ CloseFinish
    PROVE  AInv'
  <1> USE DEF wireVars, cacheVars, linkVars
  <1>1. UNCHANGED <<toShell, toClient, requests, controller, captureID, capturePending,
                    nextRequestID, resizeProgress, finishing, view>>
    BY DEF TakeFrame, Lose, CloseStart, CloseFinish, shellVars, captureVars
  <1>2. CASE TakeFrame
    <2>1. call' = call /\ frames # << >> /\ frames' = Tail(frames)
      BY <1>2 DEF TakeFrame
    <2>2. Range(frames') \subseteq Range(frames)
      <3>1. frames \in Seq(FrameEvents)
        BY DEF TypeOK, ClientTypeOK
      <3> QED
        BY <2>1, <3>1, TailAt
    <2>3. \A c \in Callers : CallGoesOn(c)
      BY <1>1, <2>1, UntouchedGoesOn
    <2> QED
      BY <1>1, <2>2, <2>3, QuietAnswers DEF Finishing, HandlerRunning
  <1>3. CASE CloseStart
    <2>1. call' = call /\ frames' = frames
      BY <1>3 DEF CloseStart
    <2>2. \A c \in Callers : CallGoesOn(c)
      BY <1>1, <2>1, UntouchedGoesOn
    <2> QED
      BY <1>1, <2>1, <2>2, QuietAnswers DEF Finishing, HandlerRunning
  <1>4. CASE Lose \/ CloseFinish
    <2>1. call' = Woken(pending, LostReply) /\ frames' = frames
      BY <1>4 DEF Lose, CloseFinish, FailAll
    <2>2. LostReply.status = "lost" /\ LostReply.code = "none"
      BY DEF LostReply, NoReply
    <2>3. ASSUME NEW c \in Callers PROVE CallGoesOn(c)
      <3>1. SameCall(c) /\ (call'[c].reply = call[c].reply \/ call'[c].reply = LostReply)
        BY <2>1, WokenSame
      <3>2. ReplyFits(call[c], view[c].windows, LostReply)
        BY <2>2 DEF ReplyFits
      <3> QED
        BY <1>1, <3>1, <3>2, GoesOn
    <2> QED
      BY <1>1, <2>1, <2>3, QuietAnswers DEF Finishing, HandlerRunning
  <1> QED
    BY <1>2, <1>3, <1>4

LEMMA NextAnswers == TypeOK /\ IInv /\ AInv /\ [Next]_vars => AInv'
  <1> SUFFICES ASSUME TypeOK, IInv, AInv, [Next]_vars PROVE AInv'
    OBVIOUS
  <1>1. CASE Connect
    BY <1>1, ConnectAnswers
  <1>2. CASE Disconnect
    BY <1>2, DisconnectAnswers
  <1>3. CASE ShellStep
    BY <1>3, HandledAnswers, ApplicationsAnswers DEF ShellStep
  <1>4. CASE ClientStep
    BY <1>4, DispatchAnswers, FinishHandlerAnswers, BeginAnswers, CallerAnswers,
       ConnectionAnswers
       DEF ClientStep
  <1>5. CASE UNCHANGED vars
    <2>1. UNCHANGED <<toShell, toClient, requests, controller, captureID, capturePending,
                      nextRequestID, resizeProgress, finishing, frames, call, view>>
      BY <1>5 DEF vars, wireVars, shellVars, captureVars, clientVars
    <2>2. \A c \in Callers : CallGoesOn(c)
      BY <2>1, UntouchedGoesOn
    <2> QED
      BY <2>1, <2>2, QuietAnswers DEF Finishing, HandlerRunning
  <1> QED
    BY <1>1, <1>2, <1>3, <1>4, <1>5 DEF Next

-----------------------------------------------------------------------------
LEMMA AnswersInvariant == Spec => [](TypeOK /\ IInv /\ AInv)
  <1>1. Init => TypeOK /\ IInv /\ AInv
    BY InitType, InitInvariant, InitAnswers
  <1>2. TypeOK /\ IInv /\ AInv /\ [Next]_vars => TypeOK' /\ IInv' /\ AInv'
    BY NextType, NextInvariant, NextAnswers
  <1> QED
    BY <1>1, <1>2, PTL DEF Spec

\* What a caller that is not in flight has asked and been told: nothing.
LEMMA NothingIdle ==
    ASSUME IInv, NEW c \in Callers, ~InFlight(c)
    PROVE  call[c].kind = "none" /\ call[c].reply.code = "none"
  BY DEF IInv, PendingIsUnanswered, InFlight, NoCall, NoReply

\* A resize that succeeds reports the size its caller asked for, configured and
\* committed (OnResizeDone, finish): never that of a resize that superseded it,
\* or of an earlier connection whose numbers it shares.
THEOREM ResizesReportTheirOwn == Spec => []ResizeReportsOwnSize
  <1>1. TypeOK /\ IInv /\ AInv => ResizeReportsOwnSize
    BY NothingIdle DEF ResizeReportsOwnSize, AInv, Fits, AnswerFits, ReplyFits
  <1> QED
    BY <1>1, AnswersInvariant, PTL

\* A resize that times out finds in resizeProgress what was observed for it,
\* and nothing of the resize that took its place (resizeTimeout).
THEOREM TimeoutsReportTheirOwn == Spec => []TimeoutReportsOwnSize
  <1>1. TypeOK /\ IInv /\ AInv => TimeoutReportsOwnSize
    BY DEF TimeoutReportsOwnSize, ProgressOf, AInv, Fits, ProgressFits, InFlight
  <1> QED
    BY <1>1, AnswersInvariant, PTL

\* A caller that names a window of its own State is never told that the window
\* does not exist: revision_matches refuses it as stale before.  The proof
\* rests on CurrentViewIsLive at the moment the module reads the request.
THEOREM SeenWindowsAreFound == Spec => []SeenWindowIsNeverNotFound
  <1>1. TypeOK /\ IInv /\ AInv => SeenWindowIsNeverNotFound
    BY NothingIdle DEF SeenWindowIsNeverNotFound, AInv, Fits, AnswerFits, ReplyFits
  <1> QED
    BY <1>1, AnswersInvariant, PTL

\* The module answers a request at most once (answer_done, answer_failed, the
\* pending resize that is removed with its answer): no id is in two of the
\* places where a request waits for its answer or the answer for its caller, the
\* dispatcher's hand between the two critical sections of a handler among them.
THEOREM RequestsAnsweredOnce == Spec => []AnsweredAtMostOnce
  <1>1. ASSUME TypeOK, AInv, NEW id \in 1 .. nextRequestID,
               NEW u \in Unsettled(id), NEW v \in Unsettled(id)
        PROVE  u = v
    <2>1. /\ id \in Nat /\ toShell \in Seq(Request) /\ toClient \in Seq(Event)
      BY <1>1 DEF TypeOK, WireTypeOK, ClientTypeOK
    <2>2. /\ \A i \in 1 .. Len(toShell) : toShell[i].id = id => Ahead(id)
          /\ \A r \in requests : r.id = id => Resizing(id)
          /\ \A i \in 1 .. Len(toClient) :
                Terminal(toClient[i]) /\ toClient[i].id = id => Answered(id)
      BY <2>1, InRange DEF Ahead, Sent, Resizing, Answered
    <2>3. /\ Ahead(id) => ~Resizing(id) /\ ~Answered(id)
          /\ Resizing(id) => ~Answered(id)
          /\ Finishing(id) => ~Ahead(id) /\ ~Resizing(id) /\ ~Answered(id)
      BY <1>1, <2>1 DEF AInv, OnePlace
    <2>4. /\ \A i, j \in 1 .. Len(toShell) :
                toShell[i].id = id /\ toShell[j].id = id => i = j
          /\ \A r, s \in requests : r.id = id /\ s.id = id => r = s
          /\ \A i, j \in 1 .. Len(toClient) :
                /\ Terminal(toClient[i]) /\ toClient[i].id = id
                /\ Terminal(toClient[j]) /\ toClient[j].id = id
                => i = j
      BY <1>1 DEF AInv, OnePlace, AskedOnce, ToldOnce
    <2>5. ASSUME NEW w \in Unsettled(id)
          PROVE  \/ \E i \in 1 .. Len(toShell) : toShell[i].id = id /\ w = <<"sent", i>>
                 \/ \E r \in requests : r.id = id /\ w = <<"resizing", r>>
                 \/ \E i \in 1 .. Len(toClient) :
                       Terminal(toClient[i]) /\ toClient[i].id = id /\ w = <<"answered", i>>
                 \/ Finishing(id) /\ w = <<"finishing", 0>>
      BY DEF Unsettled, Finishing
    <2>6. CASE Ahead(id)
      <3>1. /\ \E i \in 1 .. Len(toShell) : toShell[i].id = id /\ u = <<"sent", i>>
            /\ \E i \in 1 .. Len(toShell) : toShell[i].id = id /\ v = <<"sent", i>>
        BY <2>2, <2>3, <2>5, <2>6
      <3> QED
        BY <2>4, <3>1
    <2>7. CASE Resizing(id)
      <3>1. /\ \E r \in requests : r.id = id /\ u = <<"resizing", r>>
            /\ \E r \in requests : r.id = id /\ v = <<"resizing", r>>
        BY <2>2, <2>3, <2>5, <2>7
      <3> QED
        BY <2>4, <3>1
    <2>8. CASE ~Ahead(id) /\ ~Resizing(id) /\ ~Finishing(id)
      <3>1. /\ \E i \in 1 .. Len(toClient) :
                  Terminal(toClient[i]) /\ toClient[i].id = id /\ u = <<"answered", i>>
            /\ \E i \in 1 .. Len(toClient) :
                  Terminal(toClient[i]) /\ toClient[i].id = id /\ v = <<"answered", i>>
        BY <2>2, <2>5, <2>8
      <3> QED
        BY <2>4, <3>1
    <2>9. CASE Finishing(id)
      BY <2>2, <2>3, <2>5, <2>9
    <2> QED
      BY <2>6, <2>7, <2>8, <2>9
  <1>2. TypeOK /\ IInv /\ AInv => AnsweredAtMostOnce
    BY <1>1 DEF AnsweredAtMostOnce
  <1> QED
    BY <1>2, AnswersInvariant, PTL

\* A frame that carries an authorization was painted after the module granted it
\* (handle_authorize_capture, the frame listener), whatever is still buffered of
\* an earlier connection's frames.
THEOREM FramesFollow == Spec => []FrameFollowsAuthorization
  <1>1. ASSUME TypeOK, AInv PROVE FrameFollowsAuthorization
    <2>1. toClient \in Seq(Event) /\ frames \in Seq(FrameEvents)
      BY <1>1 DEF TypeOK, WireTypeOK, ClientTypeOK
    <2>2. /\ \A j \in 1 .. Len(toClient) : toClient[j] \in Range(toClient)
          /\ \A k \in 1 .. Len(frames) : frames[k] \in Range(frames)
      BY <2>1, InRange
    <2> QED
      BY <1>1, <2>2 DEF AInv, FramesLag, Ordered, FrameFollowsAuthorization
  <1>2. TypeOK /\ IInv /\ AInv => FrameFollowsAuthorization
    BY <1>1
  <1> QED
    BY <1>2, AnswersInvariant, PTL

-----------------------------------------------------------------------------
(***************************************************************************)
(* What a State shows: a window that is removed stays removed, the client's *)
(* revision never drops, an activated window is shown activated, and a     *)
(* snapshot misses no window.  All of it for any number of callers,        *)
(* windows, requests and connections.                                      *)
(*                                                                         *)
(* The revisions the client hears never drop, so what it collected is      *)
(* never newer than what it hears next (RevisionsRise).  A window that is  *)
(* gone is never announced again (GoneStaysGone).  A window's activation   *)
(* raises the revision before it is announced, so whoever holds the window *)
(* without its flag is older than the announcement on the wire             *)
(* (ActiveShown).  And a snapshot lists every window between its first     *)
(* event and its answer (SnapshotsCollect).                                *)
(***************************************************************************)

\* The revisions the client hears never drop, and its lists are no newer.
RevisionsRise ==
    /\ \A i, j \in 1 .. Len(toClient) :
          i <= j /\ Revised(toClient[i]) /\ Revised(toClient[j])
              => RevOf(toClient[i]) <= RevOf(toClient[j])
    /\ \A e \in Range(toClient) : Revised(e) => clientRevision <= RevOf(e)
    /\ \A c \in Callers : \A w \in call[c].list : w.rev <= clientRevision

ChangeOf(e, h) == e.ev = "toplevel_changed" /\ e.window.handle = h

\* The window was there, and will not be again: handles are given once.
Buried(h) == h \notin Live /\ h <= nextIndex

GoneStaysGone ==
    /\ RemovedStaysRemoved
    /\ \A h \in removed : Buried(h) /\ \A e \in Range(toClient) : ~ChangeOf(e, h)
    /\ \A i \in 1 .. Len(toClient) : toClient[i].ev = "toplevel_removed" =>
          /\ Buried(toClient[i].handle)
          /\ \A j \in i + 1 .. Len(toClient) : ~ChangeOf(toClient[j], toClient[i].handle)

(***************************************************************************)
(* Activation.                                                             *)
(***************************************************************************)
Flagged(w) == w.handle \in activated => w.activated

\* All that the client holds, or has handed to a caller, is older than revision n.
OlderThan(n) ==
    /\ clientRevision < n
    /\ finishing.reply.rev < n
    /\ \A c \in Callers : call[c].reply.rev < n

\* The i-th event announces that window h is activated, and nothing before it
\* is as new.
Activates(i, h) ==
    /\ ChangeOf(toClient[i], h) /\ toClient[i].window.activated
    /\ OlderThan(toClient[i].window.rev)
    /\ \A j \in 1 .. i - 1 :
          Revised(toClient[j]) => RevOf(toClient[j]) < toClient[i].window.rev

\* The client may hold w when the events before the k-th are dispatched.
MayShow(w, k) ==
    Flagged(w) \/ Severed \/ \E i \in k .. Len(toClient) : Activates(i, w.handle)

\* mergeSnapshot will not take w: the cache has the window as new.
Superseded(w) == \E k \in cache : k.handle = w.handle /\ k.rev >= w.rev

ActiveShown ==
    /\ \A w \in cache : MayShow(w, 1)
    /\ \A c \in Callers : \A w \in call[c].list :
          w.handle \in removed \/ Superseded(w) \/ MayShow(w, 1)
    /\ \A i \in 1 .. Len(toClient) : toClient[i].ev = "toplevel_changed" =>
          MayShow(toClient[i].window, i + 1)
    /\ CurrentViewShowsActive

(***************************************************************************)
(* Snapshots.                                                              *)
(***************************************************************************)
Snapshotting(c) == call[c].kind = "snapshot"

\* When the j-th event is dispatched, the list of c has the window h.
Collected(c, h, j) ==
    \/ /\ h \in Handles(call[c].list)
       /\ \A k \in 1 .. j - 1 : toClient[k].ev # "snapshot"
    \/ \E i \in 1 .. j - 1 :
          /\ ChangeOf(toClient[i], h)
          /\ \A k \in i + 1 .. j - 1 : toClient[k].ev # "snapshot"

SnapshotAnswer(e, c) ==
    e.ev = "request_done" /\ e.id = call[c].id /\ e.rev = revision

SnapshotsCollect ==
    /\ \A c \in pending : Snapshotting(c) =>
          /\ \A j \in 1 .. Len(toClient) : SnapshotAnswer(toClient[j], c)
                => \A h \in Live : Collected(c, h, j)
          /\ (HandlerRunning /\ finishing.id = call[c].id /\ finishing.reply.rev = revision)
                => Live \subseteq Handles(call[c].list)
    /\ \A c \in Callers :
          Snapshotting(c) /\ call[c].reply.status = "done" /\ call[c].reply.rev = revision
              => Live \subseteq Handles(call[c].list)
    /\ CurrentSnapshotIsComplete

VInv == HandlesDistinct /\ RevisionsRise /\ GoneStaysGone /\ ActiveShown /\ SnapshotsCollect

-----------------------------------------------------------------------------
LEMMA InitStates == Init => VInv
  <1> SUFFICES ASSUME Init PROVE VInv
    OBVIOUS
  <1> USE DEF Init, ClientInit, NoConnection, ShellInit
  <1>1. HandlesDistinct
    BY InitSession
  <1>2. /\ Len(toClient) = 0 /\ Range(toClient) = {}
    BY DEF Range
  <1>3. \A c \in Callers : /\ call[c].list = {} /\ call[c].reply.status = "none"
                           /\ view[c].windows = {} /\ ~view[c].full
    BY DEF NoCall, NoReply, NoView
  <1>4. RevisionsRise /\ GoneStaysGone
    BY <1>2, <1>3 DEF RevisionsRise, GoneStaysGone, RemovedStaysRemoved, Handles
  <1>5. ActiveShown
    BY <1>2, <1>3 DEF ActiveShown, CurrentViewShowsActive
  <1>6. SnapshotsCollect
    BY <1>2, <1>3 DEF SnapshotsCollect, CurrentSnapshotIsComplete
  <1> QED
    BY <1>1, <1>4, <1>5, <1>6 DEF VInv

-----------------------------------------------------------------------------
(***************************************************************************)
(* What a step of the module shows.                                        *)
(***************************************************************************)
\* The events of one step carry its revision, announce windows as they are,
\* and bury those that are gone.
Truthful(e) ==
    /\ Revised(e) => RevOf(e) = revision'
    /\ e.ev = "toplevel_changed" =>
          /\ e.window.handle \in Live'
          /\ e.window.handle \in activated' => e.window.activated
    /\ e.ev = "toplevel_removed" => e.handle \in Live \ Live'

\* The events before the j-th list every window.
Lists(events, j) ==
    \A h \in Live : \E i \in 1 .. j - 1 :
        /\ ChangeOf(events[i], h)
        /\ \A k \in i + 1 .. j - 1 : events[k].ev # "snapshot"

\* Only a request is told that it is done; a snapshot, after the list.
Answers(events) ==
    \A j \in 1 .. Len(events) : events[j].ev = "request_done" =>
        \E q \in Range(toShell) :
            /\ events[j].id = q.id
            /\ q.kind = "snapshot" => revision' = revision /\ Lists(events, j)

\* What a step of the module does to the windows, and tells a controller.
Tells(events) ==
    /\ events \in Seq(Event)
    /\ revision' \in {revision, revision + 1} /\ nextIndex' >= nextIndex
    /\ \A h \in Live' \ Live : h > nextIndex
    /\ revision' = revision => Live' = Live /\ activated' = activated
    /\ \A e \in Range(events) : Truthful(e)
    /\ \A h \in activated' \ activated :
          revision' = revision + 1 /\ events # << >> /\ ChangeOf(events[1], h)
    /\ Answers(events)

\* Without a controller nothing is told.
Shows(events) ==
    /\ Tells(events)
    /\ UNCHANGED controller /\ HandlesDistinct'
    /\ toClient' = IF controller THEN toClient \o events ELSE toClient

\* A step that neither adds, removes nor activates a window.
Untouched ==
    UNCHANGED <<toplevels, activated, nextIndex, controller>>
    /\ revision' \in {revision, revision + 1}

LEMMA UntouchedTells ==
    ASSUME TypeOK, HandlesDistinct, Untouched, NEW events \in Seq(Event), Emit(events),
           \A e \in Range(events) : Truthful(e), Answers(events)
    PROVE  Shows(events)
  <1>1. Live' = Live /\ HandlesDistinct' /\ activated' = activated
    BY DEF Untouched, Live, HandlesDistinct
  <1>2. nextIndex \in Nat /\ nextIndex' = nextIndex
    BY DEF Untouched, TypeOK, ShellTypeOK
  <1>3. Tells(events)
    BY <1>1, <1>2 DEF Tells, Untouched
  <1> QED
    BY <1>1, <1>3 DEF Shows, Untouched, Emit

LEMMA SilenceTells ==
    ASSUME TypeOK, HandlesDistinct, Untouched, toClient' = toClient
    PROVE  Shows(<< >>)
  <1> DEFINE events == << >>
  <1>1. events \in Seq(Event) /\ Range(events) = {} /\ Len(events) = 0 /\ Emit(events)
    <2>1. toClient \o << >> = toClient
      BY ConcatEmptySeq DEF TypeOK, WireTypeOK
    <2> QED
      BY <2>1 DEF Emit, Range
  <1> HIDE DEF events
  <1>2. Answers(events)
    BY <1>1 DEF Answers
  <1>3. Shows(events)
    BY <1>1, <1>2, UntouchedTells
  <1> QED
    BY <1>3 DEF events

LEMMA OneTells ==
    ASSUME TypeOK, HandlesDistinct, Untouched, NEW a \in Event, Emit(<<a>>), Truthful(a),
           a.ev = "request_done" =>
              \E q \in Range(toShell) : a.id = q.id /\ q.kind # "snapshot"
    PROVE  \E events : Shows(events)
  <1> DEFINE events == <<a>>
  <1>1. /\ events \in Seq(Event) /\ Range(events) = {a} /\ Emit(events)
        /\ \A i \in 1 .. Len(events) : events[i] = a
    <2>1. events \in Seq(Event) /\ Emit(events) /\ \A i \in 1 .. Len(events) : events[i] = a
      OBVIOUS
    <2> QED
      BY <2>1, RangeSmall
  <1> HIDE DEF events
  <1>2. Answers(events)
    BY <1>1 DEF Answers
  <1>3. \A e \in Range(events) : Truthful(e)
    BY <1>1
  <1>4. Shows(events)
    BY <1>1, <1>2, <1>3, UntouchedTells
  <1> QED
    BY <1>4

LEMMA TruthfulEvents ==
    ASSUME TypeOK, revision' \in Nat
    PROVE  /\ \A h \in Live' : \A map : Truthful(Changed(h, activated', map, revision'))
           /\ \A id : Truthful(Done(id, revision'))
           /\ \A id, code : Truthful(Failed(id, code))
           /\ \A e : /\ e.ev \in {"resize_configured", "capture_authorized", "frame"}
                        => Truthful(e)
                     /\ e.ev \in {"snapshot", "resize_done"} /\ e.rev = revision'
                        => Truthful(e)
  <1>1. ASSUME NEW h \in Live', NEW map PROVE Truthful(Changed(h, activated', map, revision'))
    <2> DEFINE e == Changed(h, activated', map, revision')
    <2>1. /\ e.ev = "toplevel_changed" /\ e.window.handle = h /\ e.window.rev = revision'
          /\ e.window.activated = (h \in activated')
      BY DEF Changed
    <2> HIDE DEF e
    <2>2. Truthful(e)
      BY <2>1 DEF Truthful, Revised, RevOf
    <2> QED
      BY <2>2 DEF e
  <1>2. \A id : Truthful(Done(id, revision'))
    BY DEF Truthful, Done, Revised, RevOf
  <1>3. \A id, code : Truthful(Failed(id, code))
    BY DEF Truthful, Failed, Revised, RevOf
  <1>4. \A e : /\ e.ev \in {"resize_configured", "capture_authorized", "frame"} => Truthful(e)
               /\ e.ev \in {"snapshot", "resize_done"} /\ e.rev = revision' => Truthful(e)
    BY DEF Truthful, Revised, RevOf
  <1> QED
    BY <1>1, <1>2, <1>3, <1>4

\* HandleSnapshot announces every window of the list, then that it is done.
LEMMA SnapshotLists ==
    ASSUME TypeOK, NEW q, q \in Range(toShell), q \in Request, HandleSnapshot(q)
    PROVE  \E events \in Seq(Event) :
              Emit(events) /\ (\A e \in Range(events) : Truthful(e)) /\ Answers(events)
  <1> DEFINE windows == [i \in 1 .. Len(toplevels) |->
                           Changed(toplevels[i], activated, mapped, revision)]
             first == [ev |-> "snapshot", rev |-> revision]
             done == Done(q.id, revision)
             m == Len(toplevels)
  <1>1. /\ UNCHANGED <<toplevels, activated, revision>> /\ Live' = Live
        /\ revision \in Nat /\ revision' \in Nat /\ q.id \in Nat /\ m \in Nat
    BY DEF HandleSnapshot, shellVars, windowVars, Live, TypeOK, ShellTypeOK, Request
  <1>2. /\ windows \in Seq(Event) /\ first \in Event /\ done \in Event /\ Len(windows) = m
        /\ \A i \in 1 .. m : windows[i] = Changed(toplevels[i], activated, mapped, revision)
    <2>1. windows \in Seq(Event)
      BY ChangedType DEF TypeOK, ShellTypeOK
    <2> QED
      BY <1>1, <2>1, EventTypes
  <1>3. \A i \in 1 .. m : /\ Truthful(windows[i]) /\ ChangeOf(windows[i], toplevels[i])
                          /\ windows[i].ev = "toplevel_changed"
    <2> TAKE i \in 1 .. m
    <2>1. toplevels[i] \in Live'
      BY <1>1 DEF Live
    <2>2. Truthful(windows[i])
      BY <1>1, <1>2, <2>1, TruthfulEvents
    <2> QED
      BY <1>2, <2>2 DEF Changed, ChangeOf
  <1>4. Truthful(first) /\ Truthful(done)
    BY <1>1, TruthfulEvents
  <1>5. first.ev = "snapshot" /\ done.ev = "request_done" /\ done.id = q.id
    BY DEF Done
  <1>6. Emit(<<first>> \o windows \o <<done>>) /\ q.kind = "snapshot"
    BY DEF HandleSnapshot
  <1>7. \A h \in Live : \E i \in 1 .. m : h = toplevels[i]
    BY DEF Live
  <1> HIDE DEF windows, first, done, m
  <1> DEFINE head == <<first>>
             last == <<done>>
             start == head \o windows
             events == start \o last
  <1>8. /\ head \in Seq(Event) /\ Len(head) = 1 /\ head[1] = first
        /\ last \in Seq(Event) /\ Len(last) = 1 /\ last[1] = done
    BY <1>2
  <1>9. Emit(events)
    BY <1>6
  <1> HIDE DEF head, last
  <1>10. /\ start \in Seq(Event) /\ Len(start) = m + 1
         /\ start[1] = first /\ \A i \in 1 .. m : start[i + 1] = windows[i]
    <2>1. /\ start \in Seq(Event) /\ Len(start) = Len(head) + Len(windows)
          /\ \A i \in 1 .. Len(head) + Len(windows) :
                start[i] = IF i <= Len(head) THEN head[i] ELSE windows[i - Len(head)]
      BY <1>2, <1>8, ConcatProperties
    <2> HIDE DEF start
    <2>2. Len(start) = m + 1 /\ start[1] = first
      BY <1>1, <1>2, <1>8, <2>1
    <2>3. ASSUME NEW i \in 1 .. m PROVE start[i + 1] = windows[i]
      <3>1. i + 1 \in 1 .. 1 + m /\ ~(i + 1 <= 1) /\ (i + 1) - 1 = i
        BY <1>1
      <3> QED
        BY <1>2, <1>8, <2>1, <3>1
    <2> QED
      BY <2>1, <2>2, <2>3
  <1> HIDE DEF start
  <1>11. /\ events \in Seq(Event) /\ Len(events) = m + 2
         /\ \A i \in 1 .. m + 1 : events[i] = start[i]
         /\ events[m + 2] = done
    BY <1>1, <1>8, <1>10, ConcatProperties
  <1> HIDE DEF events
  <1>12. /\ events[1] = first /\ \A i \in 1 .. m : events[i + 1] = windows[i]
         /\ \A j \in 1 .. m + 2 : j = 1 \/ j = m + 2 \/ \E i \in 1 .. m : j = i + 1
    <2>1. \A j \in 1 .. m + 2 : j = 1 \/ j = m + 2 \/ (j - 1 \in 1 .. m /\ j = (j - 1) + 1)
      BY <1>1
    <2> QED
      BY <1>1, <1>10, <1>11, <2>1
  <1>13. \A e \in Range(events) : Truthful(e)
    <2>1. \A j \in 1 .. m + 2 : Truthful(events[j])
      BY <1>3, <1>4, <1>11, <1>12
    <2> QED
      BY <1>11, <2>1, InRange
  <1>14. Answers(events)
    <2> SUFFICES ASSUME NEW j \in 1 .. m + 2, events[j].ev = "request_done"
                 PROVE  events[j].id = q.id /\ Lists(events, j)
      BY <1>1, <1>11 DEF Answers
    <2>1. j = m + 2
      BY <1>3, <1>5, <1>12
    <2>2. ASSUME NEW h \in Live
          PROVE  \E i \in 1 .. j - 1 :
                    /\ ChangeOf(events[i], h)
                    /\ \A k \in i + 1 .. j - 1 : events[k].ev # "snapshot"
      <3>1. PICK i \in 1 .. m : h = toplevels[i]
        BY <1>7
      <3>2. i + 1 \in 1 .. j - 1 /\ ChangeOf(events[i + 1], h)
        BY <1>1, <1>3, <1>12, <2>1, <3>1
      <3>3. ASSUME NEW k \in (i + 1) + 1 .. j - 1 PROVE events[k].ev # "snapshot"
        <4>1. k \in 1 .. m + 2 /\ k # 1 /\ k # m + 2
          BY <1>1, <2>1
        <4>2. PICK l \in 1 .. m : k = l + 1
          BY <1>12, <4>1
        <4> QED
          BY <1>3, <1>12, <4>2
      <3> QED
        BY <3>2, <3>3
    <2> QED
      BY <1>5, <1>11, <2>1, <2>2 DEF Lists
  <1> QED
    BY <1>9, <1>11, <1>13, <1>14

LEMMA HandlesShow ==
    ASSUME TypeOK, HandlesDistinct, ShellHandles
    PROVE  \E events : Shows(events)
  <1> PICK q : q = Head(toShell)
    OBVIOUS
  <1> USE DEF shellVars, windowVars
  <1>1. /\ q \in Request /\ q \in Range(toShell) /\ controller /\ revision \in Nat
        /\ q.id \in Nat /\ q.handle \in Nat
    <2>1. q \in Request /\ q \in Range(toShell)
      BY TailAt DEF ShellHandles, TypeOK, WireTypeOK
    <2> QED
      BY <2>1 DEF ShellHandles, TypeOK, ShellTypeOK, Request
  <1>2. CASE HandleSnapshot(q)
    <2>1. PICK events \in Seq(Event) :
             Emit(events) /\ (\A e \in Range(events) : Truthful(e)) /\ Answers(events)
      BY <1>1, <1>2, SnapshotLists
    <2>2. Untouched
      BY <1>2 DEF HandleSnapshot, Untouched
    <2>3. Shows(events)
      BY <2>1, <2>2, UntouchedTells
    <2> QED
      BY <2>3
  <1>3. CASE HandleRefused(q)
    <2>1. PICK code \in Refusal(q) : Emit(<<Failed(q.id, code)>>)
      BY <1>3 DEF HandleRefused
    <2>2. code \in Codes /\ Untouched /\ revision' \in Nat
      BY <1>1, <1>3 DEF HandleRefused, Refusal, Codes, Untouched
    <2> DEFINE a == Failed(q.id, code)
    <2>3. a \in Event /\ Truthful(a) /\ a.ev = "request_failed"
      BY <1>1, <2>2, EventTypes, EventFacts, TruthfulEvents
    <2> HIDE DEF a
    <2>4. Emit(<<a>>)
      BY <2>1 DEF a
    <2> QED
      BY <2>2, <2>3, <2>4, OneTells
  <1>4. CASE HandleResize(q)
    <2> DEFINE a == [ev |-> "resize_configured", id |-> q.id, configured |-> q.size]
    <2>1. Emit(<<a>>) /\ Untouched /\ revision' \in Nat /\ q.size \in Sizes
      BY <1>1, <1>4 DEF HandleResize, Refusal, Request, Untouched
    <2>2. a \in Event /\ a.ev = "resize_configured"
      BY <1>1, <2>1, EventTypes
    <2> HIDE DEF a
    <2> QED
      BY <2>1, <2>2, TruthfulEvents, OneTells
  <1>5. CASE HandleCloseWindow(q) \/ HandleInput(q)
    <2> DEFINE a == Done(q.id, revision)
    <2>1. /\ Emit(<<a>>) /\ Untouched /\ revision' = revision /\ revision' \in Nat
          /\ q.kind # "snapshot"
      BY <1>1, <1>5 DEF HandleCloseWindow, HandleInput, Untouched
    <2>2. a \in Event /\ a.id = q.id /\ Truthful(a)
      BY <1>1, <2>1, EventTypes, EventFacts, TruthfulEvents
    <2> HIDE DEF a
    <2> QED
      BY <1>1, <2>1, <2>2, OneTells
  <1>6. CASE HandleAuthorizeCapture(q)
    <2> DEFINE granted == [ev |-> "capture_authorized", id |-> q.id]
               done == Done(q.id, revision)
               events == <<granted, done>>
    <2>1. /\ Emit(events) /\ Untouched /\ q.kind # "snapshot"
          /\ revision' = revision /\ revision' \in Nat
      BY <1>1, <1>6 DEF HandleAuthorizeCapture, Untouched
    <2>2. /\ granted \in Event /\ done \in Event /\ Truthful(granted) /\ Truthful(done)
          /\ granted.ev = "capture_authorized" /\ done.id = q.id
      BY <1>1, <2>1, EventTypes, EventFacts, TruthfulEvents
    <2> HIDE DEF granted, done
    <2>3. /\ events \in Seq(Event) /\ Range(events) = {granted, done}
          /\ Len(events) = 2 /\ events[1] = granted /\ events[2] = done
      <3>1. events \in Seq(Event)
        BY <2>2
      <3> QED
        BY <2>2, <3>1, RangeSmall
    <2> HIDE DEF events
    <2>4. Answers(events)
      <3>1. \A j \in 1 .. Len(events) : j = 1 \/ j = 2
        BY <2>3
      <3> QED
        BY <1>1, <2>1, <2>2, <2>3, <3>1 DEF Answers
    <2>5. \A e \in Range(events) : Truthful(e)
      BY <2>2, <2>3
    <2>6. Shows(events)
      BY <2>1, <2>3, <2>4, <2>5, UntouchedTells
    <2> QED
      BY <2>6
  <1>7. CASE HandleActivate(q) \/ HandleMove(q)
    <2> PICK h : h = q.handle
      OBVIOUS
    <2>1. /\ UNCHANGED <<toplevels, nextIndex, controller>> /\ revision' = revision + 1
          /\ h \in Live /\ Live' = Live /\ h \in Nat /\ q.kind # "snapshot"
          /\ activated' \subseteq activated \cup {h} /\ revision' \in Nat
      <3>1. /\ UNCHANGED <<toplevels, nextIndex, controller>> /\ revision' = revision + 1
            /\ Refusal(q) = {} /\ q.kind # "snapshot"
            /\ activated' \subseteq activated \cup {h}
        BY <1>7 DEF HandleActivate, HandleMove, BumpRevision, ActivateToplevel
      <3>2. h \in Live
        BY <3>1 DEF Refusal
      <3> QED
        BY <1>1, <3>1, <3>2 DEF Live
    <2>2. PICK change : change = Changed(h, activated', mapped, revision')
      OBVIOUS
    <2>3. PICK done : done = Done(q.id, revision')
      OBVIOUS
    <2> DEFINE events == <<change, done>>
    <2>4. Emit(events)
      <3>1. CASE HandleActivate(q)
        BY <2>2, <2>3, <3>1 DEF HandleActivate
      <3>2. CASE HandleMove(q)
        <4>1. activated' = activated
          BY <3>2 DEF HandleMove
        <4> QED
          BY <2>2, <2>3, <3>2, <4>1 DEF HandleMove
      <3> QED
        BY <1>7, <3>1, <3>2
    <2>5. /\ change \in Event /\ done \in Event /\ Truthful(change) /\ Truthful(done)
          /\ ChangeOf(change, h) /\ change.ev = "toplevel_changed" /\ done.id = q.id
      <3>1. change \in Event /\ done \in Event
        BY <1>1, <2>1, <2>2, <2>3, ChangedType, EventTypes
      <3>2. Truthful(change) /\ Truthful(done)
        BY <2>1, <2>2, <2>3, TruthfulEvents
      <3>3. ChangeOf(change, h) /\ change.ev = "toplevel_changed" /\ done.id = q.id
        BY <2>2, <2>3 DEF ChangeOf, Changed, Done
      <3> QED
        BY <3>1, <3>2, <3>3
    <2>6. /\ events \in Seq(Event) /\ Range(events) = {change, done}
          /\ Len(events) = 2 /\ events[1] = change /\ events[2] = done
      <3>1. events \in Seq(Event)
        BY <2>5
      <3> QED
        BY <2>5, <3>1, RangeSmall
    <2> HIDE DEF events
    <2>7. Answers(events)
      <3>1. \A j \in 1 .. Len(events) : j = 1 \/ j = 2
        BY <2>6
      <3> QED
        BY <1>1, <2>1, <2>5, <2>6, <3>1 DEF Answers
    <2>8. HandlesDistinct'
      BY <2>1 DEF HandlesDistinct
    <2>9. Tells(events)
      <3>1. nextIndex' >= nextIndex
        BY <2>1 DEF TypeOK, ShellTypeOK
      <3>2. /\ revision' # revision
            /\ \A g \in activated' \ activated : g = h
        BY <1>1, <2>1
      <3>3. \A e \in Range(events) : Truthful(e)
        BY <2>5, <2>6
      <3>4. events # << >>
        BY <2>6
      <3> QED
        BY <2>1, <2>5, <2>6, <2>7, <3>1, <3>2, <3>3, <3>4 DEF Tells
    <2>10. Shows(events)
      BY <2>1, <2>4, <2>8, <2>9 DEF Shows, Emit
    <2> QED
      BY <2>10
  <1> QED
    BY <1>2, <1>3, <1>4, <1>5, <1>6, <1>7 DEF ShellHandles

LEMMA AddedShows ==
    ASSUME TypeOK, HandlesDistinct, SurfaceAdded
    PROVE  \E events : Shows(events)
  <1> PICK h : h = nextIndex + 1
    OBVIOUS
  <1>1. /\ HandlesDistinct' /\ Live' = Live \cup {h} /\ nextIndex' = h
        /\ revision' = revision + 1
    BY AddedOpens DEF TypeOK, Session!Opens, Session!Rises
  <1>2. /\ revision \in Nat /\ revision' \in Nat /\ nextIndex \in Nat /\ h \in Nat /\ h \in Live'
        /\ activated' = activated /\ mapped' = mapped /\ controller' = controller
    BY <1>1 DEF SurfaceAdded, TypeOK, ShellTypeOK
  <1>3. PICK change : change = Changed(h, activated', mapped, revision')
    OBVIOUS
  <1>4. change \in Event /\ Truthful(change) /\ change.ev = "toplevel_changed"
    BY <1>2, <1>3, ChangedType, TruthfulEvents, EventFacts
  <1> DEFINE events == <<change>>
  <1>5. Emit(events)
    BY <1>2, <1>3 DEF SurfaceAdded, AssignHandle
  <1>6. events \in Seq(Event) /\ Range(events) = {change}
    <2>1. change \in Event
      BY <1>4
    <2> QED
      BY <2>1, OneEvent, RangeSmall
  <1>7. \A j \in 1 .. Len(events) : events[j].ev # "request_done"
    BY <1>4
  <1> HIDE DEF events
  <1>8. Tells(events)
    <2>1. nextIndex' >= nextIndex /\ revision' # revision /\ h > nextIndex
      BY <1>1, <1>2
    <2>2. Answers(events) /\ \A e \in Range(events) : Truthful(e)
      BY <1>4, <1>6, <1>7 DEF Answers
    <2> QED
      BY <1>1, <1>2, <1>6, <2>1, <2>2 DEF Tells
  <1> QED
    BY <1>1, <1>2, <1>5, <1>8 DEF Shows, Emit

LEMMA RemovedShows ==
    ASSUME TypeOK, HandlesDistinct, NEW i \in 1 .. Len(toplevels), SurfaceRemoved(i)
    PROVE  \E events : Shows(events)
  <1> PICK h : h = toplevels[i]
    OBVIOUS
  <1> DEFINE failures == {Failed(r.id, "window_not_found") : r \in RequestsFor(h)}
             gone == [ev |-> "toplevel_removed", handle |-> h]
             removal == <<gone>>
  <1>1. /\ HandlesDistinct' /\ h \in Live /\ Live' = Live \ {h}
        /\ nextIndex' = nextIndex /\ revision' = revision + 1
    BY RemovedDisappears DEF TypeOK, Session!Disappears, Session!Rises
  <1>2. /\ revision \in Nat /\ revision' \in Nat /\ nextIndex \in Nat /\ h \in Nat
        /\ activated' \subseteq activated /\ controller' = controller
    BY <1>1 DEF SurfaceRemoved, TypeOK, ShellTypeOK
  <1>3. IF failures = {} THEN Emit(removal) ELSE \E f \in failures : Emit(<<f>> \o removal)
    BY DEF SurfaceRemoved
  <1>4. gone \in Event /\ Truthful(gone) /\ gone.ev = "toplevel_removed"
    <2>1. gone \in Event /\ gone.ev = "toplevel_removed" /\ gone.handle = h
      BY <1>2, EventTypes
    <2> QED
      BY <1>1, <2>1 DEF Truthful, Revised
  <1> HIDE DEF gone
  <1>5. ASSUME NEW events \in Seq(Event), Emit(events),
               \A e \in Range(events) : Truthful(e) /\ e.ev # "request_done"
        PROVE  Shows(events)
    <2>1. nextIndex' >= nextIndex /\ revision' # revision
      BY <1>1, <1>2
    <2>2. \A j \in 1 .. Len(events) : events[j] \in Range(events)
      BY InRange
    <2>3. Answers(events)
      BY <1>5, <2>2 DEF Answers
    <2>4. Tells(events)
      BY <1>1, <1>2, <1>5, <2>1, <2>3 DEF Tells
    <2> QED
      BY <1>1, <1>2, <1>5, <2>4 DEF Shows, Emit
  <1>6. removal \in Seq(Event) /\ Range(removal) = {gone}
    <2>1. gone \in Event
      BY <1>4
    <2> QED
      BY <2>1, OneEvent, RangeSmall
  <1>7. CASE failures = {}
    BY <1>3, <1>4, <1>5, <1>6, <1>7
  <1>8. CASE failures # {}
    <2>1. PICK r \in RequestsFor(h) : Emit(<<Failed(r.id, "window_not_found")>> \o removal)
      BY <1>3, <1>8
    <2> DEFINE failed == Failed(r.id, "window_not_found")
               first == <<failed>>
               events == first \o removal
    <2>2. r.id \in Nat
      BY DEF RequestsFor, TypeOK, ShellTypeOK, PendingResize
    <2>3. failed \in Event /\ failed.ev = "request_failed" /\ Truthful(failed)
      BY <1>2, <2>2, EventTypes, EventFacts, TruthfulEvents DEF Codes
    <2>4. Emit(events)
      BY <2>1
    <2> HIDE DEF failed
    <2>5. first \in Seq(Event) /\ Range(first) = {failed}
      <3>1. failed \in Event
        BY <2>3
      <3> QED
        BY <3>1, OneEvent, RangeSmall
    <2> HIDE DEF first, removal
    <2>6. events \in Seq(Event) /\ Range(events) = Range(first) \cup Range(removal)
      BY <1>6, <2>5, JoinedAt
    <2> HIDE DEF events
    <2>7. \A e \in Range(events) : Truthful(e) /\ e.ev # "request_done"
      BY <1>4, <1>6, <2>3, <2>5, <2>6
    <2> QED
      BY <1>5, <2>4, <2>6, <2>7
  <1> QED
    BY <1>7, <1>8

LEMMA CommittedShows ==
    ASSUME TypeOK, HandlesDistinct, NEW h \in Live, NEW size \in Sizes, SurfaceCommitted(h, size)
    PROVE  \E events : Shows(events)
  <1>1. /\ UNCHANGED <<toplevels, activated, nextIndex, controller>> /\ Live' = Live
        /\ revision \in Nat /\ h \in Nat
    BY DEF SurfaceCommitted, TypeOK, ShellTypeOK, Live
  <1>2. CASE Completes(h, size) = {}
    <2>1. Untouched /\ toClient' = toClient
      BY <1>1, <1>2 DEF SurfaceCommitted, Untouched
    <2> QED
      BY <2>1, SilenceTells
  <1>3. CASE Completes(h, size) # {}
    <2>1. PICK r \in Completes(h, size) :
             /\ BumpRevision
             /\ Emit(<<Changed(h, activated, mapped', revision'),
                       [ev |-> "resize_done", id |-> r.id, configured |-> r.configured,
                        committed |-> size, rev |-> revision']>>)
      BY <1>3 DEF SurfaceCommitted
    <2>2. Untouched /\ revision' = revision + 1 /\ revision' \in Nat
      BY <1>1, <2>1 DEF Untouched, BumpRevision
    <2>3. r.id \in Nat /\ r.configured \in Sizes
      BY DEF Completes, RequestsFor, TypeOK, ShellTypeOK, PendingResize
    <2>4. PICK change : change = Changed(h, activated', mapped', revision')
      OBVIOUS
    <2>5. PICK done : done = [ev |-> "resize_done", id |-> r.id, configured |-> r.configured,
                              committed |-> size, rev |-> revision']
      OBVIOUS
    <2>6. change \in Event /\ Truthful(change) /\ change.ev = "toplevel_changed"
      BY <1>1, <2>2, <2>4, ChangedType, TruthfulEvents, EventFacts
    <2>7. done \in Event /\ Truthful(done) /\ done.ev = "resize_done"
      <3>1. done \in Event
        BY <2>2, <2>3, <2>5, EventTypes
      <3>2. done.ev = "resize_done" /\ done.rev = revision'
        BY <2>5
      <3> QED
        BY <2>2, <3>1, <3>2, TruthfulEvents
    <2> DEFINE events == <<change, done>>
    <2>8. Emit(events)
      BY <1>1, <2>1, <2>4, <2>5
    <2>9. events \in Seq(Event) /\ Range(events) = {change, done}
      <3>1. change \in Event /\ done \in Event
        BY <2>6, <2>7
      <3> QED
        BY <3>1, TwoEvents, RangeSmall
    <2> HIDE DEF events
    <2>10. \A j \in 1 .. Len(events) : events[j] \in Range(events)
      BY <2>9, InRange
    <2>11. Answers(events) /\ \A e \in Range(events) : Truthful(e)
      BY <2>6, <2>7, <2>9, <2>10 DEF Answers
    <2>12. Shows(events)
      BY <2>2, <2>8, <2>9, <2>11, UntouchedTells
    <2> QED
      BY <2>12
  <1> QED
    BY <1>2, <1>3

LEMMA ShellShows ==
    ASSUME TypeOK, HandlesDistinct, ShellStep
    PROVE  \E events : Shows(events)
  <1>1. CASE ShellHandles
    BY <1>1, HandlesShow
  <1>2. CASE SurfaceAdded
    BY <1>2, AddedShows
  <1>3. ASSUME NEW i \in 1 .. Len(toplevels), SurfaceRemoved(i)
        PROVE  \E events : Shows(events)
    BY <1>3, RemovedShows
  <1>4. ASSUME NEW h \in Live, NEW size \in Sizes, SurfaceCommitted(h, size)
        PROVE  \E events : Shows(events)
    BY <1>4, CommittedShows
  <1>5. ASSUME NEW h \in Live, StateRequested(h)
        PROVE  \E events : Shows(events)
    <2>1. /\ Untouched /\ revision' \in Nat /\ Live' = Live /\ h \in Nat
          /\ activated' = activated /\ mapped' = mapped
          /\ Emit(<<Changed(h, activated, mapped, revision')>>)
      BY <1>5 DEF StateRequested, windowVars, BumpRevision, Untouched, TypeOK, ShellTypeOK, Live
    <2>2. PICK a : a = Changed(h, activated', mapped, revision')
      OBVIOUS
    <2>3. a \in Event /\ Truthful(a) /\ a.ev = "toplevel_changed"
      BY <2>1, <2>2, ChangedType, TruthfulEvents, EventFacts
    <2> QED
      BY <2>1, <2>2, <2>3, OneTells
  <1>6. CASE Frame
    <2>1. PICK a : a = [ev |-> "frame", captureID |-> IF capturePending THEN captureID ELSE 0,
                        seq |-> frameSequence']
      OBVIOUS
    <2>2. /\ Untouched /\ revision' = revision /\ revision' \in Nat
          /\ (IF capturePending THEN captureID ELSE 0) \in Nat /\ frameSequence' \in Nat
          /\ Emit(<<a>>)
      BY <1>6, <2>1 DEF Frame, windowVars, Untouched, TypeOK, ShellTypeOK
    <2>3. a \in Event /\ a.ev = "frame"
      BY <2>1, <2>2, EventTypes
    <2> QED
      BY <2>2, <2>3, OneTells, TruthfulEvents
  <1> QED
    BY <1>1, <1>2, <1>3, <1>4, <1>5, <1>6 DEF ShellStep, Applications

-----------------------------------------------------------------------------
(***************************************************************************)
(* A step of the module.                                                   *)
(***************************************************************************)
LEMMA RevisedType == \A e \in Event : Revised(e) => RevOf(e) \in Nat
  <1> TAKE e \in Event
  <1> HAVE Revised(e)
  <1>1. CASE e.ev = "toplevel_changed"
    BY <1>1, EventOfKind DEF ChangedEvents, Toplevel, RevOf
  <1>2. CASE e.ev \in {"snapshot", "request_done", "resize_done"}
    BY <1>2, EventOfKind DEF SnapshotEvents, DoneEvents, ResizeDoneEvents, RevOf
  <1> QED
    BY <1>1, <1>2 DEF Revised

LEMMA ShownAt ==
    ASSUME TypeOK, NEW events, Shows(events)
    PROVE  /\ Len(toClient) \in Nat /\ Len(toClient') \in Nat /\ Len(toClient') >= Len(toClient)
           /\ \A i \in 1 .. Len(toClient) : toClient'[i] = toClient[i]
           /\ \A i \in 1 .. Len(toClient') :
                 \/ i \in 1 .. Len(toClient)
                 \/ /\ controller /\ i > Len(toClient)
                    /\ i - Len(toClient) \in 1 .. Len(events)
                    /\ toClient'[i] = events[i - Len(toClient)]
                    /\ toClient'[i] \in Range(events)
           /\ controller => /\ Len(events) \in Nat /\ Len(toClient') = Len(toClient) + Len(events)
                            /\ \A i \in 1 .. Len(events) :
                                  toClient'[Len(toClient) + i] = events[i]
  <1>1. toClient \in Seq(Event) /\ events \in Seq(Event)
    BY DEF TypeOK, WireTypeOK, Shows, Tells
  <1>2. CASE ~controller
    <2>1. toClient' = toClient /\ Len(toClient) \in Nat
      BY <1>1, <1>2 DEF Shows
    <2> QED
      BY <1>2, <2>1
  <1>3. CASE controller
    <2> PICK u : u = toClient'
      OBVIOUS
    <2> PICK m : m = Len(toClient)
      OBVIOUS
    <2> PICK n : n = Len(events)
      OBVIOUS
    <2>1. u = toClient \o events
      BY <1>3 DEF Shows
    <2>2. /\ m \in Nat /\ n \in Nat /\ Len(u) = m + n
          /\ \A i \in 1 .. Len(u) :
                \/ i \in 1 .. m /\ u[i] = toClient[i]
                \/ i - m \in 1 .. n /\ i > m /\ u[i] = events[i - m]
      BY <1>1, <2>1, JoinedAt
    <2>3. \A i \in 1 .. n : events[i] \in Range(events)
      BY <1>1, InRange
    <2>4. \A i \in 1 .. m : u[i] = toClient[i]
      BY <2>2
    <2>5. ASSUME NEW i \in 1 .. n PROVE u[m + i] = events[i]
      <3>1. m + i \in 1 .. Len(u) /\ ~(m + i \in 1 .. m) /\ (m + i) - m = i
        BY <2>2
      <3> QED
        BY <2>2, <3>1
    <2> QED
      BY <1>3, <2>2, <2>3, <2>4, <2>5
  <1> QED
    BY <1>2, <1>3

LEMMA RiseKeeps ==
    ASSUME TypeOK, TypeOK', IInv, VInv, NEW events, Shows(events), UNCHANGED clientVars
    PROVE  RevisionsRise'
  <1>1. /\ revision \in Nat /\ revision' \in Nat /\ revision' >= revision
        /\ clientRevision' = clientRevision /\ call' = call /\ clientRevision \in Nat
    BY DEF TypeOK, ShellTypeOK, ClientTypeOK, Shows, Tells, clientVars, cacheVars
  <1>2. \A i \in 1 .. Len(toClient) : Revised(toClient[i]) =>
           /\ RevOf(toClient[i]) \in Nat /\ RevOf(toClient[i]) <= revision
           /\ clientRevision <= RevOf(toClient[i])
    <2>1. toClient \in Seq(Event)
      BY DEF TypeOK, WireTypeOK
    <2>2. \A i \in 1 .. Len(toClient) : toClient[i] \in Event /\ toClient[i] \in Range(toClient)
      BY <2>1, InRange
    <2> QED
      BY <2>2, RevisedType DEF VInv, RevisionsRise, IInv, RevisionIsNewest
  <1>3. clientRevision <= revision
    BY DEF IInv, RevisionIsNewest
  <1>4. \A i \in 1 .. Len(toClient') :
           \/ i \in 1 .. Len(toClient) /\ toClient'[i] = toClient[i]
           \/ i > Len(toClient) /\ (Revised(toClient'[i]) => RevOf(toClient'[i]) = revision')
    BY ShownAt DEF Shows, Tells, Truthful
  <1>5. Len(toClient) \in Nat /\ Len(toClient') \in Nat
    BY ShownAt
  <1>6. ASSUME NEW i \in 1 .. Len(toClient'), NEW j \in 1 .. Len(toClient'), i <= j,
               Revised(toClient'[i]), Revised(toClient'[j])
        PROVE  RevOf(toClient'[i]) <= RevOf(toClient'[j])
    <2>1. CASE i \in 1 .. Len(toClient) /\ j \in 1 .. Len(toClient)
      BY <1>4, <1>5, <1>6, <2>1 DEF VInv, RevisionsRise
    <2>2. CASE i \in 1 .. Len(toClient) /\ ~(j \in 1 .. Len(toClient))
      <3>1. RevOf(toClient'[j]) = revision'
        BY <1>4, <1>6, <2>2
      <3>2. RevOf(toClient'[i]) \in Nat /\ RevOf(toClient'[i]) <= revision
        BY <1>2, <1>4, <1>5, <1>6, <2>2
      <3> QED
        BY <1>1, <3>1, <3>2
    <2>3. CASE ~(i \in 1 .. Len(toClient))
      <3>1. ~(j \in 1 .. Len(toClient))
        BY <1>5, <1>6, <2>3
      <3>2. RevOf(toClient'[i]) = revision' /\ RevOf(toClient'[j]) = revision'
        BY <1>4, <1>6, <2>3, <3>1
      <3> QED
        BY <1>1, <3>2
    <2> QED
      BY <2>1, <2>2, <2>3
  <1>7. ASSUME NEW e \in Range(toClient'), Revised(e) PROVE clientRevision <= RevOf(e)
    <2>1. PICK i \in 1 .. Len(toClient') : e = toClient'[i]
      BY InRange DEF TypeOK, WireTypeOK
    <2>2. CASE i \in 1 .. Len(toClient) /\ e = toClient[i]
      BY <1>2, <1>7, <2>2
    <2>3. CASE RevOf(e) = revision'
      BY <1>1, <1>3, <2>3
    <2> QED
      BY <1>4, <1>7, <2>1, <2>2, <2>3
  <1>8. \A c \in Callers : \A w \in call[c].list : w.rev <= clientRevision
    BY DEF VInv, RevisionsRise
  <1> QED
    BY <1>1, <1>6, <1>7, <1>8 DEF RevisionsRise

LEMMA GraveKeeps ==
    ASSUME TypeOK, TypeOK', HandlesDistinct, NEW events, Shows(events)
    PROVE  /\ \A h \in Nat : Buried(h) => Buried(h)'
           /\ \A h \in Live \ Live' : Buried(h)'
  <1>1. nextIndex \in Nat /\ nextIndex' \in Nat /\ nextIndex' >= nextIndex
    BY DEF TypeOK, ShellTypeOK, Shows, Tells
  <1>2. ASSUME NEW h \in Nat, Buried(h) PROVE Buried(h)'
    <2>1. h \notin Live'
      BY <1>1, <1>2 DEF Buried, Shows, Tells
    <2> QED
      BY <1>1, <1>2, <2>1 DEF Buried
  <1>3. ASSUME NEW h \in Live \ Live' PROVE Buried(h)'
    <2>1. h \in Nat /\ h <= nextIndex
      BY DEF Live, HandlesDistinct, TypeOK, ShellTypeOK
    <2> QED
      BY <1>1, <2>1 DEF Buried
  <1> QED
    BY <1>2, <1>3

LEMMA GoneKeeps ==
    ASSUME TypeOK, TypeOK', VInv, NEW events, Shows(events), UNCHANGED clientVars
    PROVE  GoneStaysGone'
  <1>1. removed' = removed /\ cache' = cache /\ removed \subseteq Nat
    BY DEF clientVars, cacheVars, TypeOK, ClientTypeOK
  <1>2. \A i \in 1 .. Len(toClient') :
           \/ i \in 1 .. Len(toClient) /\ toClient'[i] = toClient[i]
           \/ /\ i > Len(toClient) /\ Truthful(toClient'[i])
    BY ShownAt DEF Shows, Tells
  <1>3. Len(toClient) \in Nat /\ Len(toClient') \in Nat
    BY ShownAt
  <1>4. \A h : \A i \in 1 .. Len(toClient') :
           h \notin Live' /\ i > Len(toClient) => ~ChangeOf(toClient'[i], h)
    BY <1>2, <1>3 DEF Truthful, ChangeOf
  <1>5. ASSUME NEW h \in removed
        PROVE  Buried(h)' /\ \A e \in Range(toClient') : ~ChangeOf(e, h)
    <2>1. Buried(h) /\ \A e \in Range(toClient) : ~ChangeOf(e, h)
      BY DEF VInv, GoneStaysGone
    <2>2. Buried(h)'
      BY <1>1, <2>1, GraveKeeps DEF VInv
    <2>3. h \notin Live'
      BY <2>2 DEF Buried
    <2>4. \A i \in 1 .. Len(toClient) : toClient[i] \in Range(toClient)
      BY InRange DEF TypeOK, WireTypeOK
    <2>5. \A i \in 1 .. Len(toClient') : ~ChangeOf(toClient'[i], h)
      BY <1>2, <1>4, <2>1, <2>3, <2>4
    <2> QED
      <3>1. \A e \in Range(toClient') : \E i \in 1 .. Len(toClient') : e = toClient'[i]
        BY InRange DEF TypeOK, WireTypeOK
      <3> QED
        BY <2>2, <2>5, <3>1
  <1>6. ASSUME NEW i \in 1 .. Len(toClient'), toClient'[i].ev = "toplevel_removed",
               NEW h, h = toClient'[i].handle
        PROVE  Buried(h)' /\ \A j \in i + 1 .. Len(toClient') : ~ChangeOf(toClient'[j], h)
    <2>1. h \in Nat
      <3>1. toClient'[i] \in Event
        BY InRange DEF TypeOK, WireTypeOK
      <3> QED
        BY <1>6, <3>1, EventOfKind DEF RemovedEvents
    <2>2. CASE i \in 1 .. Len(toClient) /\ toClient'[i] = toClient[i]
      <3>1. /\ Buried(h)
            /\ \A j \in i + 1 .. Len(toClient) : ~ChangeOf(toClient[j], h)
        BY <1>6, <2>2 DEF VInv, GoneStaysGone
      <3>2. Buried(h)'
        BY <2>1, <3>1, GraveKeeps DEF VInv
      <3>3. h \notin Live'
        BY <3>2 DEF Buried
      <3>4. ASSUME NEW j \in i + 1 .. Len(toClient') PROVE ~ChangeOf(toClient'[j], h)
        <4>1. j \in 1 .. Len(toClient')
          BY <1>3, <2>2
        <4>2. CASE j \in 1 .. Len(toClient) /\ toClient'[j] = toClient[j]
          BY <1>3, <2>2, <3>1, <4>2
        <4>3. CASE j > Len(toClient)
          BY <1>4, <3>3, <4>1, <4>3
        <4> QED
          BY <1>2, <4>1, <4>2, <4>3
      <3> QED
        BY <3>2, <3>4
    <2>3. CASE i > Len(toClient) /\ Truthful(toClient'[i])
      <3>1. h \in Live \ Live'
        BY <1>6, <2>3 DEF Truthful
      <3>2. Buried(h)'
        BY <3>1, GraveKeeps DEF VInv
      <3>3. ASSUME NEW j \in i + 1 .. Len(toClient') PROVE ~ChangeOf(toClient'[j], h)
        <4>1. j \in 1 .. Len(toClient') /\ j > Len(toClient)
          BY <1>3, <2>3
        <4> QED
          BY <1>4, <3>1, <4>1
      <3> QED
        BY <3>2, <3>3
    <2> QED
      BY <1>2, <2>2, <2>3
  <1>7. RemovedStaysRemoved'
    BY <1>1 DEF VInv, GoneStaysGone, RemovedStaysRemoved
  <1> QED
    BY <1>1, <1>5, <1>6, <1>7 DEF GoneStaysGone, Buried

\* The revisions the client and the callers hold are numbers, none above the
\* module's.
LEMMA HeldRevisions ==
    ASSUME TypeOK, IInv
    PROVE  /\ revision \in Nat
           /\ clientRevision \in Nat /\ clientRevision <= revision
           /\ finishing.reply.rev \in Nat /\ finishing.reply.rev <= revision
           /\ \A c \in Callers : /\ call[c].reply.rev \in Nat /\ call[c].reply.rev <= revision
                                 /\ view[c].rev \in Nat /\ view[c].rev <= revision
           /\ \A i \in 1 .. Len(toClient) :
                 /\ toClient[i] \in Event
                 /\ Revised(toClient[i]) =>
                       RevOf(toClient[i]) \in Nat /\ RevOf(toClient[i]) <= revision
  <1>1. /\ revision \in Nat /\ clientRevision \in Nat /\ finishing.reply.rev \in Nat
        /\ \A c \in Callers : call[c].reply.rev \in Nat /\ view[c].rev \in Nat
    BY DEF TypeOK, ClientTypeOK, ShellTypeOK, Reply, Call, View
  <1>2. \A i \in 1 .. Len(toClient) : toClient[i] \in Event
    BY InRange DEF TypeOK, WireTypeOK
  <1> QED
    BY <1>1, <1>2, RevisedType DEF IInv, RevisionIsNewest

LEMMA MayShowKeeps ==
    ASSUME TypeOK, TypeOK', IInv, VInv, NEW events, Shows(events), UNCHANGED clientVars,
           NEW w, NEW k \in 1 .. Len(toClient) + 1, MayShow(w, k)
    PROVE  MayShow(w, k)'
  <1> PICK h : h = w.handle
    OBVIOUS
  <1>1. /\ clientRevision' = clientRevision /\ finishing' = finishing /\ call' = call
        /\ controller' = controller /\ revision' >= revision /\ revision' \in Nat
    BY DEF clientVars, cacheVars, Shows, Tells, TypeOK, ShellTypeOK
  <1>2. /\ Len(toClient) \in Nat /\ Len(toClient') \in Nat /\ Len(toClient') >= Len(toClient)
        /\ \A i \in 1 .. Len(toClient) : toClient'[i] = toClient[i]
    BY ShownAt
  <1>3. CASE Severed
    <2>1. Behind'
      BY <1>1, <1>3, HeldRevisions DEF Severed, Behind
    <2> QED
      BY <1>1, <1>3, <2>1 DEF Severed, MayShow
  <1>4. CASE \E i \in k .. Len(toClient) : Activates(i, h)
    <2> PICK i \in k .. Len(toClient) : Activates(i, h)
      BY <1>4
    <2>1. i \in 1 .. Len(toClient) /\ i \in k .. Len(toClient')
      BY <1>2
    <2>2. toClient'[i] = toClient[i] /\ \A j \in 1 .. i - 1 : toClient'[j] = toClient[j]
      BY <1>2, <2>1
    <2>3. Activates(i, h)'
      BY <1>1, <2>2 DEF Activates, OlderThan
    <2> QED
      BY <2>1, <2>3 DEF MayShow
  <1>5. CASE Flagged(w) /\ h \in activated' \ activated
    <2>1. revision' = revision + 1 /\ events # << >> /\ ChangeOf(events[1], h)
      BY <1>5 DEF Shows, Tells
    <2>2. CASE ~controller
      <3>1. Behind'
        BY <1>1, <2>1, HeldRevisions DEF Behind
      <3> QED
        BY <1>1, <2>2, <3>1 DEF Severed, MayShow
    <2>3. CASE controller
      <3> PICK i : i = Len(toClient) + 1
        OBVIOUS
      <3> PICK e : e = toClient'[i]
        OBVIOUS
      <3>1. 1 \in 1 .. Len(events) /\ events[1] \in Range(events)
        <4>1. events \in Seq(Event)
          BY DEF Shows, Tells
        <4>2. Len(events) \in Nat /\ Len(events) # 0
          BY <2>1, <4>1, EmptySeq, LenProperties
        <4>3. 1 \in 1 .. Len(events)
          BY <4>2
        <4> QED
          BY <4>1, <4>3, InRange
      <3>2. i \in k .. Len(toClient') /\ e = events[1] /\ Truthful(e)
        BY <1>2, <2>3, <3>1, ShownAt DEF Shows, Tells
      <3> PICK n : n = revision'
        OBVIOUS
      <3>3. ChangeOf(e, h) /\ e.window.activated /\ e.window.rev = n
        BY <1>5, <2>1, <3>2 DEF Truthful, ChangeOf, Revised, RevOf
      <3>4. OlderThan(n)'
        BY <1>1, <2>1, HeldRevisions DEF OlderThan
      <3>5. \A j \in 1 .. i - 1 : Revised(toClient'[j]) => RevOf(toClient'[j]) < n
        <4> TAKE j \in 1 .. i - 1
        <4>1. j \in 1 .. Len(toClient) /\ toClient'[j] = toClient[j]
          BY <1>2
        <4> QED
          BY <2>1, <4>1, HeldRevisions
      <3>6. Activates(i, h)'
        BY <3>3, <3>4, <3>5 DEF Activates, OlderThan
      <3> QED
        BY <3>2, <3>6 DEF MayShow
    <2> QED
      BY <2>2, <2>3
  <1>6. CASE Flagged(w) /\ h \notin activated' \ activated
    BY <1>6 DEF Flagged, MayShow
  <1> QED
    BY <1>3, <1>4, <1>5, <1>6 DEF MayShow

LEMMA ActiveKeeps ==
    ASSUME TypeOK, TypeOK', IInv, VInv, NEW events, Shows(events), UNCHANGED clientVars
    PROVE  ActiveShown'
  <1>1. UNCHANGED <<cache, call, removed, view>>
    BY DEF clientVars, cacheVars
  <1>2. /\ Len(toClient) \in Nat /\ Len(toClient') \in Nat /\ 1 \in 1 .. Len(toClient) + 1
        /\ \A i \in 1 .. Len(toClient) : i + 1 \in 1 .. Len(toClient) + 1
    BY ShownAt
  <1>3. \A w \in cache : MayShow(w, 1)'
    BY <1>2, MayShowKeeps DEF VInv, ActiveShown
  <1>4. ASSUME NEW c \in Callers, NEW w \in call[c].list
        PROVE  w.handle \in removed' \/ Superseded(w)' \/ MayShow(w, 1)'
    <2>1. w.handle \in removed \/ Superseded(w) \/ MayShow(w, 1)
      BY DEF VInv, ActiveShown
    <2> QED
      BY <1>1, <1>2, <2>1, MayShowKeeps DEF Superseded
  <1>5. ASSUME NEW i \in 1 .. Len(toClient'), NEW e, e = toClient'[i], e.ev = "toplevel_changed"
        PROVE  MayShow(e.window, i + 1)'
    <2>1. CASE i \in 1 .. Len(toClient) /\ e = toClient[i]
      <3>1. MayShow(e.window, i + 1)
        BY <1>5, <2>1 DEF VInv, ActiveShown
      <3> QED
        BY <1>2, <2>1, <3>1, MayShowKeeps
    <2>2. CASE Truthful(e)
      BY <1>5, <2>2 DEF Truthful, MayShow, Flagged
    <2> QED
      BY <1>5, <2>1, <2>2, ShownAt DEF Shows, Tells
  <1>6. CurrentViewShowsActive'
    <2>1. CASE revision' = revision
      BY <1>1, <2>1 DEF Shows, Tells, VInv, ActiveShown, CurrentViewShowsActive
    <2>2. CASE revision' = revision + 1
      <3>1. \A c \in Callers : view[c].rev # revision'
        BY <2>2, HeldRevisions
      <3> QED
        BY <1>1, <3>1 DEF CurrentViewShowsActive
    <2> QED
      BY <2>1, <2>2 DEF Shows, Tells
  <1> QED
    BY <1>1, <1>3, <1>4, <1>5, <1>6 DEF ActiveShown, MayShow, Flagged, Severed, Behind,
                                        Activates, OlderThan

LEMMA CollectedKeeps ==
    ASSUME TypeOK, NEW events, Shows(events), UNCHANGED clientVars,
           NEW c \in Callers, NEW h, NEW j \in 1 .. Len(toClient), Collected(c, h, j)
    PROVE  Collected(c, h, j)'
  <1>1. call' = call
    BY DEF clientVars
  <1>2. \A i \in 1 .. j - 1 : toClient'[i] = toClient[i]
    <2>1. /\ Len(toClient) \in Nat
          /\ \A i \in 1 .. Len(toClient) : toClient'[i] = toClient[i]
      BY ShownAt
    <2> QED
      BY <2>1
  <1>3. CASE /\ h \in Handles(call[c].list)
             /\ \A k \in 1 .. j - 1 : toClient[k].ev # "snapshot"
    BY <1>1, <1>2, <1>3 DEF Collected
  <1>4. ASSUME NEW i \in 1 .. j - 1, ChangeOf(toClient[i], h),
               \A k \in i + 1 .. j - 1 : toClient[k].ev # "snapshot"
        PROVE  Collected(c, h, j)'
    <2>1. \A k \in i + 1 .. j - 1 : k \in 1 .. j - 1
      OBVIOUS
    <2>2. \A k \in i + 1 .. j - 1 : toClient'[k].ev # "snapshot"
      BY <1>2, <1>4, <2>1
    <2>3. ChangeOf(toClient'[i], h)
      BY <1>2, <1>4
    <2> QED
      BY <2>2, <2>3 DEF Collected
  <1> QED
    BY <1>3, <1>4 DEF Collected

LEMMA CollectKeeps ==
    ASSUME TypeOK, TypeOK', IInv, AInv, VInv, NEW events, Shows(events), UNCHANGED clientVars
    PROVE  SnapshotsCollect'
  <1>1. UNCHANGED <<call, pending, finishing, view>>
    BY DEF clientVars
  <1>2. /\ revision' \in {revision, revision + 1}
        /\ revision' = revision => Live' = Live
    BY DEF Shows, Tells
  <1>3. ASSUME NEW r, r <= revision, r \in Nat, r = revision'
        PROVE  revision' = revision /\ Live' = Live
    BY <1>2, <1>3, HeldRevisions
  <1>4. ASSUME NEW c \in pending, Snapshotting(c), NEW j \in 1 .. Len(toClient'),
               NEW e, e = toClient'[j],
               e.ev = "request_done", e.id = call[c].id, e.rev = revision', NEW h \in Live'
        PROVE  Collected(c, h, j)'
    <2>0. c \in Callers
      BY DEF TypeOK, ClientTypeOK
    <2>1. CASE j \in 1 .. Len(toClient)
      <3>1. e = toClient[j]
        BY <1>4, <2>1, ShownAt
      <3>2. revision' = revision /\ Live' = Live
        <4>1. e.rev \in Nat /\ e.rev <= revision
          BY <1>4, <2>1, <3>1, HeldRevisions DEF Revised, RevOf
        <4> QED
          BY <1>3, <1>4, <4>1
      <3>3. Collected(c, h, j)
        BY <1>4, <2>1, <3>1, <3>2 DEF VInv, SnapshotsCollect, SnapshotAnswer
      <3> QED
        BY <2>0, <2>1, <3>3, CollectedKeeps
    <2>2. CASE j \notin 1 .. Len(toClient)
      <3> PICK m : m = Len(toClient)
        OBVIOUS
      <3> PICK l : l = j - m
        OBVIOUS
      <3>1. /\ controller /\ m \in Nat /\ l \in 1 .. Len(events) /\ e = events[l]
            /\ Len(events) \in Nat /\ j = m + l
            /\ \A i \in 1 .. Len(events) : toClient'[m + i] = events[i]
        BY <1>4, <2>2, ShownAt
      <3>2. PICK q \in Range(toShell) :
               /\ e.id = q.id
               /\ q.kind = "snapshot" => revision' = revision /\ Lists(events, l)
        BY <1>4, <3>1 DEF Shows, Tells, Answers
      <3>3. q.kind = "snapshot"
        <4>1. InFlight(c)
          BY <2>0 DEF IInv, PendingIsUnanswered, InFlight
        <4>2. q = RequestOf(c)
          BY <1>4, <2>0, <3>2, <4>1 DEF AInv, Fits, QueueFits
        <4>3. q.kind = call[c].kind
          BY <4>2 DEF RequestOf
        <4> QED
          BY <1>4, <4>3 DEF Snapshotting
      <3>4. h \in Live /\ Lists(events, l)
        BY <1>2, <1>4, <3>2, <3>3
      <3>5. PICK i \in 1 .. l - 1 :
               /\ ChangeOf(events[i], h)
               /\ \A k \in i + 1 .. l - 1 : events[k].ev # "snapshot"
        BY <3>4 DEF Lists
      <3>6. m + i \in 1 .. j - 1 /\ ChangeOf(toClient'[m + i], h)
        <4>1. i \in 1 .. Len(events) /\ m + i \in 1 .. j - 1
          BY <3>1, <3>5
        <4> QED
          BY <3>1, <3>5, <4>1
      <3>7. ASSUME NEW k \in (m + i) + 1 .. j - 1 PROVE toClient'[k].ev # "snapshot"
        <4>1. k - m \in i + 1 .. l - 1 /\ k - m \in 1 .. Len(events) /\ k = m + (k - m)
          BY <3>1
        <4>2. toClient'[m + (k - m)] = events[k - m]
          BY <3>1, <4>1
        <4> QED
          BY <3>5, <4>1, <4>2
      <3> QED
        BY <3>6, <3>7 DEF Collected
    <2> QED
      BY <2>1, <2>2
  <1>5. ASSUME NEW c \in pending, Snapshotting(c), HandlerRunning, finishing.id = call[c].id,
               finishing.reply.rev = revision'
        PROVE  Live' \subseteq Handles(call[c].list)
    <2>1. revision' = revision /\ Live' = Live
      BY <1>3, <1>5, HeldRevisions
    <2> QED
      BY <1>5, <2>1 DEF VInv, SnapshotsCollect
  <1>6. ASSUME NEW c \in Callers, Snapshotting(c), call[c].reply.status = "done",
               call[c].reply.rev = revision'
        PROVE  Live' \subseteq Handles(call[c].list)
    <2>1. revision' = revision /\ Live' = Live
      BY <1>3, <1>6, HeldRevisions
    <2> QED
      BY <1>6, <2>1 DEF VInv, SnapshotsCollect
  <1>7. ASSUME NEW c \in Callers, view[c].full, view[c].rev = revision'
        PROVE  Live' \subseteq Handles(view[c].windows)
    <2>1. revision' = revision /\ Live' = Live
      BY <1>3, <1>7, HeldRevisions
    <2> QED
      BY <1>7, <2>1 DEF VInv, SnapshotsCollect, CurrentSnapshotIsComplete
  <1>8. /\ \A c \in Callers : Snapshotting(c)' <=> Snapshotting(c)
        /\ HandlerRunning' <=> HandlerRunning
    BY <1>1 DEF Snapshotting, HandlerRunning
  <1>9. CurrentSnapshotIsComplete'
    BY <1>1, <1>7 DEF CurrentSnapshotIsComplete
  <1>10. pending \subseteq Callers
    BY DEF TypeOK, ClientTypeOK
  <1>11. \A c \in pending', j \in 1 .. Len(toClient') :
            Snapshotting(c)' /\ SnapshotAnswer(toClient[j], c)' => \A h \in Live' : Collected(c, h, j)'
    BY <1>1, <1>4, <1>8, <1>10 DEF SnapshotAnswer
  <1> QED
    BY <1>1, <1>5, <1>6, <1>8, <1>9, <1>10, <1>11 DEF SnapshotsCollect

LEMMA ShellStates ==
    ASSUME TypeOK, TypeOK', IInv, AInv, VInv, ShellStep
    PROVE  VInv'
  <1>1. PICK events : Shows(events)
    BY ShellShows DEF VInv
  <1>2. UNCHANGED clientVars
    BY DEF ShellStep
  <1>3. HandlesDistinct'
    BY <1>1 DEF Shows
  <1> QED
    BY <1>1, <1>2, <1>3, RiseKeeps, GoneKeeps, ActiveKeeps, CollectKeeps DEF VInv

-----------------------------------------------------------------------------
(***************************************************************************)
(* The client's steps that observe nothing.                                *)
(***************************************************************************)
\* The call goes on with what it collected: it is woken by a loss, or by the
\* answer the handler holds for it.
GoesOnWith(c) ==
    /\ call'[c].kind = call[c].kind /\ call'[c].id = call[c].id /\ call'[c].list = call[c].list
    /\ c \in pending' => c \in pending
    /\ \/ call'[c].reply = call[c].reply
       \/ call'[c].reply = LostReply
       \/ /\ c \in pending /\ HandlerRunning /\ finishing.id = call[c].id
          /\ call'[c].reply = finishing.reply

BeginsAnew(c) == call'[c].list = {} /\ call'[c].reply = NoReply /\ call'[c].id \notin Ids
IsOver(c) == call'[c] = NoCall /\ c \notin pending'

Observes ==
    /\ UNCHANGED <<toClient, cache, removed, clientRevision, view>>
    /\ UNCHANGED <<toplevels, activated, nextIndex, revision, controller>>
    /\ finishing' = finishing \/ finishing'.reply = NoReply
    /\ \A c \in Callers : GoesOnWith(c) \/ BeginsAnew(c) \/ IsOver(c)

LEMMA QuietRevisions ==
    ASSUME TypeOK, IInv, Observes
    PROVE  /\ \A n \in Nat : OlderThan(n) => OlderThan(n)'
           /\ Severed => Severed'
  <1>1. /\ clientRevision \in Nat /\ clientRevision' = clientRevision
        /\ finishing.reply.rev \in Nat /\ revision \in Nat /\ revision' = revision
        /\ controller' = controller
        /\ \A c \in Callers : call[c].reply.rev \in Nat
    BY HeldRevisions DEF Observes
  <1>2. /\ finishing'.reply.rev \in {finishing.reply.rev, 0}
        /\ \A c \in Callers :
              call'[c].reply.rev \in {call[c].reply.rev, finishing.reply.rev, 0}
    <2>1. NoReply.rev = 0 /\ LostReply.rev = 0 /\ NoCall.reply = NoReply
      BY DEF NoReply, LostReply, NoCall
    <2> QED
      BY <2>1 DEF Observes, GoesOnWith, BeginsAnew, IsOver
  <1>3. ASSUME NEW n \in Nat, OlderThan(n) PROVE OlderThan(n)'
    <2>1. clientRevision' < n
      BY <1>1, <1>3 DEF OlderThan
    <2>2. finishing'.reply.rev < n
      BY <1>1, <1>2, <1>3 DEF OlderThan
    <2>3. ASSUME NEW c \in Callers PROVE call'[c].reply.rev < n
      BY <1>1, <1>2, <1>3 DEF OlderThan
    <2> QED
      BY <2>1, <2>2, <2>3 DEF OlderThan
  <1>4. Severed => Severed'
    <2>1. Behind <=> OlderThan(revision)
      BY DEF Behind, OlderThan
    <2>2. OlderThan(revision) => Behind'
      BY <1>1, <1>2 DEF OlderThan, Behind
    <2> QED
      BY <1>1, <2>1, <2>2 DEF Severed
  <1> QED
    BY <1>3, <1>4

LEMMA QuietShow ==
    ASSUME TypeOK, IInv, Observes, NEW w, NEW k \in Nat \ {0}, MayShow(w, k)
    PROVE  MayShow(w, k)'
  <1>1. toClient' = toClient /\ activated' = activated
    BY DEF Observes
  <1>2. ASSUME NEW i \in k .. Len(toClient), Activates(i, w.handle) PROVE Activates(i, w.handle)'
    <2>1. i \in 1 .. Len(toClient)
      BY DEF TypeOK, WireTypeOK
    <2>2. toClient[i].window.rev \in Nat
      <3>1. toClient[i] \in Event /\ toClient[i].ev = "toplevel_changed"
        BY <1>2, <2>1, HeldRevisions DEF Activates, ChangeOf
      <3> QED
        BY <3>1, EventOfKind DEF ChangedEvents, Toplevel
    <2>3. PICK n \in Nat : n = toClient[i].window.rev
      BY <2>2
    <2>4. OlderThan(n)'
      BY <1>2, <2>3, QuietRevisions DEF Activates
    <2> QED
      BY <1>1, <1>2, <2>3, <2>4 DEF Activates, OlderThan
  <1> QED
    BY <1>1, <1>2, QuietRevisions DEF MayShow, Flagged

LEMMA QuietStates ==
    ASSUME TypeOK, TypeOK', IInv, AInv, VInv, Observes
    PROVE  VInv'
  <1>1. /\ UNCHANGED <<toClient, cache, removed, clientRevision, view>>
        /\ UNCHANGED <<toplevels, activated, nextIndex, revision, controller>>
        /\ Live' = Live
    BY DEF Observes, Live
  <1>2. /\ NoCall.list = {} /\ NoCall.kind = "none"
        /\ NoReply.status = "none" /\ LostReply.status = "lost"
    BY DEF NoCall, NoReply, LostReply
  <1>3. HandlesDistinct'
    BY <1>1 DEF VInv, HandlesDistinct
  <1>4. \A c \in Callers : call'[c].list \subseteq call[c].list
    BY <1>2 DEF Observes, GoesOnWith, BeginsAnew, IsOver
  <1>5. RevisionsRise'
    BY <1>1, <1>4 DEF VInv, RevisionsRise
  <1>6. GoneStaysGone'
    BY <1>1 DEF VInv, GoneStaysGone, RemovedStaysRemoved, Buried
  <1>7. ActiveShown'
    <2>1. \A w \in cache' : MayShow(w, 1)'
      BY <1>1, QuietShow DEF VInv, ActiveShown
    <2>2. ASSUME NEW c \in Callers, NEW w \in call'[c].list
          PROVE  w.handle \in removed' \/ Superseded(w)' \/ MayShow(w, 1)'
      <3>1. w.handle \in removed \/ Superseded(w) \/ MayShow(w, 1)
        BY <1>4 DEF VInv, ActiveShown
      <3> QED
        BY <1>1, <3>1, QuietShow DEF Superseded
    <2>3. ASSUME NEW i \in 1 .. Len(toClient), NEW e, e = toClient[i], e.ev = "toplevel_changed"
          PROVE  MayShow(e.window, i + 1)'
      <3>1. MayShow(e.window, i + 1) /\ i + 1 \in Nat \ {0}
        BY <2>3 DEF VInv, ActiveShown
      <3> QED
        BY <3>1, QuietShow
    <2>4. CurrentViewShowsActive'
      BY <1>1 DEF VInv, ActiveShown, CurrentViewShowsActive
    <2> QED
      BY <1>1, <2>1, <2>2, <2>3, <2>4 DEF ActiveShown, MayShow, Flagged, Severed, Behind,
                                          Activates, OlderThan
  <1>8. SnapshotsCollect'
    <2>0. /\ pending \subseteq Callers /\ pending' \subseteq Callers
          /\ \A i \in 1 .. Len(toClient) : toClient[i] \in Range(toClient)
      BY InRange DEF TypeOK, ClientTypeOK, WireTypeOK
    <2>1. ASSUME NEW c \in pending', call'[c].kind = "snapshot",
                 NEW id \in Ids, id = call'[c].id
          PROVE  /\ GoesOnWith(c) /\ c \in pending /\ Snapshotting(c) /\ id = call[c].id
      BY <1>2, <2>0, <2>1 DEF Observes, GoesOnWith, BeginsAnew, IsOver, Snapshotting
    <2>2. ASSUME NEW c \in pending', call'[c].kind = "snapshot", NEW j \in 1 .. Len(toClient),
                 NEW e, e = toClient[j], e.ev = "request_done", e.id = call'[c].id,
                 e.rev = revision, NEW h \in Live
          PROVE  Collected(c, h, j)'
      <3>1. e.id \in Ids
        BY <2>0, <2>2 DEF AInv, Numbered, HasId
      <3>2. GoesOnWith(c) /\ c \in pending /\ Snapshotting(c) /\ e.id = call[c].id
        BY <2>1, <2>2, <3>1
      <3>3. Collected(c, h, j)
        BY <2>2, <3>2 DEF VInv, SnapshotsCollect, SnapshotAnswer
      <3> QED
        BY <1>1, <3>2, <3>3 DEF Collected, GoesOnWith
    <2>3. ASSUME NEW c \in pending', call'[c].kind = "snapshot", HandlerRunning',
                 finishing'.id = call'[c].id, finishing'.reply.rev = revision
          PROVE  Live \subseteq Handles(call'[c].list)
      <3>1. finishing' = finishing /\ HandlerRunning
        BY <2>3 DEF Observes, HandlerRunning
      <3>2. finishing.id \in Ids
        BY <3>1 DEF AInv, Numbered
      <3>3. GoesOnWith(c) /\ c \in pending /\ Snapshotting(c) /\ finishing.id = call[c].id
        BY <2>1, <2>3, <3>1, <3>2
      <3> QED
        BY <2>3, <3>1, <3>3 DEF VInv, SnapshotsCollect, GoesOnWith
    <2>4. ASSUME NEW c \in Callers, call'[c].kind = "snapshot", call'[c].reply.status = "done",
                 call'[c].reply.rev = revision
          PROVE  Live \subseteq Handles(call'[c].list)
      <3>1. GoesOnWith(c)
        BY <1>2, <2>4 DEF Observes, BeginsAnew, IsOver
      <3>2. Snapshotting(c) /\ call'[c].list = call[c].list
        BY <2>4, <3>1 DEF GoesOnWith, Snapshotting
      <3>3. CASE call'[c].reply = call[c].reply
        BY <2>4, <3>2, <3>3 DEF VInv, SnapshotsCollect
      <3>4. CASE /\ c \in pending /\ HandlerRunning /\ finishing.id = call[c].id
                 /\ call'[c].reply = finishing.reply
        BY <2>4, <3>2, <3>4 DEF VInv, SnapshotsCollect
      <3> QED
        BY <1>2, <2>4, <3>1, <3>3, <3>4 DEF GoesOnWith
    <2>5. CurrentSnapshotIsComplete'
      BY <1>1 DEF VInv, SnapshotsCollect, CurrentSnapshotIsComplete
    <2>6. \A c \in pending', j \in 1 .. Len(toClient') :
             Snapshotting(c)' /\ SnapshotAnswer(toClient[j], c)'
                => \A h \in Live' : Collected(c, h, j)'
      BY <1>1, <2>2 DEF SnapshotAnswer, Snapshotting
    <2> QED
      BY <1>1, <2>3, <2>4, <2>5, <2>6 DEF SnapshotsCollect, Snapshotting
  <1> QED
    BY <1>3, <1>5, <1>6, <1>7, <1>8 DEF VInv

-----------------------------------------------------------------------------
(***************************************************************************)
(* The dispatcher takes an event.                                          *)
(***************************************************************************)
\* What becomes of a set of windows when e is dispatched.
Noted(windows, e) ==
    IF e.ev = "toplevel_changed" THEN Upsert(windows, e.window)
    ELSE IF e.ev = "toplevel_removed" THEN Drop(windows, e.handle)
    ELSE windows

ListAfter(c, e) ==
    IF c \in pending /\ Snapshotting(c)
    THEN IF e.ev = "snapshot" THEN {} ELSE Noted(call[c].list, e)
    ELSE call[c].list

\* Failures and authorizations are answered at once, with no revision.
AnswerAfter(c, e) ==
    \/ call'[c].reply = call[c].reply
    \/ /\ call'[c].reply.rev = 0 /\ c \in pending /\ call[c].id = e.id
       /\ call'[c].reply.status = "failed" \/ e.ev = "capture_authorized"

Takes(e) ==
    /\ clientRevision' = IF Revised(e) THEN RevOf(e) ELSE clientRevision
    /\ removed' = IF e.ev = "toplevel_removed" THEN removed \cup {e.handle} ELSE removed
    /\ cache' = Noted(cache, e)
    /\ \A c \in Callers : /\ call'[c].kind = call[c].kind /\ call'[c].id = call[c].id
                          /\ call'[c].list = ListAfter(c, e) /\ AnswerAfter(c, e)
    /\ pending' \subseteq pending
    /\ \/ finishing' = finishing
       \/ /\ e.ev \in {"request_done", "resize_done"}
          /\ finishing'.id = e.id /\ finishing'.reply.rev = e.rev

LEMMA ListsAfter ==
    ASSUME TypeOK, NEW lists, ListsBecome(lists), NEW e, e.ev \in {"snapshot", "toplevel_changed",
           "toplevel_removed"},
           \A c \in Callers :
              lists[c] = IF e.ev = "snapshot" THEN {} ELSE Noted(call[c].list, e)
    PROVE  \A c \in Callers : /\ call'[c].kind = call[c].kind /\ call'[c].id = call[c].id
                              /\ call'[c].list = ListAfter(c, e) /\ AnswerAfter(c, e)
  <1> TAKE c \in Callers
  <1>1. call[c] \in Call
    BY DEF TypeOK, ClientTypeOK
  <1>2. call'[c] = IF c \in pending /\ call[c].kind = "snapshot"
                   THEN [call[c] EXCEPT !.list = lists[c]] ELSE call[c]
    BY DEF ListsBecome
  <1>3. /\ call'[c].kind = call[c].kind /\ call'[c].id = call[c].id
        /\ call'[c].reply = call[c].reply
        /\ call'[c].list = IF c \in pending /\ call[c].kind = "snapshot"
                           THEN lists[c] ELSE call[c].list
    BY <1>1, <1>2 DEF Call
  <1> QED
    BY <1>3 DEF ListAfter, AnswerAfter, Snapshotting

LEMMA FinishAfter ==
    ASSUME TypeOK, NEW e, NEW r, Finish(e.id, r), r.rev = 0,
           e.ev \in {"request_failed", "capture_authorized"},
           r.status = "failed" \/ e.ev = "capture_authorized"
    PROVE  /\ \A c \in Callers : /\ call'[c].kind = call[c].kind /\ call'[c].id = call[c].id
                                 /\ call'[c].list = ListAfter(c, e) /\ AnswerAfter(c, e)
           /\ pending' \subseteq pending
  <1>1. pending' \subseteq pending
    BY DEF Finish
  <1> SUFFICES ASSUME NEW c \in Callers
               PROVE  /\ call'[c].kind = call[c].kind /\ call'[c].id = call[c].id
                      /\ call'[c].list = ListAfter(c, e) /\ AnswerAfter(c, e)
    BY <1>1
  <1>2. /\ SameCall(c) /\ call'[c].list = call[c].list
        /\ call'[c].reply = IF c \in Owner(e.id) THEN r ELSE call[c].reply
    BY WokenSame, FinishDelivers DEF Finish
  <1>3. AnswerAfter(c, e)
    BY <1>2 DEF Owner, AnswerAfter
  <1>4. call'[c].list = ListAfter(c, e)
    BY <1>2 DEF ListAfter, Noted
  <1> QED
    BY <1>2, <1>3, <1>4 DEF SameCall

LEMMA SameAfter ==
    ASSUME call' = call, NEW e, e.ev \notin {"snapshot", "toplevel_changed", "toplevel_removed"}
    PROVE  \A c \in Callers : /\ call'[c].kind = call[c].kind /\ call'[c].id = call[c].id
                              /\ call'[c].list = ListAfter(c, e) /\ AnswerAfter(c, e)
  BY DEF ListAfter, Noted, AnswerAfter

LEMMA DispatchTakes ==
    ASSUME TypeOK, IInv, VInv, Dispatch
    PROVE  Takes(Head(toClient))
  <1> PICK e : e = Head(toClient)
    OBVIOUS
  <1>1. e \in Event /\ e \in Range(toClient) /\ clientRevision \in Nat
    BY TailAt DEF Dispatch, TypeOK, WireTypeOK, ClientTypeOK
  <1>2. Revised(e) => clientRevision <= RevOf(e) /\ RevOf(e) \in Nat
    BY <1>1, RevisedType DEF VInv, RevisionsRise
  <1>3. ASSUME e.ev \in {"request_done", "resize_done"}
        PROVE  RaisedTo(e.rev) = RevOf(e) /\ RevOf(e) = e.rev
    BY <1>1, <1>2, <1>3 DEF RaisedTo, Revised, RevOf
  <1> USE DEF cacheVars
  <1>4. CASE OnSnapshot(e)
    <2>1. /\ e.ev = "snapshot" /\ clientRevision' = e.rev /\ cache' = cache /\ removed' = removed
          /\ pending' = pending /\ finishing' = finishing
          /\ ListsBecome([c \in Callers |-> {}])
      BY <1>4 DEF OnSnapshot
    <2>2. PICK lists : lists = [c \in Callers |-> {}]
      OBVIOUS
    <2>3. /\ ListsBecome(lists)
          /\ e.ev \in {"snapshot", "toplevel_changed", "toplevel_removed"}
          /\ \A c \in Callers :
                lists[c] = IF e.ev = "snapshot" THEN {} ELSE Noted(call[c].list, e)
      BY <2>1, <2>2
    <2>4. \A c \in Callers : /\ call'[c].kind = call[c].kind /\ call'[c].id = call[c].id
                             /\ call'[c].list = ListAfter(c, e) /\ AnswerAfter(c, e)
      BY <2>3, ListsAfter
    <2> QED
      BY <2>1, <2>4 DEF Takes, Noted, Revised, RevOf
  <1>5. CASE OnToplevelChanged(e)
    <2> DEFINE lists == [c \in Callers |-> Upsert(call[c].list, e.window)]
    <2>1. /\ e.ev = "toplevel_changed" /\ clientRevision' = e.window.rev
          /\ cache' = Upsert(cache, e.window) /\ removed' = removed
          /\ pending' = pending /\ finishing' = finishing /\ ListsBecome(lists)
      BY <1>5 DEF OnToplevelChanged
    <2>2. \A c \in Callers : lists[c] = IF e.ev = "snapshot" THEN {} ELSE Noted(call[c].list, e)
      BY <2>1 DEF Noted
    <2> HIDE DEF lists
    <2>3. \A c \in Callers : /\ call'[c].kind = call[c].kind /\ call'[c].id = call[c].id
                             /\ call'[c].list = ListAfter(c, e) /\ AnswerAfter(c, e)
      BY <2>1, <2>2, ListsAfter
    <2> QED
      BY <2>1, <2>3 DEF Takes, Noted, Revised, RevOf
  <1>6. CASE OnToplevelRemoved(e)
    <2> DEFINE lists == [c \in Callers |-> Drop(call[c].list, e.handle)]
    <2>1. /\ e.ev = "toplevel_removed" /\ clientRevision' = clientRevision
          /\ cache' = Drop(cache, e.handle) /\ removed' = removed \cup {e.handle}
          /\ pending' = pending /\ finishing' = finishing /\ ListsBecome(lists)
      BY <1>6 DEF OnToplevelRemoved
    <2>2. \A c \in Callers : lists[c] = IF e.ev = "snapshot" THEN {} ELSE Noted(call[c].list, e)
      BY <2>1 DEF Noted
    <2> HIDE DEF lists
    <2>3. \A c \in Callers : /\ call'[c].kind = call[c].kind /\ call'[c].id = call[c].id
                             /\ call'[c].list = ListAfter(c, e) /\ AnswerAfter(c, e)
      BY <2>1, <2>2, ListsAfter
    <2> QED
      BY <2>1, <2>3 DEF Takes, Noted, Revised
  <1>7. CASE OnRequestDone(e)
    <2>1. /\ e.ev = "request_done" /\ clientRevision' = RaisedTo(e.rev)
          /\ UNCHANGED <<cache, removed, pending, call>>
          /\ finishing' = [id |-> e.id, reply |-> DoneReply(e.rev)]
      BY <1>7 DEF OnRequestDone
    <2>2. finishing'.id = e.id /\ finishing'.reply.rev = e.rev
      BY <2>1 DEF DoneReply, NoReply
    <2>3. clientRevision' = RevOf(e) /\ Revised(e)
      BY <1>3, <2>1 DEF Revised
    <2> QED
      BY <2>1, <2>2, <2>3, SameAfter DEF Takes, Noted
  <1>8. CASE OnResizeDone(e)
    <2>1. /\ e.ev = "resize_done" /\ clientRevision' = RaisedTo(e.rev)
          /\ UNCHANGED <<cache, removed, pending, call>>
          /\ finishing' = [id |-> e.id, reply |-> ResizedReply(e)]
      BY <1>8 DEF OnResizeDone
    <2>2. finishing'.id = e.id /\ finishing'.reply.rev = e.rev
      BY <2>1 DEF ResizedReply
    <2>3. clientRevision' = RevOf(e) /\ Revised(e)
      BY <1>3, <2>1 DEF Revised
    <2> QED
      BY <2>1, <2>2, <2>3, SameAfter DEF Takes, Noted
  <1>9. CASE OnRequestFailed(e)
    <2>1. /\ e.ev = "request_failed" /\ Finish(e.id, FailedReply(e.code))
          /\ UNCHANGED <<cache, removed, clientRevision, finishing>>
      BY <1>9 DEF OnRequestFailed
    <2>2. FailedReply(e.code).rev = 0 /\ FailedReply(e.code).status = "failed"
      BY DEF FailedReply, NoReply
    <2>3. /\ \A c \in Callers : /\ call'[c].kind = call[c].kind /\ call'[c].id = call[c].id
                                /\ call'[c].list = ListAfter(c, e) /\ AnswerAfter(c, e)
          /\ pending' \subseteq pending
      BY <2>1, <2>2, FinishAfter
    <2> QED
      BY <2>1, <2>3 DEF Takes, Noted, Revised
  <1>10. CASE OnCaptureAuthorized(e)
    <2>1. /\ e.ev = "capture_authorized" /\ Finish(e.id, DoneReply(0))
          /\ UNCHANGED <<cache, removed, clientRevision, finishing>>
      BY <1>10 DEF OnCaptureAuthorized
    <2>2. DoneReply(0).rev = 0
      BY DEF DoneReply, NoReply
    <2>3. /\ \A c \in Callers : /\ call'[c].kind = call[c].kind /\ call'[c].id = call[c].id
                                /\ call'[c].list = ListAfter(c, e) /\ AnswerAfter(c, e)
          /\ pending' \subseteq pending
      BY <2>1, <2>2, FinishAfter
    <2> QED
      BY <2>1, <2>3 DEF Takes, Noted, Revised
  <1>11. CASE OnResizeConfigured(e) \/ OnFrame(e)
    <2>1. /\ e.ev \in {"resize_configured", "frame"}
          /\ UNCHANGED <<cache, removed, clientRevision, finishing, pending, call>>
      BY <1>11 DEF OnResizeConfigured, OnFrame
    <2> QED
      BY <2>1, SameAfter DEF Takes, Noted, Revised
  <1> QED
    BY <1>4, <1>5, <1>6, <1>7, <1>8, <1>9, <1>10, <1>11 DEF Dispatch

Dispatches(e) ==
    /\ toClient # << >> /\ e = Head(toClient) /\ toClient' = Tail(toClient)
    /\ UNCHANGED shellVars /\ view' = view /\ ~HandlerRunning
    /\ Takes(e)

LEMMA DispatchAt ==
    ASSUME TypeOK, TypeOK', IInv, VInv, NEW e, Dispatches(e)
    PROVE  /\ e \in Event /\ e = toClient[1] /\ e \in Range(toClient)
           /\ Len(toClient) \in Nat /\ Len(toClient) >= 1 /\ Len(toClient') = Len(toClient) - 1
           /\ \A i \in 1 .. Len(toClient') :
                 toClient'[i] = toClient[i + 1] /\ i + 1 \in 1 .. Len(toClient)
           /\ Range(toClient') \subseteq Range(toClient)
           /\ controller /\ controller' = controller
           /\ revision' = revision /\ activated' = activated /\ nextIndex' = nextIndex
           /\ Live' = Live /\ HandlesDistinct'
           /\ clientRevision <= clientRevision' /\ clientRevision' \in Nat
           /\ Revised(e) => RevOf(e) = clientRevision'
  <1> USE DEF Dispatches
  <1>1. toClient \in Seq(Event)
    BY DEF TypeOK, WireTypeOK
  <1>2. /\ Len(toClient) \in Nat /\ Len(toClient) >= 1 /\ Len(toClient') = Len(toClient) - 1
        /\ e \in Range(toClient) /\ e = toClient[1]
        /\ Range(toClient') \subseteq Range(toClient)
        /\ \A i \in 1 .. Len(toClient') :
              toClient'[i] = toClient[i + 1] /\ i + 1 \in 1 .. Len(toClient)
    BY <1>1, TailAt
  <1>3. 1 \in 1 .. Len(toClient)
    BY <1>2
  <1>4. e \in Event
    BY <1>1, <1>2, <1>3, InRange
  <1>5. /\ controller' = controller /\ revision' = revision /\ activated' = activated
        /\ nextIndex' = nextIndex /\ toplevels' = toplevels
    BY DEF shellVars, windowVars
  <1>6. Live' = Live /\ HandlesDistinct'
    BY <1>5 DEF Live, VInv, HandlesDistinct
  <1>7. controller
    BY DEF IInv, SilentWithoutController
  <1>8. clientRevision \in Nat /\ clientRevision' \in Nat
    BY DEF TypeOK, ClientTypeOK
  <1>9. Revised(e) => RevOf(e) = clientRevision' /\ clientRevision <= clientRevision'
    BY <1>2 DEF Takes, VInv, RevisionsRise
  <1>10. ~Revised(e) => clientRevision' = clientRevision
    BY DEF Takes
  <1>11. clientRevision <= clientRevision'
    BY <1>8, <1>9, <1>10
  <1> QED
    BY <1>2, <1>4, <1>5, <1>6, <1>7, <1>8, <1>9, <1>11

\* A window listed after the event was listed before, or is the one announced.
LEMMA NotedFrom ==
    ASSUME NEW windows, NEW e, NEW w \in Noted(windows, e)
    PROVE  \/ /\ w \in windows
              /\ ~ChangeOf(e, w.handle)
              /\ e.ev = "toplevel_removed" => w.handle # e.handle
           \/ e.ev = "toplevel_changed" /\ w = e.window
  BY DEF Noted, Upsert, Drop, ChangeOf

LEMMA ListedFrom ==
    ASSUME NEW c, NEW e, NEW w \in ListAfter(c, e)
    PROVE  w \in call[c].list \/ (e.ev = "toplevel_changed" /\ w = e.window)
  BY NotedFrom DEF ListAfter

LEMMA DispatchRises ==
    ASSUME TypeOK, TypeOK', IInv, VInv, NEW e, Dispatches(e)
    PROVE  RevisionsRise'
  <1>1. /\ Len(toClient) \in Nat /\ Len(toClient') = Len(toClient) - 1
        /\ \A i \in 1 .. Len(toClient') :
              toClient'[i] = toClient[i + 1] /\ i + 1 \in 1 .. Len(toClient)
        /\ e = toClient[1] /\ Range(toClient') \subseteq Range(toClient)
        /\ clientRevision <= clientRevision' /\ clientRevision' \in Nat
        /\ Revised(e) => RevOf(e) = clientRevision'
    BY DispatchAt
  <1>2. RevisionsRise
    BY DEF VInv
  <1>3. ASSUME NEW i \in 1 .. Len(toClient'), NEW j \in 1 .. Len(toClient'), i <= j,
               Revised(toClient'[i]), Revised(toClient'[j])
        PROVE  RevOf(toClient'[i]) <= RevOf(toClient'[j])
    <2>1. i + 1 <= j + 1
      BY <1>1, <1>3
    <2> QED
      BY <1>1, <1>2, <1>3, <2>1 DEF RevisionsRise
  <1>4. ASSUME NEW a \in Range(toClient'), Revised(a) PROVE clientRevision' <= RevOf(a)
    <2>1. PICK i \in 1 .. Len(toClient') : a = toClient'[i]
      BY InRange DEF TypeOK, WireTypeOK
    <2>2. CASE Revised(e)
      <3>1. 1 \in 1 .. Len(toClient) /\ 1 <= i + 1
        BY <1>1
      <3> QED
        BY <1>1, <1>2, <1>4, <2>1, <2>2, <3>1 DEF RevisionsRise
    <2>3. CASE ~Revised(e)
      <3>1. clientRevision' = clientRevision
        BY <2>3 DEF Dispatches, Takes
      <3> QED
        BY <1>1, <1>2, <1>4, <3>1 DEF RevisionsRise
    <2> QED
      BY <2>2, <2>3
  <1>5. ASSUME NEW c \in Callers, NEW w \in call'[c].list PROVE w.rev <= clientRevision'
    <2>1. w \in ListAfter(c, e)
      BY <1>5 DEF Dispatches, Takes
    <2>2. CASE w \in call[c].list
      <3>1. w.rev <= clientRevision
        BY <1>2, <2>2 DEF RevisionsRise
      <3>2. w.rev \in Nat /\ clientRevision \in Nat
        BY <2>2 DEF TypeOK, ClientTypeOK, Call, Toplevel
      <3> QED
        BY <1>1, <3>1, <3>2
    <2>3. CASE e.ev = "toplevel_changed" /\ w = e.window
      BY <1>1, <2>3 DEF Revised, RevOf
    <2> QED
      BY <2>1, <2>2, <2>3, ListedFrom
  <1> QED
    BY <1>3, <1>4, <1>5 DEF RevisionsRise

LEMMA DispatchBuries ==
    ASSUME TypeOK, TypeOK', IInv, VInv, NEW e, Dispatches(e)
    PROVE  GoneStaysGone'
  <1>1. /\ Len(toClient) \in Nat /\ Len(toClient') = Len(toClient) - 1
        /\ 1 \in 1 .. Len(toClient)
        /\ \A i \in 1 .. Len(toClient') :
              toClient'[i] = toClient[i + 1] /\ i + 1 \in 1 .. Len(toClient)
        /\ e = toClient[1] /\ e \in Range(toClient) /\ Range(toClient') \subseteq Range(toClient)
        /\ Live' = Live /\ nextIndex' = nextIndex
    BY DispatchAt
  <1>2. GoneStaysGone
    BY DEF VInv
  <1>3. RemovedStaysRemoved'
    <2>1. ASSUME NEW w \in cache' PROVE w.handle \notin removed'
      <3>1. w \in Noted(cache, e)
        BY <2>1 DEF Dispatches, Takes
      <3>2. CASE /\ w \in cache
                 /\ e.ev = "toplevel_removed" => w.handle # e.handle
        BY <1>2, <3>2 DEF GoneStaysGone, RemovedStaysRemoved, Handles, Dispatches, Takes
      <3>3. CASE e.ev = "toplevel_changed" /\ w = e.window
        <4>1. w.handle \notin removed
          BY <1>1, <1>2, <3>3 DEF GoneStaysGone, ChangeOf
        <4> QED
          BY <3>3, <4>1 DEF Dispatches, Takes
      <3> QED
        BY <3>1, <3>2, <3>3, NotedFrom
    <2> QED
      BY <2>1 DEF RemovedStaysRemoved, Handles
  <1>4. ASSUME NEW h \in removed'
        PROVE  Buried(h) /\ \A a \in Range(toClient') : ~ChangeOf(a, h)
    <2>1. CASE h \in removed
      BY <1>1, <1>2, <2>1 DEF GoneStaysGone
    <2>2. CASE e.ev = "toplevel_removed" /\ h = e.handle
      <3>1. /\ Buried(h)
            /\ \A j \in 1 + 1 .. Len(toClient) : ~ChangeOf(toClient[j], h)
        BY <1>1, <1>2, <2>2 DEF GoneStaysGone
      <3>2. ASSUME NEW a \in Range(toClient') PROVE ~ChangeOf(a, h)
        <4>1. PICK i \in 1 .. Len(toClient') : a = toClient'[i]
          BY InRange DEF TypeOK, WireTypeOK
        <4>2. i + 1 \in 1 + 1 .. Len(toClient)
          BY <1>1
        <4> QED
          BY <1>1, <3>1, <4>1, <4>2
      <3> QED
        BY <3>1, <3>2
    <2> QED
      BY <2>1, <2>2 DEF Dispatches, Takes
  <1>5. ASSUME NEW i \in 1 .. Len(toClient'), toClient'[i].ev = "toplevel_removed",
               NEW h, h = toClient'[i].handle
        PROVE  Buried(h) /\ \A j \in i + 1 .. Len(toClient') : ~ChangeOf(toClient'[j], h)
    <2>1. /\ Buried(h)
          /\ \A j \in (i + 1) + 1 .. Len(toClient) : ~ChangeOf(toClient[j], h)
      BY <1>1, <1>2, <1>5 DEF GoneStaysGone
    <2>2. \A j \in i + 1 .. Len(toClient') :
             j \in 1 .. Len(toClient') /\ j + 1 \in (i + 1) + 1 .. Len(toClient)
      BY <1>1
    <2> QED
      BY <1>1, <2>1, <2>2
  <1> QED
    BY <1>1, <1>3, <1>4, <1>5 DEF GoneStaysGone, Buried

LEMMA TakesOlder ==
    ASSUME TypeOK, TypeOK', IInv, VInv, NEW e, Dispatches(e), NEW n \in Nat, OlderThan(n),
           Revised(e) => RevOf(e) < n
    PROVE  OlderThan(n)'
  <1>1. clientRevision' < n
    BY DEF Dispatches, Takes, OlderThan
  <1>2. finishing'.reply.rev < n
    <2>1. CASE finishing' = finishing
      BY <2>1 DEF OlderThan
    <2>2. CASE /\ e.ev \in {"request_done", "resize_done"}
               /\ finishing'.reply.rev = e.rev
      BY <2>2 DEF Revised, RevOf
    <2> QED
      BY <2>1, <2>2 DEF Dispatches, Takes
  <1>3. ASSUME NEW c \in Callers PROVE call'[c].reply.rev < n
    <2>1. call'[c].reply.rev = 0 \/ call'[c].reply = call[c].reply
      BY DEF Dispatches, Takes, AnswerAfter
    <2>2. call[c].reply.rev < n /\ call[c].reply.rev \in Nat
      BY HeldRevisions DEF OlderThan
    <2> QED
      BY <2>1, <2>2
  <1> QED
    BY <1>1, <1>2, <1>3 DEF OlderThan

\* What the events behind e excuse, they excuse once e is gone.
LEMMA ShowMoves ==
    ASSUME TypeOK, TypeOK', IInv, VInv, NEW e, Dispatches(e),
           NEW w, NEW k \in Nat \ {0}, MayShow(w, k + 1)
    PROVE  MayShow(w, k)'
  <1>1. /\ Len(toClient) \in Nat /\ Len(toClient') = Len(toClient) - 1
        /\ \A i \in 1 .. Len(toClient') :
              toClient'[i] = toClient[i + 1] /\ i + 1 \in 1 .. Len(toClient)
        /\ e = toClient[1] /\ controller /\ activated' = activated
    BY DispatchAt
  <1>2. CASE Flagged(w)
    BY <1>1, <1>2 DEF Flagged, MayShow
  <1>3. ASSUME NEW i \in k + 1 .. Len(toClient), Activates(i, w.handle)
        PROVE  MayShow(w, k)'
    <2>1. PICK l : l = i - 1
      OBVIOUS
    <2>2. l \in k .. Len(toClient') /\ l \in 1 .. Len(toClient') /\ i = l + 1
      BY <1>1, <2>1
    <2>3. PICK a : a = toClient[i]
      OBVIOUS
    <2>4. toClient'[l] = a
      BY <1>1, <2>2, <2>3
    <2>5. a.window.rev \in Nat
      <3>1. a \in Event /\ a.ev = "toplevel_changed"
        BY <1>1, <1>3, <2>2, <2>3, HeldRevisions DEF Activates, ChangeOf
      <3> QED
        BY <3>1, EventOfKind DEF ChangedEvents, Toplevel
    <2>6. PICK n \in Nat : n = a.window.rev
      BY <2>5
    <2>7. /\ ChangeOf(a, w.handle) /\ a.window.activated /\ OlderThan(n)
          /\ \A j \in 1 .. i - 1 : Revised(toClient[j]) => RevOf(toClient[j]) < n
      BY <1>3, <2>3, <2>6 DEF Activates
    <2>8. OlderThan(n)'
      <3>1. 1 \in 1 .. i - 1
        BY <1>1, <2>2
      <3>2. Revised(e) => RevOf(e) < n
        BY <1>1, <2>7, <3>1
      <3> QED
        BY <2>7, <3>2, TakesOlder
    <2>9. ASSUME NEW j \in 1 .. l - 1, Revised(toClient'[j]) PROVE RevOf(toClient'[j]) < n
      <3>1. j \in 1 .. Len(toClient') /\ j + 1 \in 1 .. i - 1
        BY <1>1, <2>2
      <3> QED
        BY <1>1, <2>7, <2>9, <3>1
    <2>10. Activates(l, w.handle)'
      BY <2>4, <2>6, <2>7, <2>8, <2>9 DEF Activates, OlderThan
    <2> QED
      BY <2>2, <2>10 DEF MayShow
  <1> QED
    BY <1>1, <1>2, <1>3 DEF MayShow, Severed

\* Only the event itself may announce what the events behind it do not.
LEMMA ShowFirst ==
    ASSUME TypeOK, NEW w, MayShow(w, 1), ~ChangeOf(toClient[1], w.handle)
    PROVE  MayShow(w, 1 + 1)
  <1>1. CASE Flagged(w) \/ Severed
    BY <1>1 DEF MayShow
  <1>2. ASSUME NEW i \in 1 .. Len(toClient), Activates(i, w.handle)
        PROVE  MayShow(w, 1 + 1)
    <2>1. i # 1
      BY <1>2 DEF Activates
    <2>2. i \in 1 + 1 .. Len(toClient)
      BY <2>1 DEF TypeOK, WireTypeOK
    <2> QED
      BY <1>2, <2>2 DEF MayShow
  <1> QED
    BY <1>1, <1>2 DEF MayShow

LEMMA DispatchActivates ==
    ASSUME TypeOK, TypeOK', IInv, VInv, NEW e, Dispatches(e)
    PROVE  ActiveShown'
  <1>1. /\ Len(toClient) \in Nat /\ Len(toClient') = Len(toClient) - 1
        /\ 1 \in 1 .. Len(toClient)
        /\ \A i \in 1 .. Len(toClient') :
              toClient'[i] = toClient[i + 1] /\ i + 1 \in 1 .. Len(toClient)
        /\ e = toClient[1]
        /\ revision' = revision /\ activated' = activated
    BY DispatchAt
  <1>2. ActiveShown
    BY DEF VInv
  <1>3. e.ev = "toplevel_changed" => MayShow(e.window, 1)' /\ e.window \in cache'
    <2>1. ASSUME e.ev = "toplevel_changed" PROVE MayShow(e.window, 1)'
      <3>1. MayShow(e.window, 1 + 1)
        BY <1>1, <1>2, <2>1 DEF ActiveShown
      <3> QED
        BY <3>1, ShowMoves
    <2>2. e.ev = "toplevel_changed" => e.window \in cache'
      BY DEF Dispatches, Takes, Noted, Upsert
    <2> QED
      BY <2>1, <2>2
  <1>4. ASSUME NEW w \in cache' PROVE MayShow(w, 1)'
    <2>1. w \in Noted(cache, e)
      BY <1>4 DEF Dispatches, Takes
    <2>2. CASE w \in cache /\ ~ChangeOf(e, w.handle)
      <3>1. MayShow(w, 1)
        BY <1>2, <2>2 DEF ActiveShown
      <3>2. MayShow(w, 1 + 1)
        BY <1>1, <2>2, <3>1, ShowFirst
      <3> QED
        BY <3>2, ShowMoves
    <2> QED
      BY <1>3, <2>1, <2>2, NotedFrom
  <1>5. ASSUME NEW c \in Callers, NEW w \in call'[c].list
        PROVE  w.handle \in removed' \/ Superseded(w)' \/ MayShow(w, 1)'
    <2>1. w \in call[c].list \/ (e.ev = "toplevel_changed" /\ w = e.window)
      <3>1. w \in ListAfter(c, e)
        BY <1>5 DEF Dispatches, Takes
      <3> QED
        BY <3>1, ListedFrom
    <2>2. CASE e.ev = "toplevel_changed" /\ w = e.window
      BY <1>3, <2>2
    <2>3. ASSUME ChangeOf(e, w.handle) PROVE Superseded(w)'
      <3>1. e.window \in cache' /\ e.window.handle = w.handle
        BY <1>3, <2>3 DEF ChangeOf
      <3>2. e.window.rev = clientRevision'
        BY <2>3, DispatchAt DEF ChangeOf, Revised, RevOf
      <3>3. w.rev <= clientRevision'
        BY <1>5, DispatchRises DEF RevisionsRise
      <3>4. w.rev \in Nat /\ clientRevision' \in Nat
        BY <1>5 DEF TypeOK, ClientTypeOK, Call, Toplevel
      <3> QED
        BY <3>1, <3>2, <3>3, <3>4 DEF Superseded
    <2>4. CASE w \in call[c].list /\ ~ChangeOf(e, w.handle)
      <3>1. CASE w.handle \in removed
        BY <3>1 DEF Dispatches, Takes
      <3>2. ASSUME NEW k \in cache, k.handle = w.handle, k.rev >= w.rev
            PROVE  w.handle \in removed' \/ Superseded(w)'
        <4>1. CASE e.ev = "toplevel_removed" /\ e.handle = k.handle
          BY <3>2, <4>1 DEF Dispatches, Takes
        <4>2. CASE ~(e.ev = "toplevel_removed" /\ e.handle = k.handle)
          <5>1. k \in cache'
            BY <2>4, <3>2, <4>2 DEF Dispatches, Takes, Noted, Upsert, Drop, ChangeOf
          <5> QED
            BY <3>2, <5>1 DEF Superseded
        <4> QED
          BY <4>1, <4>2
      <3>3. CASE MayShow(w, 1)
        <4>1. MayShow(w, 1 + 1)
          BY <1>1, <2>4, <3>3, ShowFirst
        <4> QED
          BY <4>1, ShowMoves
      <3> QED
        BY <1>2, <2>4, <3>1, <3>2, <3>3 DEF ActiveShown, Superseded
    <2> QED
      BY <2>1, <2>2, <2>3, <2>4, <1>3
  <1>6. ASSUME NEW i \in 1 .. Len(toClient'), NEW a, a = toClient'[i], a.ev = "toplevel_changed"
        PROVE  MayShow(a.window, i + 1)'
    <2>1. MayShow(a.window, (i + 1) + 1)
      BY <1>1, <1>2, <1>6 DEF ActiveShown
    <2>2. i + 1 \in Nat \ {0}
      BY <1>1
    <2> QED
      BY <2>1, <2>2, ShowMoves
  <1>7. CurrentViewShowsActive'
    BY <1>1, <1>2 DEF Dispatches, ActiveShown, CurrentViewShowsActive
  <1> QED
    BY <1>1, <1>4, <1>5, <1>6, <1>7 DEF ActiveShown, MayShow, Flagged, Severed, Behind,
                                        Activates, OlderThan

\* What a snapshot has when the j-th event is dispatched, it has when that
\* event has become the one before.
LEMMA CollectMoves ==
    ASSUME TypeOK, TypeOK', IInv, VInv, NEW e, Dispatches(e),
           NEW c \in Callers, c \in pending, Snapshotting(c), NEW h \in Live,
           NEW j \in 1 .. Len(toClient'), Collected(c, h, j + 1)
    PROVE  Collected(c, h, j)'
  <1>1. /\ Len(toClient) \in Nat /\ Len(toClient') = Len(toClient) - 1
        /\ 1 \in 1 .. Len(toClient)
        /\ \A i \in 1 .. Len(toClient') :
              toClient'[i] = toClient[i + 1] /\ i + 1 \in 1 .. Len(toClient)
        /\ e = toClient[1]
    BY DispatchAt
  <1>2. call'[c].list = IF e.ev = "snapshot" THEN {} ELSE Noted(call[c].list, e)
    BY DEF Dispatches, Takes, ListAfter
  <1>3. CASE /\ h \in Handles(call[c].list)
             /\ \A k \in 1 .. (j + 1) - 1 : toClient[k].ev # "snapshot"
    <2>1. e.ev # "snapshot"
      BY <1>1, <1>3
    <2>2. e.ev = "toplevel_removed" => e.handle # h
      BY <1>1 DEF VInv, GoneStaysGone, Buried
    <2>3. h \in Handles(call'[c].list)
      <3>1. PICK w \in call[c].list : w.handle = h
        BY <1>3 DEF Handles
      <3>2. w \in Noted(call[c].list, e)
               \/ (e.ev = "toplevel_changed" /\ e.window.handle = h
                     /\ e.window \in Noted(call[c].list, e))
        BY <2>2, <3>1 DEF Noted, Upsert, Drop
      <3> QED
        BY <1>2, <2>1, <3>1, <3>2 DEF Handles
    <2>4. ASSUME NEW k \in 1 .. j - 1 PROVE toClient'[k].ev # "snapshot"
      <3>1. k \in 1 .. Len(toClient') /\ k + 1 \in 1 .. (j + 1) - 1
        BY <1>1
      <3> QED
        BY <1>1, <1>3, <3>1
    <2> QED
      BY <2>3, <2>4 DEF Collected
  <1>4. ASSUME NEW i \in 1 .. (j + 1) - 1, ChangeOf(toClient[i], h),
               \A k \in i + 1 .. (j + 1) - 1 : toClient[k].ev # "snapshot"
        PROVE  Collected(c, h, j)'
    <2>1. ASSUME NEW k \in i .. j - 1, k >= 1 PROVE toClient'[k].ev # "snapshot"
      <3>1. k \in 1 .. Len(toClient') /\ k + 1 \in i + 1 .. (j + 1) - 1
        BY <1>1, <2>1
      <3> QED
        BY <1>1, <1>4, <3>1
    <2>2. CASE i = 1
      <3>1. e.ev = "toplevel_changed" /\ e.window.handle = h
        BY <1>1, <1>4, <2>2 DEF ChangeOf
      <3>2. h \in Handles(call'[c].list)
        BY <1>2, <3>1 DEF Noted, Upsert, Handles
      <3>3. \A k \in 1 .. j - 1 : toClient'[k].ev # "snapshot"
        BY <2>1, <2>2
      <3> QED
        BY <3>2, <3>3 DEF Collected
    <2>3. CASE i # 1
      <3>1. PICK l : l = i - 1
        OBVIOUS
      <3>2. l \in 1 .. j - 1 /\ l \in 1 .. Len(toClient') /\ i = l + 1
        BY <1>1, <2>3, <3>1
      <3>3. ChangeOf(toClient'[l], h)
        BY <1>1, <1>4, <3>2
      <3>4. \A k \in l + 1 .. j - 1 : k \in i .. j - 1 /\ k >= 1
        BY <3>2
      <3> QED
        BY <2>1, <3>2, <3>3, <3>4 DEF Collected
    <2> QED
      BY <2>2, <2>3
  <1> QED
    BY <1>3, <1>4 DEF Collected

LEMMA DispatchCollects ==
    ASSUME TypeOK, TypeOK', IInv, AInv, VInv, NEW e, Dispatches(e)
    PROVE  SnapshotsCollect'
  <1>1. /\ Len(toClient) \in Nat /\ Len(toClient') = Len(toClient) - 1
        /\ 1 \in 1 .. Len(toClient) /\ e \in Range(toClient)
        /\ \A i \in 1 .. Len(toClient') :
              toClient'[i] = toClient[i + 1] /\ i + 1 \in 1 .. Len(toClient)
        /\ e = toClient[1] /\ Live' = Live /\ revision' = revision
    BY DispatchAt
  <1>2. /\ SnapshotsCollect /\ pending' \subseteq pending /\ pending \subseteq Callers
        /\ \A c \in Callers : /\ call'[c].kind = call[c].kind /\ call'[c].id = call[c].id
                              /\ call'[c].list = ListAfter(c, e) /\ AnswerAfter(c, e)
    BY DEF VInv, Dispatches, Takes, TypeOK, ClientTypeOK
  <1>3. \A c \in pending : /\ InFlight(c) /\ call[c].reply = NoReply
                           /\ HasId(e) /\ e.id = call[c].id
                                 => EventFits(call[c], view[c].windows, e)
    <2> TAKE c \in pending
    <2>1. c \in Callers /\ call[c].pc \in {"registered", "waiting"} /\ call[c].reply = NoReply
      BY <1>2 DEF IInv, PendingIsUnanswered
    <2> QED
      BY <1>1, <2>1 DEF AInv, Fits, EventsFit, InFlight
  <1>4. ASSUME NEW c \in pending', call[c].kind = "snapshot", NEW j \in 1 .. Len(toClient'),
               NEW a, a = toClient'[j], a.ev = "request_done", a.id = call[c].id,
               a.rev = revision, NEW h \in Live
        PROVE  Collected(c, h, j)'
    <2>1. c \in pending /\ c \in Callers /\ Snapshotting(c)
      BY <1>2, <1>4 DEF Snapshotting
    <2>2. a = toClient[j + 1] /\ j + 1 \in 1 .. Len(toClient)
      BY <1>1, <1>4
    <2>3. Collected(c, h, j + 1)
      BY <1>2, <1>4, <2>1, <2>2 DEF SnapshotsCollect, SnapshotAnswer
    <2> QED
      BY <2>1, <2>3, CollectMoves
  <1>5. ASSUME NEW c \in pending', call[c].kind = "snapshot", HandlerRunning',
               finishing'.id = call[c].id, finishing'.reply.rev = revision
        PROVE  Live \subseteq Handles(call'[c].list)
    <2>1. c \in pending /\ c \in Callers /\ Snapshotting(c)
      BY <1>2, <1>5 DEF Snapshotting
    <2>2. e.ev \in {"request_done", "resize_done"} /\ e.id = call[c].id /\ e.rev = revision
      <3>1. finishing' # finishing
        BY <1>5 DEF Dispatches, HandlerRunning
      <3> QED
        BY <1>5, <3>1 DEF Dispatches, Takes
    <2>3. e.ev = "request_done"
      <3>1. e.ev # "resize_done"
        BY <1>3, <1>5, <2>1, <2>2 DEF HasId, EventFits
      <3> QED
        BY <2>2, <3>1
    <2>4. \A h \in Live : Collected(c, h, 1)
      BY <1>1, <1>2, <2>1, <2>2, <2>3 DEF SnapshotsCollect, SnapshotAnswer
    <2>5. Live \subseteq Handles(call[c].list)
      BY <2>4 DEF Collected
    <2>6. call'[c].list = call[c].list
      BY <1>2, <2>1, <2>3 DEF ListAfter, Noted
    <2> QED
      BY <2>5, <2>6
  <1>6. ASSUME NEW c \in Callers, call[c].kind = "snapshot", call'[c].reply.status = "done",
               call'[c].reply.rev = revision
        PROVE  Live \subseteq Handles(call'[c].list)
    <2>1. c \notin pending /\ call'[c].reply = call[c].reply
      <3>1. CASE call'[c].reply = call[c].reply
        BY <1>3, <1>6, <3>1 DEF NoReply
      <3>2. CASE /\ c \in pending /\ call[c].id = e.id
                 /\ call'[c].reply.status = "failed" \/ e.ev = "capture_authorized"
        <4>1. e.ev = "capture_authorized"
          BY <1>6, <3>2
        <4>2. call[c].kind = "capture"
          BY <1>3, <3>2, <4>1 DEF HasId, EventFits
        <4> QED
          BY <1>6, <4>2
      <3> QED
        BY <1>2, <3>1, <3>2 DEF AnswerAfter
    <2>2. call'[c].list = call[c].list
      BY <1>2, <2>1 DEF ListAfter
    <2>3. Live \subseteq Handles(call[c].list)
      BY <1>2, <1>6, <2>1 DEF SnapshotsCollect, Snapshotting
    <2> QED
      BY <2>2, <2>3
  <1>7. CurrentSnapshotIsComplete'
    BY <1>1, <1>2 DEF Dispatches, SnapshotsCollect, CurrentSnapshotIsComplete
  <1>8. \A c \in pending', j \in 1 .. Len(toClient') :
           Snapshotting(c)' /\ SnapshotAnswer(toClient[j], c)'
              => \A h \in Live' : Collected(c, h, j)'
    BY <1>1, <1>2, <1>4 DEF SnapshotAnswer, Snapshotting
  <1>9. \A c \in pending' : Snapshotting(c)' => call[c].kind = "snapshot" /\ call'[c].id = call[c].id
    BY <1>2 DEF Snapshotting
  <1>10. \A c \in Callers : Snapshotting(c)' => call[c].kind = "snapshot"
    BY <1>2 DEF Snapshotting
  <1> QED
    BY <1>1, <1>5, <1>6, <1>7, <1>8, <1>9, <1>10 DEF SnapshotsCollect

LEMMA DispatchStates ==
    ASSUME TypeOK, TypeOK', IInv, AInv, VInv, Dispatch, UNCHANGED shellVars
    PROVE  VInv'
  <1>1. PICK e : e = Head(toClient)
    OBVIOUS
  <1>2. Takes(e)
    BY <1>1, DispatchTakes
  <1>3. Dispatches(e)
    BY <1>1, <1>2 DEF Dispatches, Dispatch
  <1> QED
    BY <1>3, DispatchAt, DispatchRises, DispatchBuries, DispatchActivates, DispatchCollects
       DEF VInv

-----------------------------------------------------------------------------
(***************************************************************************)
(* An answered call returns.                                               *)
(***************************************************************************)
\* The cache takes what is not gone and newer, loses no window, and misses none.
Merged(cached, gone, snapshot, result) ==
    /\ \A w \in result :
          \/ w \in cached
          \/ /\ w \in snapshot /\ w.handle \notin gone
             /\ ~\E k \in cached : k.handle = w.handle /\ k.rev >= w.rev
    /\ \A k \in cached : \E w \in result : w.handle = k.handle /\ w.rev >= k.rev
    /\ \A w \in snapshot : w.handle \in gone \/ w.handle \in Handles(result)

LEMMA Merges ==
    ASSUME NEW cached, cached \subseteq Toplevel, NEW gone,
           NEW snapshot, snapshot \subseteq Toplevel,
           NEW result, result = MergeSnapshot(cached, gone, snapshot)
    PROVE  Merged(cached, gone, snapshot, result)
  <1> DEFINE merged == {w \in snapshot :
                          /\ w.handle \notin gone
                          /\ \A k \in cached : k.handle = w.handle => k.rev < w.rev}
  <1>1. result = {k \in cached : k.handle \notin Handles(merged)} \cup merged
    BY DEF MergeSnapshot
  <1>2. \A w \in cached \cup snapshot : w.rev \in Nat
    BY DEF Toplevel
  <1>3. \A w \in merged : /\ w \in snapshot /\ w.handle \notin gone
                          /\ \A k \in cached : k.handle = w.handle => k.rev < w.rev
    OBVIOUS
  <1>4. \A w \in snapshot : \/ w \in merged \/ w.handle \in gone
                            \/ \E k \in cached : k.handle = w.handle
    OBVIOUS
  <1> HIDE DEF merged
  <1>5. ASSUME NEW w \in result, w \notin cached
        PROVE  /\ w \in snapshot /\ w.handle \notin gone
               /\ ~\E k \in cached : k.handle = w.handle /\ k.rev >= w.rev
    <2>1. w \in merged
      BY <1>1, <1>5
    <2>2. ASSUME NEW k \in cached, k.handle = w.handle PROVE ~(k.rev >= w.rev)
      BY <1>2, <1>3, <2>1, <2>2
    <2> QED
      BY <1>3, <2>1, <2>2
  <1>6. ASSUME NEW k \in cached PROVE \E w \in result : w.handle = k.handle /\ w.rev >= k.rev
    <2>1. CASE k.handle \notin Handles(merged)
      BY <1>1, <1>2, <2>1
    <2>2. CASE k.handle \in Handles(merged)
      <3>1. PICK w \in merged : w.handle = k.handle
        BY <2>2 DEF Handles
      <3>2. k.rev < w.rev /\ w \in result /\ w \in snapshot
        BY <1>1, <1>3, <3>1
      <3>3. w.rev >= k.rev
        BY <1>2, <3>2
      <3> QED
        BY <3>1, <3>2, <3>3
    <2> QED
      BY <2>1, <2>2
  <1>7. ASSUME NEW w \in snapshot, w.handle \notin gone PROVE w.handle \in Handles(result)
    <2>1. CASE w \in merged
      BY <1>1, <2>1 DEF Handles
    <2>2. CASE \E k \in cached : k.handle = w.handle
      BY <1>6, <2>2 DEF Handles
    <2> QED
      BY <1>4, <1>7, <2>1, <2>2
  <1> QED
    BY <1>5, <1>6, <1>7 DEF Merged

\* What the return of c does to the cache and to the States.
Returns(c) ==
    /\ UNCHANGED <<toClient, pending, removed, clientRevision, finishing>>
    /\ UNCHANGED shellVars
    /\ c \notin pending /\ call[c].pc # "idle"
    /\ call'[c] = NoCall
    /\ \A d \in Callers : d # c => call'[d] = call[d] /\ view'[d] = view[d]
    /\ \A w \in cache' :
          \/ w \in cache
          \/ w \in call[c].list /\ w.handle \notin removed /\ ~Superseded(w)
    /\ \A k \in cache : \E w \in cache' : w.handle = k.handle /\ w.rev >= k.rev
    /\ \/ view'[c] = view[c]
       \/ /\ view'[c].windows = cache' /\ ~view'[c].full
          /\ view'[c].rev = clientRevision
       \/ /\ view'[c].windows = cache' /\ view'[c].full /\ Snapshotting(c)
          /\ call[c].reply.status = "done" /\ view'[c].rev = call[c].reply.rev
          /\ \A w \in call[c].list : w.handle \in removed \/ w.handle \in Handles(cache')

LEMMA ReceiveReturns ==
    ASSUME TypeOK, IInv, NEW c \in Callers, Receive(c), UNCHANGED shellVars
    PROVE  Returns(c)
  <1>1. /\ cache \in SUBSET Toplevel /\ call[c].list \in SUBSET Toplevel
        /\ \A w \in cache : w.rev \in Nat /\ w.rev >= w.rev
        /\ call \in [Callers -> Call] /\ view \in [Callers -> View]
    BY DEF TypeOK, ClientTypeOK, Call, Toplevel
  <1>2. /\ UNCHANGED <<toClient, pending, removed, clientRevision, finishing>>
        /\ call' = [call EXCEPT ![c] = NoCall] /\ call[c].pc # "idle" /\ call[c].reply # NoReply
    BY DEF Receive, Waiting, wireVars
  <1>3. c \notin pending
    BY <1>2 DEF IInv, PendingIsUnanswered
  <1>4. call'[c] = NoCall /\ \A d \in Callers : d # c => call'[d] = call[d]
    BY <1>1, <1>2
  <1>5. CASE call[c].reply.status = "done" /\ call[c].kind = "snapshot"
    <2>1. /\ cache' = MergeSnapshot(cache, removed, call[c].list)
          /\ view' = [view EXCEPT ![c] = [rev |-> call[c].reply.rev, windows |-> cache',
                                          full |-> TRUE]]
      BY <1>5 DEF Receive
    <2>2. /\ \A w \in cache' :
                \/ w \in cache
                \/ /\ w \in call[c].list /\ w.handle \notin removed
                   /\ ~\E k \in cache : k.handle = w.handle /\ k.rev >= w.rev
          /\ \A k \in cache : \E w \in cache' : w.handle = k.handle /\ w.rev >= k.rev
          /\ \A w \in call[c].list : w.handle \in removed \/ w.handle \in Handles(cache')
      <3>1. PICK result : result = cache'
        OBVIOUS
      <3>2. PICK list : list = call[c].list
        OBVIOUS
      <3>3. /\ cache \subseteq Toplevel /\ list \subseteq Toplevel
            /\ result = MergeSnapshot(cache, removed, list)
        BY <1>1, <2>1, <3>1, <3>2
      <3>4. Merged(cache, removed, list, result)
        BY <3>3, Merges
      <3> QED
        BY <3>1, <3>2, <3>4 DEF Merged
    <2>3. /\ view'[c].windows = cache' /\ view'[c].full /\ view'[c].rev = call[c].reply.rev
          /\ \A d \in Callers : d # c => view'[d] = view[d]
      BY <1>1, <2>1
    <2> QED
      BY <1>2, <1>3, <1>4, <1>5, <2>2, <2>3 DEF Returns, Superseded, Snapshotting
  <1>6. CASE ~(call[c].reply.status = "done" /\ call[c].kind = "snapshot")
    <2>1. cache' = cache
      BY <1>6 DEF Receive
    <2>2. \/ view' = view
          \/ view' = [view EXCEPT ![c] = [rev |-> clientRevision, windows |-> cache,
                                          full |-> FALSE]]
      BY <1>6 DEF Receive
    <2>3. CASE view' = view
      BY <1>1, <1>2, <1>3, <1>4, <2>1, <2>3 DEF Returns
    <2>4. CASE view' = [view EXCEPT ![c] = [rev |-> clientRevision, windows |-> cache,
                                            full |-> FALSE]]
      <3>1. /\ view'[c].windows = cache' /\ ~view'[c].full /\ view'[c].rev = clientRevision
            /\ \A d \in Callers : d # c => view'[d] = view[d]
        BY <1>1, <2>1, <2>4
      <3> QED
        BY <1>1, <1>2, <1>3, <1>4, <2>1, <3>1 DEF Returns
    <2> QED
      BY <2>2, <2>3, <2>4
  <1> QED
    BY <1>5, <1>6

LEMMA ReturnShows ==
    ASSUME TypeOK, IInv, NEW c \in Callers, Returns(c), NEW w, NEW k \in Nat \ {0}, MayShow(w, k)
    PROVE  MayShow(w, k)'
  <1>1. /\ toClient' = toClient /\ activated' = activated /\ revision' = revision
        /\ controller' = controller /\ clientRevision' = clientRevision
        /\ finishing' = finishing
        /\ \A d \in Callers : call'[d].reply.rev = 0 \/ call'[d] = call[d]
    BY DEF Returns, shellVars, windowVars, NoCall, NoReply
  <1>2. ASSUME NEW n \in Nat, OlderThan(n) PROVE \A d \in Callers : call'[d].reply.rev < n
    <2>1. 0 < n
      BY <1>2, HeldRevisions DEF OlderThan
    <2> QED
      BY <1>1, <1>2, <2>1 DEF OlderThan
  <1>3. Severed => Severed'
    <2>1. Behind <=> OlderThan(revision)
      BY DEF Behind, OlderThan
    <2>2. Behind => Behind'
      BY <1>1, <1>2, <2>1, HeldRevisions DEF Behind
    <2> QED
      BY <1>1, <2>2 DEF Severed
  <1>4. ASSUME NEW i \in k .. Len(toClient), Activates(i, w.handle) PROVE Activates(i, w.handle)'
    <2>1. i \in 1 .. Len(toClient)
      BY DEF TypeOK, WireTypeOK
    <2>2. toClient[i].window.rev \in Nat
      <3>1. toClient[i] \in Event /\ toClient[i].ev = "toplevel_changed"
        BY <1>4, <2>1, HeldRevisions DEF Activates, ChangeOf
      <3> QED
        BY <3>1, EventOfKind DEF ChangedEvents, Toplevel
    <2>3. PICK n \in Nat : n = toClient[i].window.rev
      BY <2>2
    <2>4. \A d \in Callers : call'[d].reply.rev < n
      BY <1>2, <1>4, <2>3 DEF Activates
    <2> QED
      BY <1>1, <1>4, <2>3, <2>4 DEF Activates, OlderThan
  <1> QED
    BY <1>1, <1>3, <1>4 DEF MayShow, Flagged

\* A State as new as the module shows what is activated.
LEMMA NewestShows ==
    ASSUME TypeOK, IInv, NEW c \in Callers, NEW w, MayShow(w, 1),
           clientRevision = revision \/ call[c].reply.rev = revision
    PROVE  Flagged(w)
  <1>1. ~Behind
    BY HeldRevisions DEF Behind
  <1>2. ASSUME NEW i \in 1 .. Len(toClient), Activates(i, w.handle) PROVE FALSE
    <2>1. PICK e : e = toClient[i]
      OBVIOUS
    <2>2. e.ev = "toplevel_changed" /\ e.window.activated /\ OlderThan(e.window.rev)
      BY <1>2, <2>1 DEF Activates, ChangeOf
    <2>3. e.window.rev \in Nat /\ e.window.rev <= revision
      BY <2>1, <2>2, HeldRevisions DEF Revised, RevOf
    <2> QED
      BY <2>2, <2>3, HeldRevisions DEF OlderThan
  <1> QED
    BY <1>1, <1>2 DEF MayShow, Severed

LEMMA ReturnActivates ==
    ASSUME TypeOK, TypeOK', IInv, VInv, NEW c \in Callers, Returns(c)
    PROVE  ActiveShown'
  <1>1. /\ toClient' = toClient /\ activated' = activated /\ revision' = revision
        /\ removed' = removed /\ Len(toClient) \in Nat
    BY DEF Returns, shellVars, windowVars, TypeOK, WireTypeOK
  <1>2. ActiveShown
    BY DEF VInv
  <1>3. \A w \in cache' : MayShow(w, 1)
    BY <1>2 DEF Returns, ActiveShown
  <1>4. \A w \in cache' : MayShow(w, 1)'
    BY <1>3, ReturnShows
  <1>5. ASSUME NEW d \in Callers, NEW w \in call'[d].list
        PROVE  w.handle \in removed' \/ Superseded(w)' \/ MayShow(w, 1)'
    <2>1. d # c /\ w \in call[d].list
      BY <1>5 DEF Returns, NoCall
    <2>2. ASSUME NEW k \in cache, k.handle = w.handle, k.rev >= w.rev PROVE Superseded(w)'
      <3>1. PICK l \in cache' : l.handle = w.handle /\ l.rev >= k.rev
        BY <2>2 DEF Returns
      <3>2. l.rev \in Nat /\ k.rev \in Nat /\ w.rev \in Nat
        <4>1. call[d] \in Call /\ k \in Toplevel /\ l \in Toplevel
          BY <2>2, <3>1 DEF TypeOK, ClientTypeOK
        <4>2. w \in Toplevel
          BY <2>1, <4>1 DEF Call
        <4> QED
          BY <4>1, <4>2 DEF Toplevel
      <3>3. l.rev >= w.rev
        BY <2>2, <3>1, <3>2
      <3> QED
        BY <3>1, <3>3 DEF Superseded
    <2> QED
      BY <1>1, <1>2, <2>1, <2>2, ReturnShows DEF ActiveShown, Superseded
  <1>6. ASSUME NEW i \in 1 .. Len(toClient), NEW e, e = toClient[i], e.ev = "toplevel_changed"
        PROVE  MayShow(e.window, i + 1)'
    <2>1. MayShow(e.window, i + 1) /\ i + 1 \in Nat \ {0}
      BY <1>2, <1>6 DEF ActiveShown
    <2> QED
      BY <2>1, ReturnShows
  <1>7. ASSUME NEW d \in Callers, view'[d].rev = revision, NEW w \in view'[d].windows,
               w.handle \in activated
        PROVE  w.activated
    <2>1. CASE view'[d] = view[d]
      BY <1>2, <1>7, <2>1 DEF ActiveShown, CurrentViewShowsActive
    <2>2. CASE view'[d] # view[d]
      <3>1. /\ d = c /\ w \in cache'
            /\ clientRevision = revision \/ call[c].reply.rev = revision
        BY <1>7, <2>2 DEF Returns
      <3> QED
        BY <1>3, <1>7, <3>1, NewestShows DEF Flagged
    <2> QED
      BY <2>1, <2>2
  <1>8. CurrentViewShowsActive'
    BY <1>1, <1>7 DEF CurrentViewShowsActive
  <1> QED
    BY <1>1, <1>4, <1>5, <1>6, <1>8 DEF ActiveShown, MayShow, Flagged, Severed, Behind,
                                        Activates, OlderThan

LEMMA ReceiveStates ==
    ASSUME TypeOK, TypeOK', IInv, VInv, NEW c \in Callers, Receive(c), UNCHANGED shellVars
    PROVE  VInv'
  <1>1. Returns(c)
    BY ReceiveReturns
  <1>2. /\ UNCHANGED <<toClient, pending, removed, clientRevision, finishing>>
        /\ UNCHANGED <<toplevels, activated, nextIndex, revision, controller>>
        /\ Live' = Live /\ pending \subseteq Callers
        /\ NoCall.list = {} /\ NoCall.kind = "none"
    BY <1>1 DEF Returns, shellVars, windowVars, Live, TypeOK, ClientTypeOK, NoCall
  <1>3. HandlesDistinct'
    BY <1>2 DEF VInv, HandlesDistinct
  <1>4. \A d \in Callers : call'[d] = call[d] \/ (d = c /\ call'[d] = NoCall)
    BY <1>1 DEF Returns
  <1>5. RevisionsRise'
    BY <1>2, <1>4 DEF VInv, RevisionsRise
  <1>6. GoneStaysGone'
    <2>1. Handles(cache') \cap removed = {}
      BY <1>1 DEF Returns, VInv, GoneStaysGone, RemovedStaysRemoved, Handles
    <2> QED
      BY <1>2, <2>1 DEF VInv, GoneStaysGone, RemovedStaysRemoved, Buried
  <1>7. SnapshotsCollect'
    <2>1. \A d \in pending : call'[d] = call[d]
      BY <1>1, <1>2 DEF Returns
    <2>2. \A d \in pending' : Snapshotting(d)' =>
             /\ \A j \in 1 .. Len(toClient') : SnapshotAnswer(toClient[j], d)'
                   => \A h \in Live' : Collected(d, h, j)'
             /\ (HandlerRunning' /\ finishing'.id = call'[d].id /\ finishing'.reply.rev = revision')
                   => Live' \subseteq Handles(call'[d].list)
      BY <1>2, <2>1 DEF VInv, SnapshotsCollect, Snapshotting, SnapshotAnswer, Collected,
                        HandlerRunning
    <2>3. \A d \in Callers :
             Snapshotting(d)' /\ call'[d].reply.status = "done" /\ call'[d].reply.rev = revision'
                => Live' \subseteq Handles(call'[d].list)
      BY <1>2, <1>4 DEF VInv, SnapshotsCollect, Snapshotting
    <2>4. ASSUME NEW d \in Callers, view'[d].full, view'[d].rev = revision, NEW h \in Live
          PROVE  h \in Handles(view'[d].windows)
      <3>1. CASE view'[d] = view[d]
        BY <2>4, <3>1 DEF VInv, SnapshotsCollect, CurrentSnapshotIsComplete
      <3>2. CASE view'[d] # view[d]
        <4>1. /\ d = c /\ view'[c].windows = cache' /\ Snapshotting(c)
              /\ call[c].reply.status = "done" /\ call[c].reply.rev = revision
              /\ \A w \in call[c].list : w.handle \in removed \/ w.handle \in Handles(cache')
          BY <1>1, <2>4, <3>2 DEF Returns
        <4>2. h \in Handles(call[c].list)
          BY <4>1 DEF VInv, SnapshotsCollect
        <4>3. h \notin removed
          BY DEF VInv, GoneStaysGone, Buried
        <4>4. PICK w \in call[c].list : w.handle = h
          BY <4>2 DEF Handles
        <4> QED
          BY <4>1, <4>3, <4>4
      <3> QED
        BY <3>1, <3>2
    <2>5. CurrentSnapshotIsComplete'
      BY <1>2, <2>4 DEF CurrentSnapshotIsComplete
    <2> QED
      BY <2>2, <2>3, <2>5 DEF SnapshotsCollect, HandlerRunning
  <1> QED
    BY <1>1, <1>3, <1>5, <1>6, <1>7, ReturnActivates DEF VInv

-----------------------------------------------------------------------------
(***************************************************************************)
(* The client's other steps.                                               *)
(***************************************************************************)
LEMMA NothingObserved ==
    ASSUME UNCHANGED <<toClient, cacheVars, view>>, UNCHANGED shellVars,
           finishing' = finishing \/ finishing'.reply = NoReply,
           \A c \in Callers : GoesOnWith(c) \/ BeginsAnew(c) \/ IsOver(c)
    PROVE  Observes
  BY DEF Observes, cacheVars, shellVars, windowVars

\* A woken call keeps its list.
LEMMA WokenGoesOn ==
    ASSUME TypeOK, NEW woken, NEW r, call' = Woken(woken, r), pending' \subseteq pending,
           NEW c \in Callers,
           \/ r = LostReply
           \/ /\ c \in woken => c \in pending /\ HandlerRunning /\ finishing.id = call[c].id
              /\ r = finishing.reply
    PROVE  GoesOnWith(c)
  <1>1. call[c] \in Call
    BY DEF TypeOK, ClientTypeOK
  <1>2. call'[c] = IF c \in woken THEN [call[c] EXCEPT !.reply = r] ELSE call[c]
    BY DEF Woken
  <1>3. /\ call'[c].kind = call[c].kind /\ call'[c].id = call[c].id
        /\ call'[c].list = call[c].list
        /\ call'[c].reply = IF c \in woken THEN r ELSE call[c].reply
    BY <1>1, <1>2 DEF Call
  <1> QED
    BY <1>3 DEF GoesOnWith

LEMMA FinishHandlerObserves ==
    ASSUME TypeOK, FinishHandler, UNCHANGED shellVars
    PROVE  Observes
  <1> PICK r : r = finishing.reply
    OBVIOUS
  <1>1. /\ UNCHANGED <<toClient, cacheVars, view>> /\ finishing'.reply = NoReply
        /\ call' = Woken(Owner(finishing.id), r) /\ pending' \subseteq pending
        /\ HandlerRunning
    BY DEF FinishHandler, Finish, wireVars
  <1>2. \A c \in Callers : GoesOnWith(c)
    BY <1>1, WokenGoesOn DEF Owner
  <1> QED
    BY <1>1, <1>2, NothingObserved

LEMMA ConnectionObserves ==
    ASSUME TypeOK, TakeFrame \/ Lose \/ CloseStart \/ CloseFinish, UNCHANGED shellVars
    PROVE  Observes
  <1>1. UNCHANGED <<toClient, cacheVars, view>> /\ finishing' = finishing
    BY DEF TakeFrame, Lose, CloseStart, CloseFinish, wireVars
  <1>2. CASE TakeFrame \/ CloseStart
    <2>1. call' = call /\ pending' = pending
      BY <1>2 DEF TakeFrame, CloseStart
    <2>2. \A c \in Callers : GoesOnWith(c)
      BY <2>1 DEF GoesOnWith
    <2> QED
      BY <1>1, <2>2, NothingObserved
  <1>3. CASE Lose \/ CloseFinish
    <2>1. call' = Woken(pending, LostReply) /\ pending' \subseteq pending
      BY <1>3 DEF Lose, CloseFinish, FailAll
    <2>2. \A c \in Callers : GoesOnWith(c)
      BY <2>1, WokenGoesOn
    <2> QED
      BY <1>1, <2>2, NothingObserved
  <1> QED
    BY <1>2, <1>3

\* The call of c becomes x, and the others go on.
LEMMA PlacedObserves ==
    ASSUME TypeOK, NEW c \in Callers, NEW x, call' = [call EXCEPT ![c] = x],
           UNCHANGED <<toClient, cacheVars, view, finishing>>, UNCHANGED shellVars,
           \A d \in Callers \ {c} : d \in pending' => d \in pending,
           \/ x = NoCall /\ c \notin pending'
           \/ /\ x.kind = call[c].kind /\ x.id = call[c].id /\ x.list = call[c].list
              /\ x.reply = call[c].reply
              /\ c \in pending' => c \in pending
           \/ x.list = {} /\ x.reply = NoReply /\ x.id \notin Ids
    PROVE  Observes
  <1>1. call'[c] = x /\ \A d \in Callers : d # c => call'[d] = call[d]
    BY DEF TypeOK, ClientTypeOK
  <1>2. ASSUME NEW d \in Callers PROVE GoesOnWith(d) \/ BeginsAnew(d) \/ IsOver(d)
    <2>1. CASE d # c
      BY <1>1, <2>1 DEF GoesOnWith
    <2>2. CASE d = c
      BY <1>1, <2>2 DEF GoesOnWith, BeginsAnew, IsOver
    <2> QED
      BY <2>1, <2>2
  <1> QED
    BY <1>2, NothingObserved

LEMMA BeginObserves ==
    ASSUME TypeOK, NEW c \in Callers, StartCall(c), UNCHANGED shellVars
    PROVE  Observes
  <1>1. PICK kind, handle, size : Begin(c, kind, handle, size)
    BY DEF StartCall
  <1> PICK x : x = [pc |-> "registered", kind |-> kind, id |-> nextRequestID',
                    handle |-> handle, rev |-> view[c].rev, size |-> size,
                    list |-> {}, reply |-> NoReply]
    OBVIOUS
  <1>2. /\ call' = [call EXCEPT ![c] = x] /\ pending' = pending \cup {c}
        /\ UNCHANGED <<toClient, cacheVars, view, finishing>>
        /\ nextRequestID' = nextRequestID + 1
    BY <1>1 DEF Begin, wireVars
  <1>3. x.list = {} /\ x.reply = NoReply /\ x.id = nextRequestID + 1
    BY <1>2
  <1>4. x.id \notin Ids
    BY <1>3 DEF Ids, TypeOK, ClientTypeOK
  <1> QED
    BY <1>2, <1>3, <1>4, PlacedObserves

LEMMA CallerObserves ==
    ASSUME TypeOK, IInv, NEW c \in Callers, CallerSteps(c) \/ GivesUp(c), ~Receive(c),
           UNCHANGED shellVars
    PROVE  Observes
  <1>1. call[c] \in Call
    BY DEF TypeOK, ClientTypeOK
  <1>2. CASE IssueFails(c) \/ ReturnClosed(c) \/ Cancel(c)
    <2>1. /\ call' = [call EXCEPT ![c] = NoCall] /\ pending' = pending \ {c}
          /\ UNCHANGED <<toClient, cacheVars, view, finishing>>
      BY <1>2 DEF IssueFails, ReturnClosed, Cancel, quietVars, wireVars
    <2> QED
      BY <2>1, PlacedObserves
  <1>3. CASE ReportTimeout(c)
    <2>1. /\ call' = [call EXCEPT ![c] = NoCall] /\ pending' = pending
          /\ UNCHANGED <<toClient, cacheVars, view, finishing>> /\ call[c].pc = "expired"
      BY <1>3 DEF ReportTimeout, quietVars, wireVars
    <2>2. c \notin pending'
      BY <2>1 DEF IInv, PendingIsUnanswered
    <2> QED
      BY <2>1, <2>2, PlacedObserves
  <1>4. CASE Issue(c)
    <2> PICK x : x = [call[c] EXCEPT !.pc = "waiting"]
      OBVIOUS
    <2>1. /\ call' = [call EXCEPT ![c] = x] /\ pending' = pending
          /\ UNCHANGED <<toClient, cacheVars, view, finishing>>
      BY <1>4 DEF Issue
    <2>2. x.kind = call[c].kind /\ x.id = call[c].id /\ x.list = call[c].list
          /\ x.reply = call[c].reply
      BY <1>1 DEF Call
    <2> QED
      BY <2>1, <2>2, PlacedObserves
  <1>5. CASE Expire(c)
    <2>1. /\ pending' = pending \ {c}
          /\ UNCHANGED <<toClient, cacheVars, view, finishing>>
      BY <1>5 DEF Expire, quietVars, wireVars
    <2>2. CASE call[c].kind = "resize"
      <3> PICK x : x = [call[c] EXCEPT !.pc = "expired"]
        OBVIOUS
      <3>1. call' = [call EXCEPT ![c] = x]
        BY <1>5, <2>2 DEF Expire
      <3>2. x.kind = call[c].kind /\ x.id = call[c].id /\ x.list = call[c].list
            /\ x.reply = call[c].reply
        BY <1>1 DEF Call
      <3> QED
        BY <2>1, <3>1, <3>2, PlacedObserves
    <2>3. CASE call[c].kind # "resize"
      <3>1. call' = [call EXCEPT ![c] = NoCall]
        BY <1>5, <2>3 DEF Expire
      <3> QED
        BY <2>1, <3>1, PlacedObserves
    <2> QED
      BY <2>2, <2>3
  <1> QED
    BY <1>2, <1>3, <1>4, <1>5 DEF CallerSteps, GivesUp

-----------------------------------------------------------------------------
(***************************************************************************)
(* The connection comes and goes.                                          *)
(***************************************************************************)
\* What was on the wire is never heard: whoever waited for an announcement is
\* behind, and stays behind.
LEMMA DisconnectStates == ASSUME TypeOK, IInv, VInv, Disconnect PROVE VInv'
  <1>1. /\ toClient' = << >> /\ ~controller' /\ controller
        /\ UNCHANGED <<toplevels, activated, nextIndex, revision>>
        /\ UNCHANGED <<cache, removed, clientRevision, pending, finishing, call, view>>
        /\ Live' = Live
    BY DEF Disconnect, ControllerDestroyed, windowVars, clientVars, cacheVars, Live
  <1>2. Len(toClient') = 0 /\ Range(toClient') = {}
    BY <1>1 DEF Range
  <1>3. ASSUME NEW w, NEW k \in Nat \ {0}, MayShow(w, k) PROVE MayShow(w, k)'
    <2>1. ASSUME NEW i \in k .. Len(toClient), Activates(i, w.handle) PROVE Severed'
      <3>1. i \in 1 .. Len(toClient)
        BY DEF TypeOK, WireTypeOK
      <3>2. PICK e : e = toClient[i]
        OBVIOUS
      <3>3. e.ev = "toplevel_changed" /\ OlderThan(e.window.rev)
        BY <2>1, <3>2 DEF Activates, ChangeOf
      <3>4. e.window.rev \in Nat /\ e.window.rev <= revision
        BY <3>1, <3>2, <3>3, HeldRevisions DEF Revised, RevOf
      <3>5. Behind
        BY <3>3, <3>4, HeldRevisions DEF OlderThan, Behind
      <3> QED
        BY <1>1, <3>5 DEF Severed, Behind
    <2> QED
      BY <1>1, <1>3, <2>1 DEF MayShow, Flagged, Severed
  <1>4. HandlesDistinct' /\ RevisionsRise' /\ GoneStaysGone'
    BY <1>1, <1>2 DEF VInv, HandlesDistinct, RevisionsRise, GoneStaysGone, RemovedStaysRemoved,
                      Buried
  <1>5. ActiveShown'
    <2>1. \A w \in cache' : MayShow(w, 1)'
      BY <1>1, <1>3 DEF VInv, ActiveShown
    <2>2. \A c \in Callers : \A w \in call'[c].list :
             w.handle \in removed' \/ Superseded(w)' \/ MayShow(w, 1)'
      BY <1>1, <1>3 DEF VInv, ActiveShown, Superseded
    <2>3. CurrentViewShowsActive'
      BY <1>1 DEF VInv, ActiveShown, CurrentViewShowsActive
    <2> QED
      BY <1>2, <2>1, <2>2, <2>3 DEF ActiveShown
  <1>6. SnapshotsCollect'
    <2>1. CurrentSnapshotIsComplete'
      BY <1>1 DEF VInv, SnapshotsCollect, CurrentSnapshotIsComplete
    <2> QED
      BY <1>1, <1>2, <2>1 DEF VInv, SnapshotsCollect, Snapshotting, HandlerRunning
  <1> QED
    BY <1>4, <1>5, <1>6 DEF VInv

\* A new client has heard nothing, and no call is left of the last one.
LEMMA ConnectStates == ASSUME TypeOK, IInv, VInv, Connect PROVE VInv'
  <1>1. /\ toClient' = << >> /\ cache' = {} /\ removed' = {} /\ pending' = {}
        /\ call' = call /\ view' = view /\ clientRevision' = 0
        /\ UNCHANGED <<toplevels, activated, nextIndex, revision>> /\ Live' = Live
    BY DEF Connect, CreateController, windowVars, Live
  <1>2. Len(toClient') = 0 /\ Range(toClient') = {}
    BY <1>1 DEF Range
  <1>3. \A c \in Callers : /\ call[c].list = {} /\ call[c].kind = "none"
    BY DEF IInv, PendingIsUnanswered, Connect, Idle, NoCall
  <1>4. HandlesDistinct' /\ RevisionsRise' /\ GoneStaysGone'
    BY <1>1, <1>2, <1>3 DEF VInv, HandlesDistinct, RevisionsRise, GoneStaysGone,
                            RemovedStaysRemoved, Handles
  <1>5. ActiveShown'
    BY <1>1, <1>2, <1>3 DEF VInv, ActiveShown, CurrentViewShowsActive
  <1>6. SnapshotsCollect'
    <2>1. CurrentSnapshotIsComplete'
      BY <1>1 DEF VInv, SnapshotsCollect, CurrentSnapshotIsComplete
    <2> QED
      BY <1>1, <1>3, <2>1 DEF SnapshotsCollect, Snapshotting
  <1> QED
    BY <1>4, <1>5, <1>6 DEF VInv

-----------------------------------------------------------------------------
LEMMA NextStates == TypeOK /\ IInv /\ AInv /\ VInv /\ [Next]_vars => VInv'
  <1> SUFFICES ASSUME TypeOK, IInv, AInv, VInv, [Next]_vars PROVE VInv'
    OBVIOUS
  <1>1. TypeOK'
    BY NextType
  <1>2. CASE Connect
    BY <1>2, ConnectStates
  <1>3. CASE Disconnect
    BY <1>3, DisconnectStates
  <1>4. CASE ShellStep
    BY <1>1, <1>4, ShellStates
  <1>5. CASE ClientStep
    <2>1. UNCHANGED shellVars
      BY <1>5 DEF ClientStep
    <2>2. CASE Dispatch
      BY <1>1, <2>1, <2>2, DispatchStates
    <2>3. ASSUME NEW c \in Callers, Receive(c) PROVE VInv'
      BY <1>1, <2>1, <2>3, ReceiveStates
    <2>4. CASE FinishHandler \/ TakeFrame \/ Lose \/ CloseStart \/ CloseFinish
      BY <1>1, <2>1, <2>4, FinishHandlerObserves, ConnectionObserves, QuietStates
    <2>5. ASSUME NEW c \in Callers, StartCall(c) PROVE VInv'
      BY <1>1, <2>1, <2>5, BeginObserves, QuietStates
    <2>6. ASSUME NEW c \in Callers, CallerSteps(c) \/ GivesUp(c), ~Receive(c) PROVE VInv'
      BY <1>1, <2>1, <2>6, CallerObserves, QuietStates
    <2> QED
      BY <1>5, <2>2, <2>3, <2>4, <2>5, <2>6 DEF ClientStep
  <1>6. CASE UNCHANGED vars
    <2>1. /\ UNCHANGED <<toClient, cacheVars, view, call, pending, finishing>>
          /\ UNCHANGED shellVars
      BY <1>6 DEF vars, wireVars, clientVars
    <2>2. \A c \in Callers : GoesOnWith(c)
      BY <2>1 DEF GoesOnWith
    <2>3. Observes
      BY <2>1, <2>2, NothingObserved
    <2> QED
      BY <1>1, <2>3, QuietStates
  <1> QED
    BY <1>2, <1>3, <1>4, <1>5, <1>6 DEF Next

LEMMA StatesInvariant == Spec => [](TypeOK /\ IInv /\ AInv /\ VInv)
  <1>1. Init => VInv
    BY InitStates
  <1>2. TypeOK /\ IInv /\ AInv /\ VInv /\ [Next]_vars => VInv'
    BY NextStates
  <1> QED
    BY <1>1, <1>2, AnswersInvariant, PTL DEF Spec

\* A window the client has heard removed never comes back to its cache, by a
\* late event or by a snapshot enumerated before the removal (OnToplevelRemoved,
\* mergeSnapshot): handles are given once, and nothing announces a window after
\* its removal.
THEOREM RemovedStayRemoved == Spec => []RemovedStaysRemoved
  <1>1. TypeOK /\ IInv /\ AInv /\ VInv => RemovedStaysRemoved
    BY DEF VInv, GoneStaysGone
  <1> QED
    BY <1>1, StatesInvariant, PTL

\* A State whose revision is still the module's shows every window it lists as
\* activated that is: no activation the caller has not seen leaves its revision
\* current (handle_activate raises the revision before it announces the window).
THEOREM ViewsShowActive == Spec => []CurrentViewShowsActive
  <1>1. TypeOK /\ IInv /\ AInv /\ VInv => CurrentViewShowsActive
    BY DEF VInv, ActiveShown
  <1> QED
    BY <1>1, StatesInvariant, PTL

\* A Snapshot whose revision is still the module's misses no window, whatever
\* the client heard between the list and its end and whatever mergeSnapshot
\* left out of it.
THEOREM SnapshotsComplete == Spec => []CurrentSnapshotIsComplete
  <1>1. TypeOK /\ IInv /\ AInv /\ VInv => CurrentSnapshotIsComplete
    BY DEF VInv, SnapshotsCollect
  <1> QED
    BY <1>1, StatesInvariant, PTL

\* Within a connection the client's revision only rises, though OnSnapshot and
\* OnToplevelChanged assign it without comparing: the module's events carry
\* revisions that never drop, and the wire keeps their order.
THEOREM ClientRevisionRises == Spec => ClientRevisionNeverDrops
  <1> DEFINE Rises == connections' = connections => clientRevision' >= clientRevision
  <1>1. ASSUME TypeOK, IInv, AInv, VInv, [Next]_vars PROVE [Rises]_vars
    <2>1. clientRevision \in Nat /\ connections \in Nat
      BY <1>1 DEF TypeOK, ClientTypeOK
    <2>2. TypeOK'
      BY <1>1, NextType
    <2>3. CASE Connect
      BY <2>1, <2>3 DEF Connect
    <2>4. CASE Dispatch /\ UNCHANGED shellVars
      <3>1. PICK e : e = Head(toClient)
        OBVIOUS
      <3>2. Dispatches(e)
        BY <1>1, <2>4, <3>1, DispatchTakes DEF Dispatches, Dispatch
      <3>3. clientRevision <= clientRevision'
        BY <1>1, <2>2, <3>2, DispatchAt
      <3>4. clientRevision' \in Nat
        BY <2>2 DEF TypeOK, ClientTypeOK
      <3> QED
        BY <2>1, <3>3, <3>4
    <2>5. CASE clientRevision' = clientRevision
      BY <2>1, <2>5
    <2>6. CASE Disconnect \/ ShellStep \/ UNCHANGED vars
      BY <2>5, <2>6 DEF Disconnect, ShellStep, vars, clientVars, cacheVars
    <2>7. CASE ClientStep /\ ~Dispatch
      <3>1. UNCHANGED shellVars
        BY <2>7 DEF ClientStep
      <3>2. CASE FinishHandler \/ TakeFrame \/ Lose \/ CloseStart \/ CloseFinish
        <4>1. Observes
          BY <1>1, <3>1, <3>2, FinishHandlerObserves, ConnectionObserves
        <4> QED
          BY <2>5, <4>1 DEF Observes
      <3>3. ASSUME NEW c \in Callers, StartCall(c) \/ CallerSteps(c) \/ GivesUp(c)
            PROVE  clientRevision' = clientRevision
        <4>1. CASE Receive(c)
          BY <4>1 DEF Receive
        <4>2. CASE ~Receive(c)
          <5>1. Observes
            BY <1>1, <3>1, <3>3, <4>2, BeginObserves, CallerObserves
          <5> QED
            BY <5>1 DEF Observes
        <4> QED
          BY <4>1, <4>2
      <3> QED
        BY <2>5, <2>7, <3>2, <3>3 DEF ClientStep
    <2>8. ClientStep => UNCHANGED shellVars
      BY DEF ClientStep
    <2> QED
      BY <1>1, <2>3, <2>4, <2>6, <2>7, <2>8 DEF Next
  <1>2. TypeOK /\ IInv /\ AInv /\ VInv /\ [Next]_vars => [Rises]_vars
    BY <1>1
  <1> QED
    BY <1>2, StatesInvariant, PTL DEF Spec, ClientRevisionNeverDrops

=============================================================================
