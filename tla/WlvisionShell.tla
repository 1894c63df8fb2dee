--------------------------- MODULE WlvisionShell ---------------------------
(***************************************************************************)
(* The compositor's shell module (src/weston-module/wlvision-shell.c): the *)
(* window list, the session revision, the pending resizes and the capture  *)
(* authorization.  Weston is single-threaded, so every protocol request    *)
(* and every desktop callback is one atomic step.                          *)
(*                                                                         *)
(* Applications are the environment: they add, commit and remove surfaces  *)
(* and ask for window states whenever they like.  Allocation failures and  *)
(* the wrap of the 32-bit handle counter are not modelled.                 *)
(***************************************************************************)
EXTENDS ControlWire

CONSTANTS
    HasSeat,      \* the compositor has a seat with a keyboard
    MaxWindows,   \* bound: windows added in the life of the session
    MaxRevision,  \* bound: application events stop at this revision
    MaxFrames     \* bound: repaints of the output

ASSUME ShellAssumption ==
    /\ HasSeat \in BOOLEAN
    /\ MaxWindows \in Nat /\ MaxRevision \in Nat /\ MaxFrames \in Nat

VARIABLES
    toplevels,      \* live windows, oldest first (wlvision_shell::toplevels)
    mapped,         \* windows whose first buffer was committed
    activated,      \* windows flagged activated
    focus,          \* the window with Weston's keyboard focus, 0 for none
    nextIndex,      \* number of the last handle assigned
    revision,       \* the session revision
    requests,       \* resizes waiting for a matching commit
    controller,     \* a controller resource exists
    captureClient,  \* the controller's client may use the capture protocol
    captureID,      \* id of the last capture authorization
    capturePending, \* that authorization is reported on frames
    frameSequence   \* repaints numbered so far

windowVars == <<toplevels, mapped, activated, focus, nextIndex>>
captureVars == <<captureClient, captureID, capturePending, frameSequence>>
shellVars == <<windowVars, revision, requests, controller, captureVars>>

Live == {toplevels[i] : i \in 1 .. Len(toplevels)}

PendingResize == [id : Nat, toplevel : Nat, configured : Sizes]

ShellInit ==
    /\ toplevels = <<>> /\ mapped = {} /\ activated = {} /\ focus = 0
    /\ nextIndex = 0 /\ revision = 0 /\ requests = {}
    /\ controller = FALSE
    /\ captureClient = FALSE /\ captureID = 0 /\ capturePending = FALSE
    /\ frameSequence = 0

-----------------------------------------------------------------------------
(***************************************************************************)
(* Events.  Every emitter returns early when no controller exists.         *)
(***************************************************************************)
Emit(events) == toClient' = IF controller THEN toClient \o events ELSE toClient

\* Mutant: the event is emitted before the revision is raised.
ChangedBeforeBump(h, active, map, rev) ==
    [ev |-> "toplevel_changed",
     window |-> [handle |-> h, activated |-> h \in active, mapped |-> h \in map,
                 rev |-> IF rev = 0 THEN 0 ELSE rev - 1]]

\* Read by emit_toplevel_changed after the handler changed the window.
Changed(h, active, map, rev) ==
    [ev |-> "toplevel_changed",
     window |-> [handle |-> h, activated |-> h \in active, mapped |-> h \in map,
                 rev |-> rev]]

Done(id, rev) == [ev |-> "request_done", id |-> id, rev |-> rev]
Failed(id, code) == [ev |-> "request_failed", id |-> id, code |-> code]

\* Mutant: the counter runs backwards.
DropRevision == revision' = revision - 1

BumpRevision == revision' = revision + 1

RequestsFor(h) == {r \in requests : r.toplevel = h}

-----------------------------------------------------------------------------
(***************************************************************************)
(* Requests from the controller.                                           *)
(***************************************************************************)
HandleSnapshot(q) ==
    /\ q.kind = "snapshot"
    /\ Emit(<<[ev |-> "snapshot", rev |-> revision]>>
            \o [i \in 1 .. Len(toplevels) |->
                   Changed(toplevels[i], activated, mapped, revision)]
            \o <<Done(q.id, revision)>>)
    /\ UNCHANGED shellVars

\* Mutant: the revision test is missing.
RefusalWithoutRevision(q) ==
    IF q.kind = "resize" /\ q.size = BadSize THEN {"invalid_argument"}
    ELSE IF q.handle \notin Live THEN {"window_not_found"}
    ELSE {}

\* Why a window operation is refused, in the order the handlers check.
Refusal(q) ==
    IF q.rev # revision THEN {"stale_revision"}
    ELSE IF q.kind = "resize" /\ q.size = BadSize THEN {"invalid_argument"}
    ELSE IF q.handle \notin Live THEN {"window_not_found"}
    ELSE {}

\* Mutant: the return after answer_failed is missing.
HandleRefusedTwice(q) ==
    /\ q.kind \in WindowOps
    /\ \E code \in Refusal(q) : Emit(<<Failed(q.id, code), Done(q.id, revision)>>)
    /\ UNCHANGED shellVars

HandleRefused(q) ==
    /\ q.kind \in WindowOps
    /\ \E code \in Refusal(q) : Emit(<<Failed(q.id, code)>>)
    /\ UNCHANGED shellVars

\* activate_toplevel: the window that had the focus loses its flag, silently.
ActivateToplevel(h) ==
    IF HasSeat
    THEN /\ focus' = h
         /\ activated' = (activated \ {focus}) \cup {h}
    ELSE UNCHANGED <<focus, activated>>

\* Mutant: the event is built before the window is activated.
ActivateAnnouncedEarly(q) ==
    /\ q.kind = "activate" /\ Refusal(q) = {}
    /\ ActivateToplevel(q.handle)
    /\ BumpRevision
    /\ Emit(<<Changed(q.handle, activated, mapped, revision'), Done(q.id, revision')>>)
    /\ UNCHANGED <<toplevels, mapped, nextIndex, requests, controller, captureVars>>

HandleActivate(q) ==
    /\ q.kind = "activate" /\ Refusal(q) = {}
    /\ ActivateToplevel(q.handle)
    /\ BumpRevision
    /\ Emit(<<Changed(q.handle, activated', mapped, revision'), Done(q.id, revision')>>)
    /\ UNCHANGED <<toplevels, mapped, nextIndex, requests, controller, captureVars>>

HandleMove(q) ==
    /\ q.kind = "move" /\ Refusal(q) = {}
    /\ BumpRevision
    /\ Emit(<<Changed(q.handle, activated, mapped, revision'), Done(q.id, revision')>>)
    /\ UNCHANGED <<windowVars, requests, controller, captureVars>>

\* One outstanding resize per window: what a new request leaves of the others.
KeptBeside(q) == requests \ RequestsFor(q.handle)

HandleResize(q) ==
    /\ q.kind = "resize" /\ Refusal(q) = {}
    /\ requests' = KeptBeside(q)
                   \cup {[id |-> q.id, toplevel |-> q.handle, configured |-> q.size]}
    /\ Emit(<<[ev |-> "resize_configured", id |-> q.id, configured |-> q.size]>>)
    /\ UNCHANGED <<windowVars, revision, controller, captureVars>>

\* The application is asked to close: it decides when its surface goes.
HandleCloseWindow(q) ==
    /\ q.kind = "close" /\ Refusal(q) = {}
    /\ Emit(<<Done(q.id, revision)>>)
    /\ UNCHANGED shellVars

HandleInput(q) ==
    /\ q.kind = "input"
    /\ Emit(<<Done(q.id, revision)>>)
    /\ UNCHANGED shellVars

HandleAuthorizeCapture(q) ==
    /\ q.kind = "capture"
    /\ captureClient' = TRUE
    /\ captureID' = q.id
    /\ capturePending' = TRUE
    /\ Emit(<<[ev |-> "capture_authorized", id |-> q.id], Done(q.id, revision)>>)
    /\ UNCHANGED <<windowVars, revision, requests, controller, frameSequence>>

\* The module reads the oldest request of its controller's socket.
ShellHandles ==
    /\ controller
    /\ toShell # <<>>
    /\ toShell' = Tail(toShell)
    /\ LET q == Head(toShell) IN
          \/ HandleSnapshot(q)
          \/ HandleRefused(q)
          \/ HandleActivate(q)
          \/ HandleMove(q)
          \/ HandleResize(q)
          \/ HandleCloseWindow(q)
          \/ HandleInput(q)
          \/ HandleAuthorizeCapture(q)

-----------------------------------------------------------------------------
(***************************************************************************)
(* The controller resource.                                                *)
(***************************************************************************)
CreateController ==
    /\ ~controller
    /\ controller' = TRUE
    /\ UNCHANGED <<windowVars, revision, requests, captureVars>>

\* Mutant: the pending resizes outlive their controller.
AllKept == requests

\* What is left of the pending resizes once the controller is gone.
KeptAfterDestroy == {}

\* Mutant: the outstanding authorization outlives the controller.
DestroyedStillCapturing ==
    /\ controller
    /\ controller' = FALSE
    /\ requests' = KeptAfterDestroy
    /\ captureClient' = FALSE
    /\ toShell' = <<>>
    /\ UNCHANGED <<windowVars, revision, captureID, capturePending, frameSequence>>

ControllerDestroyed ==
    /\ controller
    /\ controller' = FALSE
    /\ requests' = KeptAfterDestroy
    /\ captureClient' = FALSE /\ capturePending' = FALSE
    /\ toShell' = <<>>
    /\ UNCHANGED <<windowVars, revision, captureID, frameSequence>>

-----------------------------------------------------------------------------
(***************************************************************************)
(* The desktop API: what applications do, and the output's repaints.       *)
(***************************************************************************)
\* Mutant: a handle is given again once its window is gone.
FirstFreeHandle == Len(toplevels) + 1

AssignHandle == nextIndex + 1

SurfaceAdded ==
    /\ nextIndex < MaxWindows /\ revision < MaxRevision
    /\ LET h == AssignHandle IN
          /\ nextIndex' = h
          /\ toplevels' = Append(toplevels, h)
          /\ BumpRevision
          /\ Emit(<<Changed(h, activated, mapped, revision')>>)
    /\ UNCHANGED <<mapped, activated, focus, requests, controller, captureVars, toShell>>

Without(s, i) == [j \in 1 .. Len(s) - 1 |-> IF j < i THEN s[j] ELSE s[j + 1]]

\* The pending resize of the window is failed, the removal is announced, and
\* only then does the revision rise.  Weston drops the focus of a dead surface.
SurfaceRemoved(i) ==
    /\ revision < MaxRevision
    /\ LET h == toplevels[i]
           failures == {Failed(r.id, "window_not_found") : r \in RequestsFor(h)}
           removal == <<[ev |-> "toplevel_removed", handle |-> h]>>
       IN /\ IF failures = {} THEN Emit(removal)
             ELSE \E f \in failures : Emit(<<f>> \o removal)
          /\ requests' = requests \ RequestsFor(h)
          /\ toplevels' = Without(toplevels, i)
          /\ mapped' = mapped \ {h}
          /\ activated' = activated \ {h}
          /\ focus' = IF focus = h THEN 0 ELSE focus
          /\ BumpRevision
    /\ UNCHANGED <<nextIndex, controller, captureVars, toShell>>

\* Mutant: any commit completes the resize.
CompletesAny(h, size) == RequestsFor(h)

\* The resizes a commit completes: the comparison is against the configure
\* the module sent.
Completes(h, size) == {r \in RequestsFor(h) : r.configured = size}

\* Mutant: the completed resize is answered and stays on the list.
CommittedStillPending(h, size) ==
    /\ mapped' = mapped \cup {h}
    /\ IF Completes(h, size) = {}
       THEN UNCHANGED <<revision, toClient>>
       ELSE \E r \in Completes(h, size) :
               /\ BumpRevision
               /\ Emit(<<Changed(h, activated, mapped', revision'),
                         [ev |-> "resize_done", id |-> r.id, configured |-> r.configured,
                          committed |-> size, rev |-> revision']>>)
    /\ UNCHANGED <<toplevels, activated, focus, nextIndex, requests, controller, captureVars,
                   toShell>>

\* The first commit maps the window, without a new revision or an event.
SurfaceCommitted(h, size) ==
    /\ mapped' = mapped \cup {h}
    /\ IF Completes(h, size) = {}
       THEN UNCHANGED <<revision, requests, toClient>>
       ELSE \E r \in Completes(h, size) :
               /\ BumpRevision
               /\ requests' = requests \ {r}
               /\ Emit(<<Changed(h, activated, mapped', revision'),
                         [ev |-> "resize_done", id |-> r.id, configured |-> r.configured,
                          committed |-> size, rev |-> revision']>>)
    /\ UNCHANGED <<toplevels, activated, focus, nextIndex, controller, captureVars, toShell>>

\* fullscreen_requested and maximized_requested do the same.
StateRequested(h) ==
    /\ revision < MaxRevision
    /\ BumpRevision
    /\ Emit(<<Changed(h, activated, mapped, revision')>>)
    /\ UNCHANGED <<windowVars, requests, controller, captureVars, toShell>>

\* Every repaint is numbered and reports the outstanding authorization.
Frame ==
    /\ frameSequence < MaxFrames
    /\ frameSequence' = frameSequence + 1
    /\ Emit(<<[ev |-> "frame", captureID |-> IF capturePending THEN captureID ELSE 0,
               seq |-> frameSequence']>>)
    /\ UNCHANGED <<windowVars, revision, requests, controller, captureClient, captureID,
                   capturePending, toShell>>

Applications ==
    \/ SurfaceAdded
    \/ \E i \in 1 .. Len(toplevels) : SurfaceRemoved(i)
    \/ \E h \in Live, size \in Sizes : SurfaceCommitted(h, size)
    \/ \E h \in Live : StateRequested(h)
    \/ Frame

ShellTypeOK ==
    /\ toplevels \in Seq(Nat) /\ mapped \subseteq Nat /\ activated \subseteq Nat
    /\ focus \in Nat /\ nextIndex \in Nat /\ revision \in Nat
    /\ requests \subseteq PendingResize
    /\ controller \in BOOLEAN /\ captureClient \in BOOLEAN
    /\ captureID \in Nat /\ capturePending \in BOOLEAN /\ frameSequence \in Nat

=============================================================================
