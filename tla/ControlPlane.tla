---------------------------- MODULE ControlPlane ----------------------------
(***************************************************************************)
(* The control plane of a session: the shell module and the control client *)
(* joined by the wire.  Callers use the client concurrently while          *)
(* applications change the windows.                                        *)
(***************************************************************************)
EXTENDS WlvisionShell, ControlClient

CONSTANTS
    Blind,          \* callers may also name a handle they never saw
    MaxConnections  \* bound: connections of the session

ASSUME PlaneAssumption == Blind \in BOOLEAN /\ MaxConnections \in Nat

VARIABLE connections    \* connections made so far

vars == <<wireVars, shellVars, clientVars, connections>>

Init ==
    /\ toShell = <<>> /\ toClient = <<>>
    /\ ShellInit
    /\ ClientInit
    /\ connections = 0

-----------------------------------------------------------------------------
\* Connect binds the manager and creates the controller, with a fresh client.
Connect ==
    /\ connections < MaxConnections
    /\ ~linked /\ Idle
    /\ CreateController
    /\ connections' = connections + 1
    /\ toShell' = <<>> /\ toClient' = <<>>
    /\ nextRequestID' = 0 /\ pending' = {} /\ cache' = {} /\ removed' = {}
    /\ resizeProgress' = {} /\ clientRevision' = 0 /\ frames' = <<>>
    /\ finishing' = [id |-> 0, reply |-> NoReply]
    /\ dispatching' = TRUE /\ closedFlag' = FALSE /\ closed' = FALSE /\ linked' = TRUE
    /\ UNCHANGED <<call, view>>

\* Weston notices that the client's socket is closed.
Disconnect ==
    /\ ~linked
    /\ ControllerDestroyed
    /\ toClient' = <<>>
    /\ UNCHANGED <<clientVars, connections>>

Nameable(c) == Handles(view[c].windows) \cup (IF Blind THEN 1 .. nextIndex ELSE {})

StartCall(c) ==
    \/ \E kind \in Operations \ WindowOps : Begin(c, kind, 0, NoSize)
    \/ \E kind \in (Operations \cap WindowOps) \ {"resize"}, h \in Nameable(c) :
          Begin(c, kind, h, NoSize)
    \/ \E h \in Nameable(c), size \in Sizes \cup {BadSize} :
          "resize" \in Operations /\ Begin(c, "resize", h, size)

ShellStep == (ShellHandles \/ Applications) /\ UNCHANGED <<clientVars, connections>>

ClientStep ==
    /\ \/ Dispatch \/ FinishHandler \/ TakeFrame
       \/ \E c \in Callers : StartCall(c) \/ CallerSteps(c) \/ GivesUp(c)
       \/ Lose \/ CloseStart \/ CloseFinish
    /\ UNCHANGED <<shellVars, connections>>

Next == Connect \/ Disconnect \/ ShellStep \/ ClientStep

Spec == Init /\ [][Next]_vars

(***************************************************************************)
(* Weston's event loop and the client's goroutines keep running.  Nothing  *)
(* obliges an application, a deadline or the connection to do anything.    *)
(***************************************************************************)
Fairness ==
    /\ WF_vars(ShellHandles /\ UNCHANGED <<clientVars, connections>>)
    /\ WF_vars((Dispatch \/ FinishHandler) /\ UNCHANGED <<shellVars, connections>>)
    /\ \A c \in Callers : WF_vars(CallerSteps(c) /\ UNCHANGED <<shellVars, connections>>)

FairSpec == Spec /\ Fairness

-----------------------------------------------------------------------------
\* Every variable has its type.
TypeOK == WireTypeOK /\ ShellTypeOK /\ ClientTypeOK /\ connections \in Nat

(***************************************************************************)
(* What a caller may rely on.                                              *)
(***************************************************************************)
\* A State whose revision is still the module's lists no window that is gone,
\* whatever removals are still on the wire: the revision test of the window
\* operations (revision_matches) protects every handle of the State.
CurrentViewIsLive ==
    \A c \in Callers : view[c].rev = revision => Handles(view[c].windows) \subseteq Live

\* A Snapshot whose revision is still the module's misses no window.
CurrentSnapshotIsComplete ==
    \A c \in Callers :
        view[c].full /\ view[c].rev = revision => Live \subseteq Handles(view[c].windows)

\* A State whose revision is still the module's shows every window it lists as
\* activated that is.  The converse fails: the window that lost the focus keeps
\* its flag in the client's cache, for its change is not announced.
CurrentViewShowsActive ==
    \A c \in Callers : view[c].rev = revision =>
        \A w \in view[c].windows : w.handle \in activated => w.activated

\* A caller that names a window of its State with that State's revision is
\* refused as stale or served: it never learns that the window does not exist,
\* unless the window died while its resize was waiting for a commit.
SeenWindowIsNeverNotFound ==
    \A c \in Callers :
        call[c].reply.code = "window_not_found" /\ call[c].kind # "resize"
            => call[c].handle \notin Handles(view[c].windows)

\* A successful resize reports the size its own caller asked for, committed by
\* the application: never the size of a resize that superseded it or of one
\* from an earlier connection.
ResizeReportsOwnSize ==
    \A c \in Callers :
        call[c].kind = "resize" /\ call[c].reply.status = "done"
            => /\ call[c].reply.configured = call[c].size
               /\ call[c].reply.committed = call[c].size

\* resizeTimeout never reports its successor's sizes.
TimeoutReportsOwnSize ==
    \A c \in Callers :
        call[c].pc = "expired" => \A p \in ProgressOf(call[c].id) : p.configured = call[c].size

Terminal(e) == e.ev \in {"request_done", "request_failed", "resize_done"}

\* The places where request id is still unsettled: on its way to the module,
\* waiting there for a commit, answered by an event on its way back, or in the
\* dispatcher's hand between the two critical sections of its handler.
Unsettled(id) ==
    {<<"sent", i>> : i \in {j \in 1 .. Len(toShell) : toShell[j].id = id}}
    \cup {<<"resizing", r>> : r \in {x \in requests : x.id = id}}
    \cup {<<"answered", i>> : i \in {j \in 1 .. Len(toClient) :
                                        Terminal(toClient[j]) /\ toClient[j].id = id}}
    \cup (IF HandlerRunning /\ finishing.id = id THEN {<<"finishing", 0>>} ELSE {})

\* The module answers a request at most once: no id is ever in two of those
\* places, so no caller can be handed the answer to a second, different request.
AnsweredAtMostOnce ==
    \A id \in 1 .. nextRequestID : \A u, v \in Unsettled(id) : u = v

\* A removed window never comes back to the client's cache, neither by a late
\* event nor by a snapshot that was enumerated before the removal.
RemovedStaysRemoved == Handles(cache) \cap removed = {}

\* Within a connection the client's revision only rises.
ClientRevisionNeverDrops ==
    [][connections' = connections => clientRevision' >= clientRevision]_vars

\* What the commands of the host are modelled on: the windows and the revision
\* of the module are those of SessionWindows, whatever the callers do.  Handles
\* are given once, and every change of the window list raises the revision, by
\* one.
Session == INSTANCE SessionWindows WITH rev <- revision, live <- Live, given <- nextIndex
ImplementsSession == Session!SessionSpec

InSend(c) == call[c].pc \in {"registered", "waiting"}
               /\ call[c].kind \notin {"none", "resize", "capture"}

\* A frame that carries an authorization was painted after the module granted
\* it: no frame ahead of the capture_authorized event claims its id, not even
\* one of an earlier connection, whose ids start at 1 like this one's.
FrameFollowsAuthorization ==
    \A j \in 1 .. Len(toClient) :
        toClient[j].ev = "capture_authorized" =>
            /\ \A i \in 1 .. j - 1 :
                  toClient[i].ev = "frame" => toClient[i].captureID # toClient[j].id
            /\ \A k \in 1 .. Len(frames) : frames[k].captureID # toClient[j].id

\* A call through send, other than a resize, returns without its deadline:
\* the module answers it or the loss of the connection wakes it.
SendReturns == \A c \in Callers : InSend(c) ~> ~InSend(c)

-----------------------------------------------------------------------------
(***************************************************************************)
(* What the documentation says and the code does not do.                   *)
(***************************************************************************)
\* client.go: "ErrClosed is returned when the control connection is closed,
\* either by the caller or because the compositor went away."
CaptureCall(c) == call[c].pc \in {"registered", "waiting"} /\ call[c].kind = "capture"
LossWakesCapture == \A c \in Callers : CaptureCall(c) ~> ~CaptureCall(c)

=============================================================================
