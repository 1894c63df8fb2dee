--------------------------- MODULE ControlClient ---------------------------
(***************************************************************************)
(* The control client (src/internal/control/client.go): the only privileged *)
(* connection of a session, its cache of the window state, and the calls    *)
(* in flight.  A dispatch goroutine runs the event handlers; any number of  *)
(* caller goroutines run send.  Each critical section of client.mu is one   *)
(* step, so a handler with two of them (OnRequestDone, OnResizeDone) is two *)
(* steps, and a caller is seen between registering, issuing, waiting and    *)
(* reading the cache.                                                       *)
(***************************************************************************)
EXTENDS ControlWire

CONSTANTS
    Callers,      \* goroutines that use the client
    Operations,   \* the request kinds they use
    Faults,       \* what goes wrong: "expire", "cancel", "lose", "close"
    FrameCap,     \* capacity of the frames channel (64 in the code)
    MaxRequests   \* bound: requests of one connection

ASSUME ClientAssumption ==
    /\ Operations \subseteq RequestKinds
    /\ Faults \subseteq {"expire", "cancel", "lose", "close"}
    /\ FrameCap \in Nat /\ MaxRequests \in Nat

VARIABLES
    nextRequestID,  \* last request id allocated
    pending,        \* callers whose call is registered and not answered
    cache,          \* window state as last observed (client.toplevels)
    removed,        \* handles announced as removed
    resizeProgress, \* sizes observed for resizes in flight
    clientRevision, \* client.revision
    frames,         \* the frames channel
    dispatching,    \* the dispatch goroutine runs
    finishing,      \* the answer a handler delivers in its second step
    closedFlag,     \* failAll ran
    closed,         \* Close closed the closed channel
    linked,         \* the client's socket is open
    call,           \* what each caller goroutine is doing
    view            \* the State each caller was last given

cacheVars == <<cache, removed, clientRevision>>
linkVars == <<dispatching, closedFlag, closed, linked>>
clientVars == <<nextRequestID, pending, cacheVars, resizeProgress, frames,
                finishing, linkVars, call, view>>

-----------------------------------------------------------------------------
SizeOrNone == Sizes \cup {NoSize}

\* What a call's reply channel holds: the outcome of a completed request.
Reply == [status : {"none", "done", "failed", "lost"}, code : Codes \cup {"none"},
          rev : Nat, configured : SizeOrNone, committed : SizeOrNone]

NoReply == [status |-> "none", code |-> "none", rev |-> 0,
            configured |-> NoSize, committed |-> NoSize]
DoneReply(rev) == [NoReply EXCEPT !.status = "done", !.rev = rev]
FailedReply(code) == [NoReply EXCEPT !.status = "failed", !.code = code]
LostReply == [NoReply EXCEPT !.status = "lost"]
ResizedReply(e) == [status |-> "done", code |-> "none", rev |-> e.rev,
                    configured |-> e.configured, committed |-> e.committed]

Progress == [id : Nat, configured : SizeOrNone, committed : SizeOrNone]

Call == {k \in [pc : {"idle", "registered", "waiting", "expired"},
                kind : RequestKinds \cup {"none"}, id : Nat, handle : Nat, rev : Nat,
                size : Sizes \cup {BadSize, NoSize}, list : SUBSET Toplevel,
                reply : Reply] :
           /\ k.kind = "resize" => k.size # NoSize
           /\ k.kind = "none" => k.pc = "idle"}

NoCall == [pc |-> "idle", kind |-> "none", id |-> 0, handle |-> 0, rev |-> 0,
           size |-> NoSize, list |-> {}, reply |-> NoReply]

\* A State the client returned; "full" when Snapshot returned it.
View == [rev : Nat, windows : SUBSET Toplevel, full : BOOLEAN]
NoView == [rev |-> 0, windows |-> {}, full |-> FALSE]

Idle == \A c \in Callers : call[c].pc = "idle"

NoConnection ==
    /\ nextRequestID = 0 /\ pending = {} /\ cache = {} /\ removed = {}
    /\ resizeProgress = {} /\ clientRevision = 0 /\ frames = <<>>
    /\ finishing = [id |-> 0, reply |-> NoReply]

ClientInit ==
    /\ NoConnection
    /\ dispatching = FALSE /\ closedFlag = FALSE /\ closed = FALSE /\ linked = FALSE
    /\ call = [c \in Callers |-> NoCall]
    /\ view = [c \in Callers |-> NoView]

-----------------------------------------------------------------------------
(***************************************************************************)
(* Delivering answers.                                                     *)
(***************************************************************************)
\* The registered callers in woken find the reply r in their channel.
Woken(woken, r) ==
    [c \in Callers |-> IF c \in woken THEN [call[c] EXCEPT !.reply = r] ELSE call[c]]

Owner(id) == {c \in pending : call[c].id = id}

\* Mutant: one progress slot shared by all resizes.
ProgressShared(id) == resizeProgress

ProgressOf(id) == {p \in resizeProgress : p.id = id}

\* finish: answers whoever is registered under the id, and drops its progress.
Finish(id, r) ==
    /\ call' = Woken(Owner(id), r)
    /\ pending' = pending \ Owner(id)
    /\ resizeProgress' = resizeProgress \ ProgressOf(id)

\* failAll: wakes every registered caller.
FailAll ==
    /\ call' = Woken(pending, LostReply)
    /\ pending' = {}
    /\ closedFlag' = TRUE

-----------------------------------------------------------------------------
(***************************************************************************)
(* Event handlers, on the dispatch goroutine.                              *)
(***************************************************************************)
\* Mutant: an unknown window is not appended.
UpsertKnown(windows, w) ==
    IF w.handle \in Handles(windows)
    THEN {x \in windows : x.handle # w.handle} \cup {w} ELSE windows

Upsert(windows, w) == {x \in windows : x.handle # w.handle} \cup {w}
Drop(windows, h) == {x \in windows : x.handle # h}

\* Every registered snapshot call collects the windows announced meanwhile.
ListsBecome(lists) ==
    call' = [c \in Callers |->
               IF c \in pending /\ call[c].kind = "snapshot"
               THEN [call[c] EXCEPT !.list = lists[c]] ELSE call[c]]

OnSnapshot(e) ==
    /\ e.ev = "snapshot"
    /\ clientRevision' = e.rev
    /\ ListsBecome([c \in Callers |-> {}])
    /\ UNCHANGED <<cache, removed, pending, resizeProgress, frames, finishing>>

OnToplevelChanged(e) ==
    /\ e.ev = "toplevel_changed"
    /\ clientRevision' = e.window.rev
    /\ cache' = Upsert(cache, e.window)
    /\ ListsBecome([c \in Callers |-> Upsert(call[c].list, e.window)])
    /\ UNCHANGED <<removed, pending, resizeProgress, frames, finishing>>

\* Mutant: a removal reaches the snapshot lists only.
RemovalForgotten(e) ==
    /\ e.ev = "toplevel_removed"
    /\ ListsBecome([c \in Callers |-> Drop(call[c].list, e.handle)])
    /\ UNCHANGED <<cacheVars, pending, resizeProgress, frames, finishing>>

OnToplevelRemoved(e) ==
    /\ e.ev = "toplevel_removed"
    /\ cache' = Drop(cache, e.handle)
    /\ removed' = removed \cup {e.handle}
    /\ ListsBecome([c \in Callers |-> Drop(call[c].list, e.handle)])
    /\ UNCHANGED <<clientRevision, pending, resizeProgress, frames, finishing>>

RaisedTo(rev) == IF rev > clientRevision THEN rev ELSE clientRevision

OnRequestDone(e) ==
    /\ e.ev = "request_done"
    /\ clientRevision' = RaisedTo(e.rev)
    /\ finishing' = [id |-> e.id, reply |-> DoneReply(e.rev)]
    /\ UNCHANGED <<cache, removed, pending, resizeProgress, call, frames>>

OnRequestFailed(e) ==
    /\ e.ev = "request_failed"
    /\ Finish(e.id, FailedReply(e.code))
    /\ UNCHANGED <<cacheVars, frames, finishing>>

\* Progress is kept for a registered call only.
Observed(id, configured, committed) ==
    IF Owner(id) = {} THEN resizeProgress
    ELSE (resizeProgress \ ProgressOf(id))
         \cup {[id |-> id, configured |-> configured, committed |-> committed]}

OnResizeConfigured(e) ==
    /\ e.ev = "resize_configured"
    /\ resizeProgress' = Observed(e.id, e.configured, NoSize)
    /\ UNCHANGED <<cacheVars, pending, call, frames, finishing>>

OnResizeDone(e) ==
    /\ e.ev = "resize_done"
    /\ clientRevision' = RaisedTo(e.rev)
    /\ resizeProgress' = Observed(e.id, e.configured, e.committed)
    /\ finishing' = [id |-> e.id, reply |-> ResizedReply(e)]
    /\ UNCHANGED <<cache, removed, pending, call, frames>>

\* A full frames channel drops the new frame.
OnFrame(e) ==
    /\ e.ev = "frame"
    /\ frames' = IF Len(frames) < FrameCap THEN Append(frames, e) ELSE frames
    /\ UNCHANGED <<cacheVars, pending, resizeProgress, call, finishing>>

OnCaptureAuthorized(e) ==
    /\ e.ev = "capture_authorized"
    /\ Finish(e.id, DoneReply(0))
    /\ UNCHANGED <<cacheVars, frames, finishing>>

HandlerRunning == finishing.reply # NoReply

\* The dispatch goroutine takes the next event.
Dispatch ==
    /\ dispatching /\ ~HandlerRunning
    /\ toClient # <<>>
    /\ toClient' = Tail(toClient)
    /\ LET e == Head(toClient) IN
          \/ OnSnapshot(e)
          \/ OnToplevelChanged(e)
          \/ OnToplevelRemoved(e)
          \/ OnRequestDone(e)
          \/ OnRequestFailed(e)
          \/ OnResizeConfigured(e)
          \/ OnResizeDone(e)
          \/ OnFrame(e)
          \/ OnCaptureAuthorized(e)
    /\ UNCHANGED <<toShell, nextRequestID, linkVars, view>>

\* The second critical section of OnRequestDone and OnResizeDone.
FinishHandler ==
    /\ dispatching /\ HandlerRunning
    /\ Finish(finishing.id, finishing.reply)
    /\ finishing' = [id |-> 0, reply |-> NoReply]
    /\ UNCHANGED <<wireVars, nextRequestID, cacheVars, frames, linkVars, view>>

-----------------------------------------------------------------------------
(***************************************************************************)
(* Callers.  A window operation takes its handle and its revision from a   *)
(* State the client returned, or names a handle blindly.                   *)
(***************************************************************************)
\* Mutant: send registers without the closedFlag test too.
AlwaysRegister(kind) == TRUE

\* AuthorizeCapture registers without the closedFlag test of send.
MayRegister(kind) == ~closedFlag \/ kind = "capture"

Begin(c, kind, handle, size) ==
    /\ call[c].pc = "idle" /\ linked
    /\ nextRequestID < MaxRequests
    /\ MayRegister(kind)
    /\ nextRequestID' = nextRequestID + 1
    /\ pending' = pending \cup {c}
    /\ call' = [call EXCEPT ![c] =
                  [pc |-> "registered", kind |-> kind, id |-> nextRequestID',
                   handle |-> handle, rev |-> view[c].rev, size |-> size,
                   list |-> {}, reply |-> NoReply]]
    /\ UNCHANGED <<wireVars, cacheVars, resizeProgress, frames, finishing, linkVars, view>>

RequestOf(c) == [kind |-> call[c].kind, id |-> call[c].id, handle |-> call[c].handle,
                 rev |-> call[c].rev, size |-> call[c].size]

Issue(c) ==
    /\ call[c].pc = "registered" /\ linked
    /\ toShell' = Append(toShell, RequestOf(c))
    /\ call' = [call EXCEPT ![c].pc = "waiting"]
    /\ UNCHANGED <<toClient, nextRequestID, pending, cacheVars, resizeProgress, frames,
                   finishing, linkVars, view>>

\* The socket refuses the request once the connection is broken.
IssueFails(c) ==
    /\ call[c].pc = "registered" /\ ~dispatching
    /\ pending' = pending \ {c}
    /\ call' = [call EXCEPT ![c] = NoCall]
    /\ UNCHANGED <<wireVars, nextRequestID, cacheVars, resizeProgress, frames, finishing,
                   linkVars, view>>

\* Mutant: the snapshot revives a removed window.
MergeReviving(cached, gone, snapshot) ==
    LET merged == {w \in snapshot :
                     \A k \in cached : k.handle = w.handle => k.rev < w.rev}
    IN {k \in cached : k.handle \notin Handles(merged)} \cup merged

\* mergeSnapshot: a removed handle is not revived, a newer entry wins.
MergeSnapshot(cached, gone, snapshot) ==
    LET merged == {w \in snapshot :
                     /\ w.handle \notin gone
                     /\ \A k \in cached : k.handle = w.handle => k.rev < w.rev}
    IN {k \in cached : k.handle \notin Handles(merged)} \cup merged

Waiting(c) == call[c].pc = "waiting"

\* An answered call returns.  Snapshot merges its list and reads the cache;
\* Activate, Move and Close read the cache with the client's own revision.
Receive(c) ==
    /\ Waiting(c) /\ call[c].reply # NoReply
    /\ IF call[c].reply.status = "done" /\ call[c].kind = "snapshot"
       THEN /\ cache' = MergeSnapshot(cache, removed, call[c].list)
            /\ view' = [view EXCEPT ![c] = [rev |-> call[c].reply.rev, windows |-> cache',
                                            full |-> TRUE]]
       ELSE /\ UNCHANGED cache
            /\ IF call[c].reply.status = "done" /\ call[c].kind \in {"activate", "move", "close"}
               THEN view' = [view EXCEPT ![c] = [rev |-> clientRevision, windows |-> cache,
                                                full |-> FALSE]]
               ELSE UNCHANGED view
    /\ call' = [call EXCEPT ![c] = NoCall]
    /\ UNCHANGED <<wireVars, nextRequestID, pending, removed, clientRevision,
                   resizeProgress, frames, finishing, linkVars>>

quietVars == <<wireVars, nextRequestID, cacheVars, frames, finishing, linkVars, view>>

\* The caller's deadline passes; an answer may be in the channel already.
Expire(c) ==
    /\ Waiting(c) /\ "expire" \in Faults
    /\ pending' = pending \ {c}
    /\ call' = [call EXCEPT ![c] = IF call[c].kind = "resize"
                                   THEN [call[c] EXCEPT !.pc = "expired"] ELSE NoCall]
    /\ UNCHANGED <<resizeProgress, quietVars>>

\* resizeTimeout reports and drops what was observed for this request.
ReportTimeout(c) ==
    /\ call[c].pc = "expired"
    /\ resizeProgress' = resizeProgress \ ProgressOf(call[c].id)
    /\ call' = [call EXCEPT ![c] = NoCall]
    /\ UNCHANGED <<pending, quietVars>>

\* The caller's context is cancelled before its deadline.
Cancel(c) ==
    /\ Waiting(c) /\ "cancel" \in Faults
    /\ pending' = pending \ {c}
    /\ call' = [call EXCEPT ![c] = NoCall]
    /\ UNCHANGED <<resizeProgress, quietVars>>

\* The select sees the closed channel: the call returns ErrClosed.  The code
\* leaves the entry for failAll, which finds nobody listening; here it goes now.
ReturnClosed(c) ==
    /\ Waiting(c) /\ closed
    /\ pending' = pending \ {c}
    /\ call' = [call EXCEPT ![c] = NoCall]
    /\ UNCHANGED <<resizeProgress, quietVars>>

CallerSteps(c) ==
    \/ Issue(c) \/ IssueFails(c) \/ Receive(c) \/ ReturnClosed(c) \/ ReportTimeout(c)

GivesUp(c) == Expire(c) \/ Cancel(c)

\* A reader of Frames takes the oldest buffered frame.
TakeFrame ==
    /\ frames # <<>>
    /\ frames' = Tail(frames)
    /\ UNCHANGED <<wireVars, nextRequestID, pending, cacheVars, resizeProgress, finishing,
                   linkVars, call, view>>

-----------------------------------------------------------------------------
(***************************************************************************)
(* The connection.                                                         *)
(***************************************************************************)
\* Dispatch returned an error between two handlers: the compositor is gone, or
\* the stream broke.
Lose ==
    /\ dispatching /\ ~HandlerRunning /\ "lose" \in Faults
    /\ dispatching' = FALSE
    /\ FailAll
    /\ UNCHANGED <<wireVars, nextRequestID, cacheVars, resizeProgress, frames, finishing,
                   closed, linked, view>>

\* Close closes the channel first ...
CloseStart ==
    /\ linked /\ ~closed /\ "close" \in Faults
    /\ closed' = TRUE
    /\ UNCHANGED <<wireVars, nextRequestID, pending, cacheVars, resizeProgress, frames,
                   finishing, dispatching, closedFlag, linked, call, view>>

\* ... then wakes every caller, closes the socket and waits for the dispatcher.
CloseFinish ==
    /\ linked /\ closed
    /\ FailAll
    /\ dispatching' = FALSE /\ linked' = FALSE
    /\ UNCHANGED <<wireVars, nextRequestID, cacheVars, resizeProgress, frames, finishing,
                   closed, view>>

ClientTypeOK ==
    /\ nextRequestID \in Nat /\ pending \subseteq Callers
    /\ cache \subseteq Toplevel /\ removed \subseteq Nat /\ clientRevision \in Nat
    /\ resizeProgress \subseteq Progress /\ frames \in Seq(FrameEvents)
    /\ dispatching \in BOOLEAN /\ closedFlag \in BOOLEAN
    /\ closed \in BOOLEAN /\ linked \in BOOLEAN
    /\ finishing \in [id : Nat, reply : Reply]
    /\ call \in [Callers -> Call] /\ view \in [Callers -> View]

=============================================================================
