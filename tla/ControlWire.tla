---------------------------- MODULE ControlWire ----------------------------
(***************************************************************************)
(* The one privileged Wayland connection of a session: the requests the    *)
(* control client sends to the shell module and the events the module      *)
(* sends back (src/protocol/wlvision-control.xml).  A Wayland socket       *)
(* neither loses nor reorders, so each direction is a FIFO queue.          *)
(*                                                                         *)
(* Titles, application ids, positions and reported geometry are left out   *)
(* of the messages: no property of the control plane tells them apart.     *)
(* The 64-bit revision, split into two words on the wire, is a natural.    *)
(***************************************************************************)
EXTENDS Naturals, Sequences

CONSTANTS
    Sizes,      \* window sizes the module accepts
    BadSize,    \* a size handle_resize refuses: zero, or above INT32_MAX
    NoSize      \* the absence of a size

ASSUME SizesAssumption == BadSize \notin Sizes /\ NoSize \notin Sizes /\ BadSize # NoSize

VARIABLES
    toShell,    \* requests sent and not yet handled by the module
    toClient    \* events sent and not yet dispatched by the client

wireVars == <<toShell, toClient>>

(***************************************************************************)
(* Requests.  A window operation names the window and the revision its     *)
(* caller saw; "input" stands for the pointer and key requests.            *)
(***************************************************************************)
WindowOps == {"activate", "move", "resize", "close"}
RequestKinds == WindowOps \cup {"snapshot", "input", "capture"}

Request == {q \in [kind : RequestKinds, id : Nat, handle : Nat, rev : Nat,
                   size : Sizes \cup {BadSize, NoSize}] :
              q.kind = "resize" => q.size # NoSize}

(***************************************************************************)
(* Events.                                                                 *)
(***************************************************************************)
Codes == {"stale_revision", "window_not_found", "invalid_argument"}

Toplevel == [handle : Nat, activated : BOOLEAN, mapped : BOOLEAN, rev : Nat]

SnapshotEvents   == [ev : {"snapshot"}, rev : Nat]
ChangedEvents    == [ev : {"toplevel_changed"}, window : Toplevel]
RemovedEvents    == [ev : {"toplevel_removed"}, handle : Nat]
DoneEvents       == [ev : {"request_done"}, id : Nat, rev : Nat]
FailedEvents     == [ev : {"request_failed"}, id : Nat, code : Codes]
ConfiguredEvents == [ev : {"resize_configured"}, id : Nat, configured : Sizes]
ResizeDoneEvents == [ev : {"resize_done"}, id : Nat, configured : Sizes,
                     committed : Sizes, rev : Nat]
FrameEvents      == [ev : {"frame"}, captureID : Nat, seq : Nat]
AuthorizedEvents == [ev : {"capture_authorized"}, id : Nat]

Event == SnapshotEvents \cup ChangedEvents \cup RemovedEvents \cup DoneEvents
         \cup FailedEvents \cup ConfiguredEvents \cup ResizeDoneEvents
         \cup FrameEvents \cup AuthorizedEvents

Handles(windows) == {w.handle : w \in windows}

WireTypeOK == toShell \in Seq(Request) /\ toClient \in Seq(Event)

=============================================================================
