---------------------------- MODULE AgentCapture ----------------------------
(***************************************************************************)
(* How the agent takes a picture: it authorizes its connection, asks the   *)
(* compositor to fill a buffer of its own and waits for the answer         *)
(* (cmd/wlvision-agent, internal/capture/screenshot.go and shm.go).  The    *)
(* compositor's answers carry no request number: the source keeps one      *)
(* request in flight and three channels of one message each.               *)
(***************************************************************************)
EXTENDS Naturals, Sequences, FiniteSets

CONSTANTS
    Sizes,          \* sizes of the output
    FrameCap,       \* capacity of the frames channel
    MaxCaptures,    \* bound on captures
    MaxChanges,     \* bound on changes of the output's size or format
    MaxFrames,      \* repaints nobody asked for happen below this number
    MaxTimeouts     \* bound on deadlines that pass

ASSUME CaptureAssumption ==
    /\ {FrameCap, MaxCaptures, MaxChanges, MaxFrames, MaxTimeouts} \subseteq Nat

VARIABLES
    agent,      \* where the agent is: see Stages
    captureNo,  \* captures begun; the current one's number is its authorization's
    source,     \* the size and the format announced, and whether the source is retired
    answers,    \* which of the channels complete, retry and failed hold a message
    buffers,    \* captures whose buffer is mapped
    frames,     \* the frames channel of the control client
    replies,    \* what each finished capture was answered
    toAgent,    \* events on the wire
    toModule,   \* requests on the wire
    output,     \* the output's size
    task,       \* capture the compositor has to serve at its next repaint, or 0
    granted,    \* number of the last authorization
    repaints,   \* repaints numbered so far
    written,    \* capture number |-> repaint that filled its buffer
    misled,     \* the compositor announced a format the agent does not decode
    changes, timeouts

compositorVars == <<output, task, granted, repaints, written, misled, changes>>
agentVars == <<agent, captureNo, source, answers, buffers, frames, replies, timeouts>>
vars == <<compositorVars, agentVars, toAgent, toModule>>

Stages == {"binding", "setup", "idle", "authorizing", "sizing", "capturing",
           "storing", "numbering", "exited"}
Channels == {"complete", "retry", "failed"}
NoSize == 0
Reply == [ok : BOOLEAN, id : Nat, sequence : Nat]

TypeOK ==
    /\ agent \in Stages /\ captureNo \in 0 .. MaxCaptures
    /\ source \in [size : Sizes \cup {NoSize}, format : BOOLEAN, retired : BOOLEAN]
    /\ answers \subseteq Channels /\ buffers \subseteq 1 .. captureNo
    /\ Len(frames) <= FrameCap /\ replies \in Seq(Reply)
    /\ output \in Sizes /\ task \in 0 .. captureNo /\ granted \in 0 .. captureNo
    /\ repaints \in Nat /\ written \in [1 .. MaxCaptures -> 0 .. repaints]
    /\ misled \in BOOLEAN
    /\ changes \in 0 .. MaxChanges /\ timeouts \in 0 .. MaxTimeouts

Init ==
    /\ agent = "binding" /\ captureNo = 0 /\ answers = {} /\ buffers = {}
    /\ source = [size |-> NoSize, format |-> FALSE, retired |-> FALSE]
    /\ frames = << >> /\ replies = << >> /\ toAgent = << >> /\ toModule = << >>
    /\ output \in Sizes /\ task = 0 /\ granted = 0 /\ repaints = 0
    /\ written = [n \in 1 .. MaxCaptures |-> 0] /\ misled = FALSE
    /\ changes = 0 /\ timeouts = 0

-----------------------------------------------------------------------------
(***************************************************************************)
(* The compositor.                                                         *)
(***************************************************************************)
Tell(events) == toAgent' = toAgent \o events

\* A source is announced the size and the format; so is every change of them.
ServeCreate(q) ==
    /\ q.ev = "create"
    /\ misled' \in BOOLEAN
    /\ Tell(<<[ev |-> IF misled' THEN "malformed" ELSE "format"],
              [ev |-> "size", size |-> output]>>)
    /\ UNCHANGED <<output, task, granted, repaints, written, changes>>

ServeAuthorize(q) ==
    /\ q.ev = "authorize"
    /\ granted' = q.n
    /\ Tell(<<[ev |-> "authorized", n |-> q.n]>>)
    /\ UNCHANGED <<output, task, repaints, written, misled, changes>>

\* A buffer of another size is refused with retry; a second task with failed.
ServeCapture(q) ==
    /\ q.ev = "capture"
    /\ CASE q.size # output -> Tell(<<[ev |-> "retry"]>>) /\ UNCHANGED task
         [] q.size = output /\ task # 0 -> Tell(<<[ev |-> "failed"]>>) /\ UNCHANGED task
         [] OTHER -> task' = q.n /\ UNCHANGED toAgent
    /\ UNCHANGED <<output, granted, repaints, written, misled, changes>>

\* A buffer destroyed before its repaint fails the task.
ServeDestroy(q) ==
    /\ q.ev = "destroy"
    /\ IF task = q.n THEN task' = 0 /\ Tell(<<[ev |-> "failed"]>>)
       ELSE UNCHANGED <<task, toAgent>>
    /\ UNCHANGED <<output, granted, repaints, written, misled, changes>>

ModuleServes ==
    /\ toModule # << >>
    /\ toModule' = Tail(toModule)
    /\ LET q == Head(toModule) IN
       ServeCreate(q) \/ ServeAuthorize(q) \/ ServeCapture(q) \/ ServeDestroy(q)
    /\ UNCHANGED agentVars

\* The capture is complete before the repaint is reported (output_frame).
Repaint ==
    /\ repaints < MaxFrames \/ task # 0
    /\ repaints' = repaints + 1
    /\ task' = 0
    /\ written' = [n \in DOMAIN written |-> IF n = task THEN repaints' ELSE written[n]]
    /\ Tell((IF task # 0 THEN <<[ev |-> "complete"]>> ELSE << >>)
            \o <<[ev |-> "frame", id |-> granted, sequence |-> repaints']>>)
    /\ UNCHANGED <<output, granted, misled, changes, agentVars, toModule>>

SourceExists == agent # "binding" /\ \A i \in 1 .. Len(toModule) : toModule[i].ev # "create"

OutputChanges ==
    /\ SourceExists
    /\ changes < MaxChanges /\ changes' = changes + 1
    /\ \/ /\ output' \in Sizes \ {output}
          /\ Tell(<<[ev |-> "size", size |-> output']>>)
          /\ UNCHANGED misled
       \/ /\ misled' = TRUE
          /\ Tell(<<[ev |-> "malformed"]>>)
          /\ UNCHANGED output
    /\ UNCHANGED <<task, granted, repaints, written, agentVars, toModule>>

-----------------------------------------------------------------------------
(***************************************************************************)
(* The dispatch goroutine.  A channel that is full keeps what it has.      *)
(***************************************************************************)
\* Mutant: a retry is taken for progress and nobody is told.
OnAnswerIgnoringRetry(e) ==
    /\ e.ev \in Channels
    /\ answers' = answers \cup ({e.ev} \ {"retry"})
    /\ UNCHANGED <<agent, source, frames>>

OnAnswer(e) ==
    /\ e.ev \in Channels
    /\ answers' = answers \cup {e.ev}
    /\ UNCHANGED <<agent, source, frames>>

\* A size or format the code cannot use goes where the failed captures go.
OnAnnouncement(e) ==
    \/ /\ e.ev = "size" /\ source' = [source EXCEPT !.size = e.size]
       /\ UNCHANGED <<agent, answers, frames>>
    \/ /\ e.ev = "format" /\ source' = [source EXCEPT !.format = TRUE]
       /\ UNCHANGED <<agent, answers, frames>>
    \/ /\ e.ev = "malformed" /\ answers' = answers \cup {"failed"}
       /\ UNCHANGED <<agent, source, frames>>

OnFrame(e) ==
    /\ e.ev = "frame"
    /\ frames' = IF Len(frames) < FrameCap THEN Append(frames, e) ELSE frames
    /\ UNCHANGED <<agent, source, answers>>

\* AuthorizeCapture returns; an authorization nobody waits for is dropped.
OnAuthorized(e) ==
    /\ e.ev = "authorized"
    /\ agent' = IF agent = "authorizing" /\ e.n = captureNo THEN "sizing" ELSE agent
    /\ UNCHANGED <<source, answers, frames>>

Dispatch ==
    /\ agent \notin {"exited"} /\ toAgent # << >>
    /\ toAgent' = Tail(toAgent)
    /\ LET e == Head(toAgent) IN
       OnAnswer(e) \/ OnAnnouncement(e) \/ OnFrame(e) \/ OnAuthorized(e)
    /\ UNCHANGED <<captureNo, buffers, replies, timeouts, compositorVars, toModule>>

-----------------------------------------------------------------------------
(***************************************************************************)
(* The agent.                                                              *)
(***************************************************************************)
Request(q) == toModule' = Append(toModule, q)
quietVars == <<compositorVars, toAgent>>

\* Serve: listen, bind the capture path, create the source.
Attach ==
    /\ agent = "binding" /\ agent' = "setup"
    /\ Request([ev |-> "create"])
    /\ UNCHANGED <<captureNo, source, answers, buffers, frames, replies, timeouts, quietVars>>

Announced == source.size # NoSize /\ source.format

\* Ready once the source is usable: markReady follows WaitForSetup.
SetUp ==
    /\ agent = "setup"
    /\ \/ Announced /\ agent' = "idle" /\ UNCHANGED <<answers, timeouts>>
       \/ /\ ~Announced /\ "failed" \in answers
          /\ answers' = answers \ {"failed"} /\ agent' = "exited" /\ UNCHANGED timeouts
       \/ /\ ~Announced /\ timeouts < MaxTimeouts
          /\ timeouts' = timeouts + 1 /\ agent' = "exited" /\ UNCHANGED answers
    /\ UNCHANGED <<captureNo, source, buffers, frames, replies, quietVars, toModule>>

StartCapture ==
    /\ agent = "idle" /\ captureNo < MaxCaptures
    /\ agent' = "authorizing"
    /\ captureNo' = captureNo + 1
    /\ Request([ev |-> "authorize", n |-> captureNo'])
    /\ UNCHANGED <<source, answers, buffers, frames, replies, timeouts, quietVars>>

Answered(reply) == replies' = Append(replies, reply) /\ agent' = "idle"
Failure == [ok |-> FALSE, id |-> 0, sequence |-> 0]

\* The budget of the request passes before the authorization.
AuthorizationTimesOut ==
    /\ agent = "authorizing" /\ timeouts < MaxTimeouts
    /\ timeouts' = timeouts + 1
    /\ Answered(Failure)
    /\ UNCHANGED <<captureNo, source, answers, buffers, frames, quietVars, toModule>>

\* Capture: a buffer of the announced size, then the request; a retired source
\* gives the buffer back.
RequestCapture ==
    /\ agent = "sizing"
    /\ IF source.retired
       THEN Answered(Failure) /\ UNCHANGED <<buffers, toModule>>
       ELSE /\ agent' = "capturing"
            /\ buffers' = buffers \cup {captureNo}
            /\ Request([ev |-> "capture", n |-> captureNo, size |-> source.size])
            /\ UNCHANGED replies
    /\ UNCHANGED <<captureNo, source, answers, frames, timeouts, quietVars>>

\* Every way out of Capture destroys its buffer.
ReleaseBuffer ==
    /\ buffers' = buffers \ {captureNo}
    /\ Request([ev |-> "destroy", n |-> captureNo])

\* The select takes any channel that holds a message.
TakeAnswer ==
    /\ agent = "capturing"
    /\ \E channel \in answers :
        /\ answers' = answers \ {channel}
        /\ IF channel = "complete" THEN agent' = "storing" /\ UNCHANGED replies
           ELSE Answered(Failure)
    /\ ReleaseBuffer
    /\ UNCHANGED <<captureNo, source, frames, timeouts, quietVars>>

\* Mutant: a capture that timed out leaves the source in use.
GiveUpKeepingSource ==
    /\ agent = "capturing" /\ timeouts < MaxTimeouts
    /\ timeouts' = timeouts + 1
    /\ Answered(Failure)
    /\ ReleaseBuffer
    /\ UNCHANGED <<captureNo, source, answers, frames, quietVars>>

\* The answer to this request could not be told from the next one's.
GiveUp ==
    /\ agent = "capturing" /\ timeouts < MaxTimeouts
    /\ timeouts' = timeouts + 1
    /\ source' = [source EXCEPT !.retired = TRUE]
    /\ Answered(Failure)
    /\ ReleaseBuffer
    /\ UNCHANGED <<captureNo, answers, frames, quietVars>>

\* Decode, encode and write the file; one that cannot be written is a failure.
StoreFile ==
    /\ agent = "storing"
    /\ \/ agent' = "numbering" /\ UNCHANGED replies
       \/ Answered(Failure)
    /\ UNCHANGED <<captureNo, source, answers, buffers, frames, timeouts, quietVars, toModule>>

\* One frame is taken if there is one; it is the oldest.
ReadFrame ==
    /\ agent = "numbering"
    /\ IF frames = << >>
       THEN Answered([ok |-> TRUE, id |-> captureNo, sequence |-> 0]) /\ UNCHANGED frames
       ELSE LET observed == Head(frames) IN
            /\ frames' = Tail(frames)
            /\ Answered([ok |-> TRUE, sequence |-> observed.sequence,
                         id |-> IF observed.id # 0 THEN observed.id ELSE captureNo])
    /\ UNCHANGED <<captureNo, source, answers, buffers, timeouts, quietVars, toModule>>

AgentRuns ==
    Attach \/ SetUp \/ RequestCapture \/ TakeAnswer \/ StoreFile \/ ReadFrame

Next ==
    \/ ModuleServes \/ Repaint \/ OutputChanges
    \/ Dispatch
    \/ AgentRuns \/ StartCapture
    \/ AuthorizationTimesOut \/ GiveUp

Spec == Init /\ [][Next]_vars

\* The processes run and the compositor repaints; no deadline has to pass.
FairSpec ==
    /\ Spec
    /\ WF_vars(ModuleServes) /\ WF_vars(Dispatch) /\ WF_vars(AgentRuns)
    /\ WF_vars(task # 0 /\ Repaint)

-----------------------------------------------------------------------------
(***************************************************************************)
(* Properties.                                                             *)
(***************************************************************************)
\* A picture the agent reports was painted into the buffer of its own request.
OwnPicture ==
    \A n \in 1 .. captureNo :
        (n <= Len(replies) /\ replies[n].ok) \/ (n = captureNo /\ agent \in {"storing", "numbering"})
            => written[n] # 0

\* The answer the agent takes is never one to an earlier request, as long as
\* the compositor announces formats the agent knows: one it
\* does not know goes into the channel of the failed captures, and ends the
\* capture in flight without retiring the source.
PictureIsItsOwn == ~misled => OwnPicture

\* Without a deadline a capture is answered: by the repaint, a retry or a failure.
CaptureReturns ==
    (agent \in {"authorizing", "sizing", "capturing"}) ~> (agent \in {"idle", "exited"})

\* main.go: "its identifier travels back with the frame that it forced".
ReplyNamesOwnFrame ==
    \A n \in 1 .. Len(replies) :
        replies[n].ok => replies[n].id = n /\ replies[n].sequence \in {0, written[n]}

=============================================================================
