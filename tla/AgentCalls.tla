----------------------------- MODULE AgentCalls -----------------------------
(***************************************************************************)
(* How one operation reaches a session: the host executes wlvision-call in *)
(* the container (internal/session/agent.go), the caller dials the agent's *)
(* socket, writes one request and waits for one reply (internal/rpc,       *)
(* cmd/wlvision-call), and the agent serves one connection at a time       *)
(* (cmd/wlvision-agent).                                                   *)
(*                                                                          *)
(* A call is named <<m, n>>: the n-th call of command m.  Its caller is a   *)
(* process of its own, so it may outlive the exec that started it, and its  *)
(* request may outlive the caller in the socket.                            *)
(***************************************************************************)
EXTENDS SessionWindows, Sequences, Functions

CONSTANTS
    Commands,       \* wlvision commands run on the host
    Shift,          \* the modifier the typing path holds
    Keys,           \* every other key and button
    Survives,       \* external: killing an exec leaves the process it started
    MaxWindows,     \* bound on handles
    MaxRevision,    \* applications change windows below this revision
    MaxFaults       \* bound on failures: of the engine, the connection, a caller

ASSUME CallsAssumption ==
    /\ Shift \notin Keys
    /\ Survives \in BOOLEAN
    /\ MaxWindows \in Nat /\ MaxRevision \in Nat /\ MaxFaults \in Nat

VARIABLES
    calls,      \* calls begun and not over: what they ask and how far they are
    queue,      \* connections of the socket, oldest first; the agent serves the first
    stage,      \* what the agent does with the first connection
    outcome,    \* the answer the agent is about to write
    held,       \* <<k, m>>: the compositor has k down, and m pressed it
    lifted,     \* <<k, m>>: m pressed k, and another command's release took it up
    typed,      \* what each command's keys produced: <<key, shifted, meddled>>
    acted,      \* the revision each command's window operation was executed at
    faults      \* failures so far

callVars == <<calls, queue, stage, outcome>>
seatVars == <<held, lifted, typed, acted>>

WindowOps == {"window", "close", "resize"}
SeatOps == {"motion", "press", "release"}

Request == [op : {"snapshot"}] 
           \cup [op : WindowOps, window : Nat, rev : Nat]
           \cup [op : {"motion"}] 
           \cup [op : {"press", "release"}, key : Keys \cup {Shift}]

Answer == [ok : BOOLEAN, rev : Nat, live : SUBSET Nat]
Failure == [ok |-> FALSE, rev |-> 0, live |-> {}]
Success == [ok |-> TRUE, rev |-> rev', live |-> live']

Calls == Commands \X Nat
\* starting: the exec runs, the caller has not dialled; sent: its request is in
\* the socket; hungup, abandoned: the caller is gone, before or after sending;
\* closed: the agent closed the connection without a reply.
Points == {"starting", "dialed", "sent", "hungup", "abandoned", "closed"}

CallsTypeOK ==
    /\ rev \in Nat /\ live \subseteq 1 .. given /\ given \in Nat
    /\ DOMAIN calls \subseteq Calls
    /\ \A i \in DOMAIN calls : calls[i] \in [request : Request, at : Points]
    /\ queue \in Seq(Calls)
    /\ Range(queue) = {i \in DOMAIN calls : calls[i].at \notin {"starting", "closed"}}
    /\ stage \in {"read", "resize", "respond"}
    /\ outcome \in Answer
    /\ held \subseteq (Keys \cup {Shift}) \X Commands
    /\ lifted \subseteq (Keys \cup {Shift}) \X Commands
    /\ typed \in [Commands -> Seq(Keys \X BOOLEAN \X BOOLEAN)]
    /\ acted \in [Commands -> Nat] /\ faults \in 0 .. MaxFaults

CallsInit ==
    /\ SessionInit
    /\ calls = << >> /\ queue = << >> /\ stage = "read" /\ outcome = Failure
    /\ held = {} /\ lifted = {}
    /\ typed = [m \in Commands |-> << >>] /\ acted = [m \in Commands |-> 0]
    /\ faults = 0

\* A failure no state of the model explains.
Fault == faults < MaxFaults /\ faults' = faults + 1

-----------------------------------------------------------------------------
(***************************************************************************)
(* wlvision-call.                                                          *)
(***************************************************************************)
Reaches(i, point) == calls' = [calls EXCEPT ![i].at = point]
Forget(i) == calls' = Restrict(calls, DOMAIN calls \ {i})

Dial(i) ==
    /\ calls[i].at = "starting"
    /\ Reaches(i, "dialed")
    /\ queue' = Append(queue, i)
    /\ UNCHANGED <<stage, outcome>>

WriteRequest(i) ==
    /\ calls[i].at = "dialed"
    /\ Reaches(i, "sent")
    /\ UNCHANGED <<queue, stage, outcome>>

\* What becomes of a call whose caller exits: its connection is closed, and a
\* request that was written stays in the socket.
Orphaned(i) ==
    CASE calls[i].at \in {"starting", "closed"} -> Forget(i)
      [] calls[i].at = "dialed" -> Reaches(i, "hungup")
      [] OTHER -> Reaches(i, "abandoned")

CallerAlive(i) == calls[i].at \notin {"hungup", "abandoned"}

-----------------------------------------------------------------------------
(***************************************************************************)
(* rpc.Server.Serve: one connection at a time.                             *)
(***************************************************************************)
\* The first connection of the queue is the one accepted.
Serving == stage = "read" /\ queue # << >>

Served == queue' = Tail(queue) /\ stage' = "read"

\* Mutant: a peer that sends nothing is read without a deadline.
DropWithoutDeadline ==
    /\ Serving /\ calls[Head(queue)].at = "hungup"
    /\ Forget(Head(queue))
    /\ Served
    /\ UNCHANGED outcome

\* The peer hung up, or the read ceiling passed and it had sent nothing.
DropConnection ==
    /\ Serving
    /\ \/ calls[Head(queue)].at = "hungup" /\ Forget(Head(queue))
       \/ calls[Head(queue)].at = "dialed" /\ Reaches(Head(queue), "closed")
    /\ Served
    /\ UNCHANGED outcome

-----------------------------------------------------------------------------
(***************************************************************************)
(* Agent.handle: the operation reaches the compositor, then its outcome is *)
(* reported.  An input operation that misses its budget has happened.      *)
(***************************************************************************)
\* Mutant: the operation is not compared with the session's revision.
AppliesToAny(request) == request.window \in live

Applies(request) == request.rev = rev /\ request.window \in live

Answers(answer) == outcome' = answer /\ stage' = "respond"

\* The modifier is the seat's, whoever pressed it.
Shifted == \E c \in Commands : <<Shift, c>> \in held

\* Another command holds the modifier, or has taken up the one m pressed.
Meddled(m) == <<Shift, m>> \in lifted \/ \E c \in Commands \ {m} : <<Shift, c>> \in held

\* Every press and release goes to the focused application as it comes.
Inject(m, request) ==
    LET key == request.key IN
    CASE request.op = "press" ->
            /\ held' = held \cup {<<key, m>>}
            /\ lifted' = lifted \ {<<key, m>>}
            /\ typed' = IF key = Shift THEN typed
                        ELSE [typed EXCEPT ![m] = Append(@, <<key, Shifted, Meddled(m)>>)]
      [] request.op = "release" ->
            /\ held' = {h \in held : h[1] # key}
            /\ lifted' = (lifted \cup {h \in held : h[1] = key}) \ {<<key, m>>}
            /\ UNCHANGED typed
      [] request.op = "motion" -> UNCHANGED <<held, lifted, typed>>

HandleSeat(m, request) ==
    /\ request.op \in SeatOps
    /\ Inject(m, request)
    /\ UNCHANGED <<sessionVars, acted>>
    /\ \/ Answers(Success) /\ UNCHANGED faults
       \/ Answers(Failure) /\ Fault

HandleSnapshot(request) ==
    /\ request.op = "snapshot"
    /\ UNCHANGED <<sessionVars, seatVars, faults>>
    /\ Answers(Success)

\* activate and move change the window; close asks the application to close it.
HandleWindow(m, request) ==
    /\ request.op \in {"window", "close"} /\ Applies(request)
    /\ acted' = [acted EXCEPT ![m] = rev]
    /\ IF request.op = "window" THEN Alters(request.window) ELSE UNCHANGED sessionVars
    /\ UNCHANGED <<held, lifted, typed, faults>>
    /\ Answers(Success)

\* The module configures the window and the agent waits for the commit.
HandleResize(m, request) ==
    /\ request.op = "resize" /\ Applies(request)
    /\ acted' = [acted EXCEPT ![m] = rev]
    /\ stage' = "resize"
    /\ UNCHANGED <<sessionVars, held, lifted, typed, outcome, faults>>

HandleRefused(request) ==
    /\ request.op \in WindowOps /\ ~Applies(request)
    /\ UNCHANGED <<sessionVars, seatVars, faults>>
    /\ Answers(Failure)

\* The control connection is gone, or the operation is not permitted.
HandleFails ==
    /\ Fault
    /\ UNCHANGED <<sessionVars, seatVars>>
    /\ Answers(Failure)

Handle ==
    /\ Serving /\ calls[Head(queue)].at \in {"sent", "abandoned"}
    /\ LET m == Head(queue)[1]
           request == calls[Head(queue)].request
       IN \/ HandleSeat(m, request)
          \/ HandleSnapshot(request)
          \/ HandleWindow(m, request)
          \/ HandleResize(m, request)
          \/ HandleRefused(request)
          \/ HandleFails
    /\ UNCHANGED <<calls, queue>>

Resized == calls[Head(queue)].request.window

\* The application commits the configured size.
ResizeCommitted ==
    /\ stage = "resize" /\ Resized \in live
    /\ Alters(Resized)
    /\ Answers(Success)
    /\ UNCHANGED <<calls, queue, seatVars, faults>>

\* The budget of the operation passes, or the window is gone.
ResizeEnds ==
    /\ stage = "resize"
    /\ Answers(Failure)
    /\ UNCHANGED <<sessionVars, calls, queue, seatVars, faults>>

-----------------------------------------------------------------------------
\* Applications open, change and close their windows.
ApplicationStep ==
    /\ \/ given < MaxWindows /\ Opens
       \/ \E h \in live : Disappears(h) \/ (rev < MaxRevision /\ Alters(h))
    /\ UNCHANGED <<callVars, seatVars, faults>>

=============================================================================
