----------------------------- MODULE Interaction -----------------------------
(***************************************************************************)
(* The window and input commands of wlvision (cmd/wlvision/interaction.go) *)
(* and the input service they call (internal/input): several commands act  *)
(* on one session at a time, each a sequence of calls of its own.          *)
(***************************************************************************)
EXTENDS AgentCalls, FiniteSets, SequencesExt

CONSTANTS
    Scenarios,      \* which operations the commands run beside each other
    Text            \* the characters `wlvision type` is given: <<key, shifted>>

\* Click, Tap and Type own both halves of a key's transition.
Paired == {"click", "tap", "type"}
Resolving == WindowOps \cup {"click"}
\* `wlvision key --state` sends one half; pointer and scroll are such calls too.
Raw == {"press", "release"}
Kinds == Resolving \cup Raw \cup {"windows", "tap", "type"}

ASSUME InteractionAssumption ==
    /\ Scenarios \subseteq [Commands -> Kinds]
    /\ Text \in Seq(Keys \X BOOLEAN) /\ Text # << >>

VARIABLE host       \* what each command is doing

vars == <<sessionVars, callVars, seatVars, faults, host>>

\* idle, ready to call, waiting for call n, over, or killed.
Command == [pc : {"idle", "ready", "waiting", "done", "killed"}, n : Nat,
            kind : Kinds, key : Keys \cup {Shift}, window : Nat, named : Nat,
            todo : Seq(Request), pressed : Seq(Keys \cup {Shift}),
            cleaning : BOOLEAN, ok : BOOLEAN, released : BOOLEAN]

TypeOK == CallsTypeOK /\ host \in [Commands -> Command]

-----------------------------------------------------------------------------
(***************************************************************************)
(* The calls an operation is made of.                                      *)
(***************************************************************************)
Press(key) == [op |-> "press", key |-> key]
Release(key) == [op |-> "release", key |-> key]

\* Mutant: the key goes down before the shift it needs.
StrokeShiftLate(c) ==
    IF c[2] THEN <<Press(c[1]), Press(Shift), Release(c[1]), Release(Shift)>>
    ELSE <<Press(c[1]), Release(c[1])>>

Stroke(c) ==
    IF c[2] THEN <<Press(Shift), Press(c[1]), Release(c[1]), Release(Shift)>>
    ELSE <<Press(c[1]), Release(c[1])>>

\* What a command calls before it has seen the session.
FirstCalls(goal) ==
    CASE goal.kind \in Resolving \cup {"windows"} -> <<[op |-> "snapshot"]>>
      [] goal.kind = "tap" -> <<Press(goal.key), Release(goal.key)>>
      [] goal.kind = "type" -> FlattenSeq([i \in DOMAIN Text |-> Stroke(Text[i])])
      [] goal.kind \in Raw -> <<[op |-> goal.kind, key |-> goal.key]>>

\* What it calls once the snapshot resolved its window.
ResolvedCalls(goal, revision) ==
    IF goal.kind = "click"
    THEN <<[op |-> "motion"], Press(goal.key), Release(goal.key)>>
    ELSE <<[op |-> goal.kind, window |-> goal.window, rev |-> revision]>>

Releases(keys) == [i \in DOMAIN keys |-> Release(keys[i])]

-----------------------------------------------------------------------------
Idle(kind) ==
    [pc |-> "idle", n |-> 0, kind |-> kind, key |-> Shift, window |-> 0,
     named |-> 0, todo |-> << >>, pressed |-> << >>, cleaning |-> FALSE,
     ok |-> TRUE, released |-> FALSE]

Init ==
    /\ CallsInit
    /\ \E kind \in Scenarios : host = [m \in Commands |-> Idle(kind[m])]

Begins(m, h) ==
    /\ host[m].pc = "idle"
    /\ host' = [host EXCEPT ![m] = [h EXCEPT !.pc = "ready", !.todo = FirstCalls(h)]]
    /\ UNCHANGED <<sessionVars, callVars, seatVars, faults>>

StartWindows(m) ==
    /\ host[m].kind = "windows"
    /\ Begins(m, host[m])

\* activate, move, resize, close and click name a window, and a revision the
\* user has seen or 0 for none.
Naming(m, h) ==
    \E window \in 1 .. given, named \in {0, rev} :
        Begins(m, [h EXCEPT !.window = window, !.named = named])

StartWindowOperation(m) ==
    /\ host[m].kind \in WindowOps
    /\ Naming(m, host[m])

StartClick(m) ==
    /\ host[m].kind = "click"
    /\ \E button \in Keys : Naming(m, [host[m] EXCEPT !.key = button])

\* Any keycode or name, the modifier's too.
StartTap(m) ==
    /\ host[m].kind = "tap"
    /\ \E key \in Keys \cup {Shift} : Begins(m, [host[m] EXCEPT !.key = key])

StartType(m) ==
    /\ host[m].kind = "type"
    /\ Begins(m, host[m])

\* One transition of any key, and it owns nothing.
StartRaw(m) ==
    /\ host[m].kind \in Raw
    /\ \E key \in Keys \cup {Shift} : Begins(m, [host[m] EXCEPT !.key = key])

Start(m) ==
    \/ StartWindows(m) \/ StartWindowOperation(m) \/ StartClick(m)
    \/ StartTap(m) \/ StartType(m) \/ StartRaw(m)

Pending(m) == Head(host[m].todo)

\* A press is recorded before it is sent: its answer may be lost.
Recorded(h) ==
    IF Head(h.todo).op = "press" /\ h.kind \in Paired
    THEN Append(h.pressed, Head(h.todo).key) ELSE h.pressed

\* session.Service.Call executes wlvision-call.
Issue(m) ==
    LET call == <<m, host[m].n + 1>> IN
    /\ host[m].pc = "ready"
    /\ calls' = [i \in DOMAIN calls \cup {call} |->
            IF i = call THEN [request |-> Pending(m), at |-> "starting"] ELSE calls[i]]
    /\ host' = [host EXCEPT ![m].pc = "waiting", ![m].n = @ + 1,
                            ![m].pressed = Recorded(host[m])]
    /\ UNCHANGED <<sessionVars, queue, stage, outcome, seatVars, faults>>

Current(m) == <<m, host[m].n>>
Waits(i) == host[i[1]].pc = "waiting" /\ host[i[1]].n = i[2]

-----------------------------------------------------------------------------
(***************************************************************************)
(* What an answer does to the command that waits for it.                   *)
(***************************************************************************)
Continue(h, todo) ==
    [h EXCEPT !.todo = todo, !.pc = IF todo = << >> THEN "done" ELSE "ready"]

\* Service.resolve: the window must be there, at the revision the caller named.
Resolve(h, state) ==
    IF h.window \in state.live /\ h.named \in {0, state.rev}
    THEN Continue(h, ResolvedCalls(h, state.rev))
    ELSE [Continue(h, << >>) EXCEPT !.ok = FALSE]

Succeeds(h, state) ==
    LET request == Head(h.todo) IN
    CASE request.op = "snapshot" /\ h.kind \in Resolving -> Resolve(h, state)
      [] request.op = "release" ->
            [Continue(h, Tail(h.todo)) EXCEPT !.pressed = Front(@), !.released = TRUE]
      [] OTHER -> Continue(h, Tail(h.todo))

\* Every key this command pressed is released; a release is tried again only
\* by Type, and once.
AfterFailure(h) ==
    CASE h.cleaning -> Tail(h.todo)
      [] Head(h.todo).op = "release" /\ h.kind # "type" -> << >>
      [] OTHER -> Releases(h.pressed)

\* Mutant: a release that fails is not the operation's failure.
FailsQuietly(h) ==
    [Continue(h, AfterFailure(h)) EXCEPT !.ok = @ /\ Head(h.todo).op = "release",
                                         !.cleaning = TRUE]

Fails(h) == [Continue(h, AfterFailure(h)) EXCEPT !.ok = FALSE, !.cleaning = TRUE]

Hears(m, answer) ==
    host' = [host EXCEPT ![m] = IF answer.ok THEN Succeeds(@, answer) ELSE Fails(@)]

\* The answer of a call whose command has gone on reaches nobody.
Reported(i, answer) == IF Waits(i) THEN Hears(i[1], answer) ELSE UNCHANGED host

-----------------------------------------------------------------------------
(***************************************************************************)
(* The answer on its way: the agent writes it, the caller prints it, the   *)
(* exec ends.                                                              *)
(***************************************************************************)
Respond ==
    /\ stage = "respond"
    /\ Forget(Head(queue))
    /\ Served
    /\ IF CallerAlive(Head(queue)) THEN Reported(Head(queue), outcome) ELSE UNCHANGED host
    /\ UNCHANGED <<sessionVars, outcome, seatVars, faults>>

\* The connection was closed without a reply.
CallerReadsEnd(i) ==
    /\ calls[i].at = "closed"
    /\ Forget(i)
    /\ Reported(i, Failure)
    /\ UNCHANGED <<sessionVars, queue, stage, outcome, seatVars, faults>>

\* The caller's own deadline passes, or it dies.
CallerGivesUp(i) ==
    /\ Fault
    /\ CallerAlive(i)
    /\ Orphaned(i)
    /\ Reported(i, Failure)
    /\ UNCHANGED <<sessionVars, queue, stage, outcome, seatVars>>

\* The context of the call ends (an interrupt, a resize's patience, the two
\* seconds of a release) and the exec is killed.  A context that releases keys
\* is shared by all of them.
HostGivesUp(m) ==
    /\ Fault
    /\ host[m].pc = "waiting"
    /\ Current(m) \in DOMAIN calls
    /\ IF Survives THEN UNCHANGED calls ELSE CallerAlive(Current(m)) /\ Orphaned(Current(m))
    /\ host' = [host EXCEPT ![m] =
            IF @.cleaning THEN [Continue(@, << >>) EXCEPT !.ok = FALSE] ELSE Fails(@)]
    /\ UNCHANGED <<sessionVars, queue, stage, outcome, seatVars>>

\* The engine cannot execute, or the session is not in a state to be called.
ExecFails(m) ==
    /\ Fault
    /\ host[m].pc = "ready"
    /\ host' = [host EXCEPT ![m] = Fails([@ EXCEPT !.pressed = Recorded(host[m])])]
    /\ UNCHANGED <<sessionVars, callVars, seatVars>>

\* The command itself is killed: nothing is cleaned up.
Killed(m) ==
    /\ Fault
    /\ host[m].pc \in {"ready", "waiting"}
    /\ host' = [host EXCEPT ![m].pc = "killed"]
    /\ UNCHANGED <<sessionVars, callVars, seatVars>>

-----------------------------------------------------------------------------
CallStep(i) ==
    \/ (Dial(i) \/ WriteRequest(i)) /\ UNCHANGED <<sessionVars, seatVars, faults, host>>
    \/ CallerReadsEnd(i)
    \/ CallerGivesUp(i)

AgentStep ==
    \/ DropConnection /\ UNCHANGED <<sessionVars, seatVars, faults, host>>
    \/ (Handle \/ ResizeCommitted \/ ResizeEnds) /\ UNCHANGED host
    \/ Respond

HostStep(m) ==
    \/ Start(m) \/ Issue(m)
    \/ HostGivesUp(m) \/ ExecFails(m) \/ Killed(m)

\* Bound: applications act only beside commands that look at windows, for the
\* others read and write nothing that an application changes.
Looking == \E m \in Commands : host[m].kind \in Resolving \cup {"windows"}

\* Every command is over and so is every call it left behind.
Finished ==
    /\ \A m \in Commands : host[m].pc \in {"done", "killed"}
    /\ calls = << >>
    /\ UNCHANGED vars

Next ==
    \/ \E m \in Commands : HostStep(m)
    \/ \E i \in DOMAIN calls : CallStep(i)
    \/ AgentStep
    \/ Looking /\ ApplicationStep /\ UNCHANGED host
    \/ Finished

Spec == Init /\ [][Next]_vars

\* Processes run and the agent's deadlines pass; a caller may stop for good
\* once it has dialled, and nothing says applications do anything.
Fairness ==
    /\ \A m \in Commands : WF_vars(Issue(m))
    /\ WF_vars(\E i \in DOMAIN calls : Dial(i) /\ UNCHANGED <<sessionVars, seatVars, faults, host>>)
    /\ WF_vars(\E i \in DOMAIN calls : CallerReadsEnd(i))
    /\ WF_vars(AgentStep)

FairSpec == Spec /\ Fairness

-----------------------------------------------------------------------------
(***************************************************************************)
(* Properties.                                                             *)
(***************************************************************************)
Over(m) == host[m].pc = "done"

\* A command that pressed and released keys and reports success has left none
\* down, whatever the other commands and their stragglers did.
SuccessLeavesNothingHeld ==
    \A m \in Commands : Over(m) /\ host[m].ok /\ host[m].kind \in Paired
        => \A k \in Keys \cup {Shift} : <<k, m>> \notin held

\* What the keys produced is the text, but for the shift of a character whose
\* press found another command's hand on the modifier.
Renders(produced, text) ==
    /\ Len(produced) = Len(text)
    /\ \A i \in DOMAIN text :
          /\ produced[i][1] = text[i][1]
          /\ ~produced[i][3] => produced[i][2] = text[i][2]

\* A `wlvision type` that reports success pressed the keys of the text it was
\* given, each once and in order, and each character has the shift it needs
\* and no other, unless at its press another command held the modifier or had
\* released the one this text pressed: whatever other texts, taps and single
\* transitions of any key go on beside it.
SuccessTypedText ==
    \A m \in Commands : Over(m) /\ host[m].ok /\ host[m].kind = "type"
        => Renders(typed[m], Text)

\* A window operation whose user named a revision is executed at that revision
\* or not at all.
ActsOnNamedRevision ==
    \A m \in Commands : host[m].named # 0 => acted[m] \in {0, host[m].named}

\* A click, tap or text that was cleaned up has no key down once its calls are
\* over: "so a failed click cannot leave the button held".
FailureLeavesNothingHeld ==
    \A m \in Commands :
        /\ Over(m) /\ host[m].kind \in Paired /\ host[m].released
        /\ \A i \in DOMAIN calls : i[1] # m
        => \A k \in Keys \cup {Shift} : <<k, m>> \notin held

\* Every command ends.
CommandReturns ==
    \A m \in Commands : (host[m].pc = "ready") ~> (host[m].pc \in {"done", "killed"})

=============================================================================
