-------------------------- MODULE PayloadReceiver --------------------------
(***************************************************************************)
(* How a payload enters a session: `wlvision inject` streams a binary or an *)
(* archive into the container (session.Service.Inject), where a receiver    *)
(* (wlvision-supervisor receive, internal/inject) stages it and renames it  *)
(* into the payload directory.  Several receivers may work there at once.   *)
(*                                                                          *)
(* A header of an archive counts as one byte, a file's body as its size.    *)
(***************************************************************************)
EXTENDS Naturals, Sequences, FiniteSets, SequencesExt, FiniteSetsExt

CONSTANTS
    Receivers,      \* injections, each with its receiver in the container
    Payloads,       \* what each of them sends, and under which name
    Names,          \* final names
    MaxBytes,       \* limit of a stream, and of the sizes its headers declare
    MaxFiles,       \* limit of an archive's entries
    Nothing,        \* an absent payload
    MaxFaults       \* bound on receivers that fail or die, and on hosts that die

Kinds == {"binary", "tar"}
Types == {"file", "dir", "other"}

\* What is sent: an archive, or a binary as the one file it is.
ArchiveEntry == [path : Seq(STRING), type : Types, size : Nat]
Sendable == [kind : Kinds, name : Names, entries : Seq(ArchiveEntry)]

\* What is staged, and what is installed of it.
Node == [path : Seq(STRING), dir : BOOLEAN]
Installable == [from : Receivers, kind : Kinds, tree : SUBSET Node, size : 0 .. MaxBytes]

ASSUME PayloadAssumption ==
    /\ {MaxBytes, MaxFiles, MaxFaults} \subseteq Nat
    /\ Names \subseteq STRING
    /\ Nothing \notin Installable
    /\ \A p \in Payloads :
        /\ p \in [Receivers -> Sendable]
        /\ \A r \in Receivers : p[r].kind = "binary" => Len(p[r].entries) = 1

VARIABLES
    sent,       \* what each injection sends
    flow,       \* bytes its receiver can read before the end of the stream
    host,       \* the injection on the host: sending, gone, or what it was told
    at,         \* where its receiver is
    entry,      \* archive entries read
    declared,   \* bytes of the files extracted
    staging,    \* the staged tree: nodes by receiver, Nothing when there is none
    payload     \* the payload directory: what each name holds

vars == <<sent, flow, host, at, entry, declared, staging, payload>>

Faults == Cardinality({r \in Receivers : host[r] = "gone" \/ at[r] \in {"broken", "littered", "killed"}})

\* A binary is one file of that size without a header.
Header(e) == IF e.type = "file" THEN 1 + e.size ELSE 1
Bytes(p) == IF p.kind = "binary" THEN p.entries[1].size
            ELSE FoldLeft(LAMBDA n, e : n + Header(e), 0, p.entries)

TypeOK ==
    /\ \A r \in Receivers : sent[r].kind \in Kinds /\ sent[r].name \in Names
    /\ \A r \in Receivers : flow[r] \in 0 .. Bytes(sent[r])
    /\ host \in [Receivers -> {"sending", "gone", "stored", "refused"}]
    /\ at \in [Receivers -> {"new", "staging", "staged", "tidying",
                              "done", "rejected", "broken", "littered", "killed"}]
    /\ \A r \in Receivers : entry[r] \in 0 .. Len(sent[r].entries)
    /\ \A r \in Receivers : declared[r] <= MaxBytes
    /\ \A r \in Receivers : staging[r] # Nothing => staging[r] \subseteq Node
    /\ \A n \in Names : payload[n] # Nothing => payload[n].from \in Receivers

Init ==
    /\ sent \in Payloads
    /\ flow = [r \in Receivers |-> Bytes(sent[r])]
    /\ host = [r \in Receivers |-> "sending"] /\ at = [r \in Receivers |-> "new"]
    /\ entry = [r \in Receivers |-> 0] /\ declared = [r \in Receivers |-> 0]
    /\ staging = [r \in Receivers |-> Nothing]
    /\ payload = [n \in Names |-> Nothing]

-----------------------------------------------------------------------------
(***************************************************************************)
(* The archive, entry by entry.                                            *)
(***************************************************************************)
Upcoming(r) == sent[r].entries[entry[r] + 1]
Before(r) == SubSeq(sent[r].entries, 1, entry[r])
Consumed(r) == FoldLeft(LAMBDA n, e : n + Header(e), 0, Before(r))

\* Mutant: what is read stops at the limit itself.
ReadableToLimit(r) == Min({flow[r], MaxBytes})

\* The hard bound on what is read is one byte above the limit.
Readable(r) == Min({flow[r], MaxBytes + 1})

\* Mutant: a payload of exactly the limit is one too many.
LimitReached(r) == Readable(r) >= MaxBytes

OverLimit(r) == Readable(r) > MaxBytes

\* Mutant: a name may be declared twice.
ConflictsButForTwins(r, e) ==
    \E i \in 1 .. entry[r] :
        LET earlier == Before(r)[i] IN
        \/ earlier.type = "file" /\ IsStrictPrefix(earlier.path, e.path)
        \/ e.type = "file" /\ IsStrictPrefix(e.path, earlier.path)

\* pathTree.check: a name is declared once, and no file encloses an entry.
Conflicts(r, e) ==
    \E i \in 1 .. entry[r] :
        LET earlier == Before(r)[i] IN
        /\ earlier.path # << >>
        /\ \/ earlier.path = e.path
           \/ earlier.type = "file" /\ IsStrictPrefix(earlier.path, e.path)
           \/ e.type = "file" /\ IsStrictPrefix(e.path, earlier.path)

IsRoot(e) == e.path = << >> /\ e.type = "dir"

\* Why an entry is refused before anything of it is written: there are too many,
\* its name or its type is not allowed, its size is beyond the limit, or it
\* conflicts with an earlier entry.
RefusedHeader(r, e) ==
    \/ entry[r] + 1 > MaxFiles
    \/ /\ ~IsRoot(e)
       /\ \/ e.path = << >> \/ e.type = "other"
          \/ e.type = "file" /\ declared[r] + e.size > MaxBytes
          \/ Conflicts(r, e)

\* ensureDirs: the entry and every parent it does not declare.
Created(e) ==
    {[path |-> SubSeq(e.path, 1, n), dir |-> n < Len(e.path) \/ e.type = "dir"] :
        n \in 1 .. Len(e.path)}

-----------------------------------------------------------------------------
\* What the host is told, if it is there to hear it.
Told(r, answer) == host' = IF host[r] = "sending" THEN [host EXCEPT ![r] = answer] ELSE host

Begin(r) ==
    /\ at[r] = "new"
    /\ at' = [at EXCEPT ![r] = "staging"]
    /\ staging' = [staging EXCEPT ![r] = {}]
    /\ UNCHANGED <<sent, flow, host, entry, declared, payload>>

\* The header of the next entry can be read, and its body.
HeaderArrives(r) == Readable(r) > Consumed(r)
BodyArrives(r) == Readable(r) >= Consumed(r) + Header(Upcoming(r))

\* What is being written while nothing has been said about it yet: the file of a
\* binary, or of an entry that was not refused by its header.
InHand(r) ==
    IF at[r] # "staging" THEN {}
    ELSE IF sent[r].kind = "binary" THEN {[path |-> <<sent[r].name>>, dir |-> FALSE]}
    ELSE IF entry[r] < Len(sent[r].entries) /\ HeaderArrives(r) /\ ~RefusedHeader(r, Upcoming(r))
    THEN Created(Upcoming(r)) ELSE {}

\* What a removal that is cut short may leave: a file keeps its directories.
Leftovers(r) ==
    {left \in SUBSET (staging[r] \cup InHand(r)) :
        \A node \in left : \A n \in 1 .. Len(node.path) - 1 :
            \E parent \in left : parent.path = SubSeq(node.path, 1, n)}

\* Mutant: a refusal leaves the staging directory.
RejectsLeavingStaging(r, where) ==
    /\ at' = [at EXCEPT ![r] = where]
    /\ Told(r, "refused")
    /\ UNCHANGED <<sent, flow, entry, declared, staging, payload>>

\* Every refusal removes the staging directory, but the error of the removal is
\* dropped: what it could not remove stays behind, and the answer is the same.
Rejects(r, where) ==
    /\ \/ /\ at' = [at EXCEPT ![r] = where]
          /\ staging' = [staging EXCEPT ![r] = Nothing]
       \/ /\ Faults < MaxFaults
          /\ at' = [at EXCEPT ![r] = "littered"]
          /\ \E left \in Leftovers(r) : staging' = [staging EXCEPT ![r] = left]
    /\ Told(r, "refused")
    /\ UNCHANGED <<sent, flow, entry, declared, payload>>

\* A binary is read up to its limit; one more byte is one too many.
ReceiveBinary(r) ==
    /\ at[r] = "staging" /\ sent[r].kind = "binary"
    /\ \/ OverLimit(r) /\ Rejects(r, "rejected")
       \/ /\ ~OverLimit(r)
          /\ staging' = [staging EXCEPT ![r] = {[path |-> <<sent[r].name>>, dir |-> FALSE]}]
          /\ declared' = [declared EXCEPT ![r] = Readable(r)]
          /\ at' = [at EXCEPT ![r] = "staged"]
          /\ UNCHANGED <<sent, flow, host, entry, payload>>

ReceiveEntry(r) ==
    /\ at[r] = "staging" /\ sent[r].kind = "tar"
    /\ entry[r] < Len(sent[r].entries) /\ HeaderArrives(r)
    /\ LET e == Upcoming(r) IN
       \/ (RefusedHeader(r, e) \/ ~BodyArrives(r)) /\ Rejects(r, "rejected")
       \/ /\ ~RefusedHeader(r, e) /\ BodyArrives(r)
          /\ staging' = [staging EXCEPT ![r] = @ \cup Created(e)]
          /\ declared' = [declared EXCEPT ![r] = @ + (IF e.type = "file" THEN e.size ELSE 0)]
          /\ entry' = [entry EXCEPT ![r] = @ + 1]
          /\ UNCHANGED <<sent, flow, host, at, payload>>

\* The archive ends where its stream does, between two entries; the limit
\* covers every byte that was read.
EndArchive(r) ==
    /\ at[r] = "staging" /\ sent[r].kind = "tar"
    /\ entry[r] = Len(sent[r].entries) \/ ~HeaderArrives(r)
    /\ \/ OverLimit(r) /\ Rejects(r, "rejected")
       \/ /\ ~OverLimit(r)
          /\ at' = [at EXCEPT ![r] = "staged"]
          /\ UNCHANGED <<sent, flow, host, entry, declared, staging, payload>>

-----------------------------------------------------------------------------
(***************************************************************************)
(* One rename installs the payload.  rename(2) replaces a file by a file    *)
(* and an empty directory by a directory.                                   *)
(***************************************************************************)
Holds(n, kind) == payload[n] # Nothing /\ payload[n].kind = kind
Renames(r) ==
    LET n == sent[r].name IN
    \/ payload[n] = Nothing
    \/ sent[r].kind = "binary" /\ Holds(n, "binary")
    \/ sent[r].kind = "tar" /\ Holds(n, "tar") /\ payload[n].tree = {}

Installed(r) == [from |-> r, kind |-> sent[r].kind, tree |-> staging[r], size |-> declared[r]]

\* A binary leaves its staging directory behind for a moment.
Install(r) ==
    /\ at[r] = "staged"
    /\ \/ ~Renames(r) /\ Rejects(r, "rejected")
       \/ /\ Renames(r)
          /\ payload' = [payload EXCEPT ![sent[r].name] = Installed(r)]
          /\ IF sent[r].kind = "tar"
             THEN /\ at' = [at EXCEPT ![r] = "done"]
                  /\ staging' = [staging EXCEPT ![r] = Nothing]
                  /\ Told(r, "stored")
             ELSE /\ at' = [at EXCEPT ![r] = "tidying"]
                  /\ staging' = [staging EXCEPT ![r] = {}]
                  /\ UNCHANGED host
          /\ UNCHANGED <<sent, flow, entry, declared>>

Tidy(r) ==
    /\ at[r] = "tidying"
    /\ at' = [at EXCEPT ![r] = "done"]
    /\ staging' = [staging EXCEPT ![r] = Nothing]
    /\ Told(r, "stored")
    /\ UNCHANGED <<sent, flow, entry, declared, payload>>

-----------------------------------------------------------------------------
Working(r) == at[r] \in {"staging", "staged", "tidying"}

\* A write, the rename or the removal of the staging directory fails; the
\* directory is removed after it, unless its removal is what fails, or it has
\* only just been made and its mode cannot be set.
FileSystemFails(r) ==
    /\ Faults < MaxFaults
    /\ \/ Working(r) /\ Rejects(r, "broken")
       \/ /\ at[r] \in {"new", "tidying"}
          /\ at' = [at EXCEPT ![r] = "broken"]
          /\ staging' = [staging EXCEPT ![r] = {}]
          /\ Told(r, "refused")
          /\ UNCHANGED <<sent, flow, entry, declared, payload>>

\* The receiver dies, in the middle of a write or of a removal too.
ReceiverDies(r) ==
    /\ Faults < MaxFaults
    /\ Working(r)
    /\ at' = [at EXCEPT ![r] = "killed"]
    /\ \E left \in Leftovers(r) : staging' = [staging EXCEPT ![r] = left]
    /\ Told(r, "refused")
    /\ UNCHANGED <<sent, flow, entry, declared, payload>>

\* The host stops sending: the receiver reads the end of the stream early.
HostStops(r) ==
    /\ Faults < MaxFaults
    /\ host[r] = "sending"
    /\ host' = [host EXCEPT ![r] = "gone"]
    /\ \E n \in (IF sent[r].kind = "tar" THEN Consumed(r) ELSE 0) .. flow[r] :
          flow' = [flow EXCEPT ![r] = n]
    /\ UNCHANGED <<sent, at, entry, declared, staging, payload>>

Next ==
    \E r \in Receivers :
        \/ Begin(r) \/ ReceiveBinary(r) \/ ReceiveEntry(r) \/ EndArchive(r)
        \/ Install(r) \/ Tidy(r)
        \/ FileSystemFails(r) \/ ReceiverDies(r) \/ HostStops(r)

Spec == Init /\ [][Next]_vars

-----------------------------------------------------------------------------
(***************************************************************************)
(* Properties.                                                             *)
(***************************************************************************)
\* The tree an archive describes, read as a whole: the files and directories it
\* declares and their parents.
Described(p) ==
    IF p.kind = "binary" THEN {[path |-> <<p.name>>, dir |-> FALSE]}
    ELSE UNION {Created(p.entries[i]) : i \in DOMAIN p.entries}

\* What the payload directory shows under a name is all of one payload, never a
\* part of one or a mixture of two, as long as its host sent it to the end:
\* "a partial or rejected payload is never visible there".
VisibleIsWhole ==
    \A n \in Names :
        LET p == payload[n] IN
        p # Nothing /\ host[p.from] # "gone" =>
            /\ p.tree = Described(sent[p.from])
            /\ p.kind = "binary" => p.size = Bytes(sent[p.from])

\* An archive that may be installed: no name twice, no file above another
\* entry, nothing but files and directories, within both limits.  The order of
\* the entries does not matter.
Acceptable(p) ==
    /\ Bytes(p) <= MaxBytes
    /\ p.kind = "tar" =>
        /\ Len(p.entries) <= MaxFiles
        /\ \A i, j \in DOMAIN p.entries :
            LET e == p.entries[i]  f == p.entries[j] IN
            /\ e.type = "file" \/ e.type = "dir"
            /\ e.path = << >> => e.type = "dir"
            /\ i # j /\ e.path = f.path => e.path = << >>
            /\ e.type = "file" => ~IsStrictPrefix(e.path, f.path)

\* The receiver, which sees one entry after the other, stages exactly the
\* payloads that are acceptable as a whole: what it refuses is unacceptable, or
\* its name is taken by what a rename cannot replace.
StagesExactlyTheAcceptable ==
    \A r \in Receivers : host[r] # "gone" =>
        /\ at[r] \in {"staged", "tidying", "done"} => Acceptable(sent[r])
        /\ at[r] = "rejected" => ~Acceptable(sent[r]) \/ ~Renames(r)

\* A staging directory belongs to a receiver that is working, was killed or
\* could not remove it, or it is an empty one whose receiver could not prepare
\* or remove it.  A host that is told its payload is stored finds none, and
\* staged files stay only of a payload that was never installed.
NoStagingIsLeft ==
    \A r \in Receivers :
        /\ staging[r] # Nothing =>
              \/ Working(r) \/ at[r] \in {"killed", "littered"}
              \/ at[r] = "broken" /\ staging[r] = {}
        /\ host[r] = "stored" => staging[r] = Nothing
        /\ staging[r] \notin {Nothing, {}} =>
              \A n \in Names : payload[n] # Nothing => payload[n].from # r

\* receiver.go: "so a partial or rejected payload is never visible there".
RefusedIsInvisible ==
    \A n \in Names : payload[n] # Nothing =>
        LET r == payload[n].from IN
        at[r] \notin {"broken", "littered"} /\ payload[n].size = declared[r] /\ flow[r] = Bytes(sent[r])

=============================================================================
