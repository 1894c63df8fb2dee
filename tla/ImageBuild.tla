----------------------------- MODULE ImageBuild -----------------------------
(***************************************************************************)
(* `wlvision image build`: a manifest is loaded, planned and staged into a  *)
(* build context (internal/manifest), and the container engine builds and   *)
(* tags an image from that context (internal/session/image.go).  Builds run *)
(* beside each other, and people go on working in the checkout.             *)
(*                                                                          *)
(* A path is a sequence of names from the root; file modes, the text of the *)
(* Containerfile and directories without files are left out.                *)
(***************************************************************************)
EXTENDS Naturals, Sequences, FiniteSets, SequencesExt, FiniteSetsExt, Functions

CONSTANTS
    Builds,         \* invocations
    Scenarios,      \* what each of them asks for, and the host's file tree
    Repo,           \* the manifest's directory
    Reserved,       \* targets a session owns (/run, /proc, /sys, /dev)
    Credentials,    \* names no source may have or be under
    Temporary,      \* staging in a directory of the build's own
    Default,        \* the tag the manifest's digest produces
    Nowhere,        \* no path, no image
    Directories,    \* directories --staging may name
    Images,         \* images the engine may hold under the base's reference
    Held,           \* what it holds: references to images
    MaxDepth,       \* depth of the trees that are copied
    MaxEdits,       \* bound on files rewritten or removed
    MaxFaults       \* bound on failures, killed builds and moved references

\* A file tree: what has something below it is a directory, and the target of a
\* link, its own links resolved, is no link.
FileTree(t) ==
    /\ IsFiniteSet(DOMAIN t)
    /\ \A p \in DOMAIN t : p \in Seq(STRING) /\ p # Nowhere
    /\ << >> \in DOMAIN t /\ t[<< >>].type = "dir"
    /\ \A p \in DOMAIN t \ {<< >>} : Front(p) \in DOMAIN t /\ t[Front(p)].type = "dir"
    /\ \A p \in DOMAIN t :
          t[p].type = "link" /\ t[p].to \in DOMAIN t => t[t[p].to].type # "link"

Fields == {"image", "own", "digest", "sources", "modules", "writable"}

Written(m) ==
    /\ DOMAIN m = Fields /\ m = [x \in Fields |-> m[x]]
    /\ m.sources \in Seq([from : Seq(STRING), to : Seq(STRING)])
    /\ m.modules \in Seq(Seq(STRING))

Asked(q) == Written(q.manifest) /\ (q.staging = Temporary \/ q.staging \in Directories)

ASSUME BuildAssumption ==
    /\ {MaxDepth, MaxEdits, MaxFaults} \subseteq Nat
    /\ Builds \cap Directories = {}
    /\ \A s \in Scenarios : FileTree(s.tree) /\ \A b \in Builds : Asked(s.request[b])

VARIABLES
    tree,       \* the host's nodes: files, directories, links, others
    gone,       \* those that were removed
    edited,     \* the files that were rewritten
    request,    \* what each build was asked for
    build,      \* where it is
    contexts,   \* build contexts, by directory; a build names its temporary one
    tags,       \* what the engine holds: images by reference
    faults

vars == <<tree, gone, edited, request, build, contexts, tags, faults>>
hostVars == <<tree, gone, edited>>

\* One function before another: the other's value where the first has none.
Over(f, g) == [x \in DOMAIN f \cup DOMAIN g |-> IF x \in DOMAIN f THEN f[x] ELSE g[x]]
Put(g, key, value) == Over([k \in {key} |-> value], g)

-----------------------------------------------------------------------------
(***************************************************************************)
(* Paths.                                                                  *)
(***************************************************************************)
There(p) == p \in DOMAIN tree \ gone
Is(p, type) == There(p) /\ tree[p].type = type
Children(p) == {q \in DOMAIN tree \ gone : q # << >> /\ Front(q) = p}

\* filepath.EvalSymlinks of one more element.
Enter(p, name) ==
    LET q == Append(p, name) IN
    IF p = Nowhere \/ ~There(q) THEN Nowhere
    ELSE IF Is(q, "link") THEN IF There(tree[q].to) THEN tree[q].to ELSE Nowhere
    ELSE q

Real(p) == FoldLeft(Enter, << >>, p)

-----------------------------------------------------------------------------
(***************************************************************************)
(* The manifest: what Load accepts, and what Plan makes of it.             *)
(***************************************************************************)
\* A reference carries its own digest, or base.digest pins what it must be.
BasePinned(m) == m.own <=> m.digest = Nowhere

SourceUsable(source) ==
    LET real == Real(source.from) IN
    /\ real # Nowhere /\ IsPrefix(Repo, real) /\ (Is(real, "file") \/ Is(real, "dir"))
    /\ \A n \in Len(Repo) + 1 .. Len(real) : real[n] \notin Credentials

TargetsFree(m) ==
    \A i \in DOMAIN m.sources : LET to == m.sources[i].to IN
        /\ \A taken \in m.writable \cup Reserved : ~IsPrefix(taken, to)
        /\ \A j \in DOMAIN m.sources \ {i} : m.sources[j].to # to

\* The nearest ancestor that is a Go module.
ModuleRoot ==
    LET holding == {n \in 0 .. Len(Repo) : Is(SubSeq(Repo, 1, n) \o <<"go.mod">>, "file")}
    IN IF holding = {} THEN Repo ELSE SubSeq(Repo, 1, Max(holding))

\* A sibling checkout.
ModuleUsable(from) ==
    LET real == Real(from) IN
    /\ real # Nowhere /\ Is(real, "dir") /\ Is(Append(real, "go.mod"), "file")
    /\ ModuleRoot # << >> => IsPrefix(Front(ModuleRoot), real)

Valid(m) ==
    /\ BasePinned(m)
    /\ \A i \in DOMAIN m.sources : SourceUsable(m.sources[i])
    /\ TargetsFree(m)
    /\ \A i \in DOMAIN m.modules : ModuleUsable(m.modules[i])

\* What is copied, from where, to which place of the context and of the image.
\* A module's place in the image is fixed by the plan.
Layers(m) ==
    [i \in DOMAIN m.sources |->
        [from |-> Real(m.sources[i].from), to |-> m.sources[i].to,
         at |-> <<"src", i, Last(m.sources[i].from)>>]]
    \o [i \in DOMAIN m.modules |->
        LET real == Real(m.modules[i]) IN
        [from |-> real, to |-> <<"src", Last(real)>>, at |-> <<"modules", i, Last(real)>>]]

\* Mutant: the fingerprint leaves out what is copied.
CanonicalWithoutSources(m) == [m EXCEPT !.digest = Nowhere, !.sources = << >>]

\* The fingerprint that names the image covers what is declared, not the image
\* id the base must have and not what the files hold.
Canonical(m) == [m EXCEPT !.digest = Nowhere]

TagOf(b) == IF request[b].tag = Default THEN Canonical(request[b].manifest) ELSE request[b].tag

-----------------------------------------------------------------------------
NoContext == [there |-> FALSE, recipe |-> Nowhere, files |-> << >>]
Idle == [pc |-> "idle", layers |-> << >>, todo |-> << >>, began |-> {}, lost |-> {},
         made |-> Nowhere, reported |-> Nowhere]

Init ==
    /\ \E s \in Scenarios : request = s.request /\ tree = s.tree
    /\ gone = {} /\ edited = {}
    /\ build = [b \in Builds |-> Idle]
    /\ contexts = [d \in Builds \cup Directories |-> NoContext]
    /\ tags = Held
    /\ faults = 0

Step(b, s) == build' = [build EXCEPT ![b] = s]
At(b, pc) == build[b].pc = pc
Reaches(b, pc) == Step(b, [build[b] EXCEPT !.pc = pc])
Place(b) == IF request[b].staging = Temporary THEN b ELSE request[b].staging

Load(b) ==
    /\ At(b, "idle")
    /\ Reaches(b, IF Valid(request[b].manifest) THEN "loaded" ELSE "refused")
    /\ UNCHANGED <<hostVars, request, contexts, tags, faults>>

\* Every path is resolved again; then the context's directory is made.
Plan(b) ==
    LET layers == Layers(request[b].manifest) IN
    /\ At(b, "loaded")
    /\ IF \E i \in DOMAIN layers : ~There(layers[i].from)
       THEN Reaches(b, "refused") /\ UNCHANGED contexts
       ELSE /\ Step(b, [build[b] EXCEPT !.pc = "planned", !.layers = layers, !.began = edited,
                                      !.lost = gone])
            /\ contexts' = [contexts EXCEPT ![Place(b)].there = TRUE]
    /\ UNCHANGED <<hostVars, request, tags, faults>>

\* A base the engine must already hold is compared with the pinned id.
CheckBase(b) ==
    LET m == request[b].manifest
        held == m.own \/ (m.image \in DOMAIN tags /\ tags[m.image] = m.digest)
    IN
    /\ At(b, "planned")
    /\ Reaches(b, IF held THEN "pinned" ELSE "failed")
    /\ UNCHANGED <<hostVars, request, contexts, tags, faults>>

-----------------------------------------------------------------------------
(***************************************************************************)
(* Stage: the recipe first, then one tree after the other.                 *)
(***************************************************************************)
Item(from, at, rel, via) == [from |-> from, at |-> at, rel |-> rel, via |-> via]

StageRecipe(b) ==
    /\ At(b, "pinned")
    /\ contexts' = [contexts EXCEPT ![Place(b)].recipe = request[b].manifest]
    /\ Step(b, [build[b] EXCEPT !.pc = "staging",
            !.todo = [i \in DOMAIN @ \cup DOMAIN build[b].layers |->
                        Item(build[b].layers[i].from, build[b].layers[i].at, << >>, {})]])
    /\ UNCHANGED <<hostVars, request, tags, faults>>

Upcoming(b) == Head(build[b].todo)
Root(b) == LET at == Upcoming(b).at IN
    build[b].layers[CHOOSE i \in DOMAIN build[b].layers : build[b].layers[i].at = at].from

Cycles(item) == tree[item.from].to \in item.via

\* A link may be followed inside the tree that is being copied, and not to a
\* directory it is being followed through.
Followable(b) ==
    LET item == Upcoming(b) IN
    There(tree[item.from].to) /\ IsPrefix(Root(b), tree[item.from].to) /\ ~Cycles(item)

WalkLink(b) ==
    LET item == Upcoming(b)  to == tree[item.from].to IN
    /\ Is(item.from, "link")
    /\ IF Followable(b)
       THEN Step(b, [build[b] EXCEPT !.todo =
                <<Item(to, item.at, item.rel, item.via \cup {to})>> \o Tail(@)])
       ELSE Reaches(b, "failed")
    /\ UNCHANGED contexts

\* Mutant: every entry of a directory is walked.
WalkedAll(p) == Children(p)

Walked(p) == {q \in Children(p) : ~(Last(q) = ".git" /\ Is(q, "dir"))}

WalkDirectory(b) ==
    LET item == Upcoming(b)
        Entry(q) == Item(q, item.at, Append(item.rel, Last(q)), item.via)
    IN
    /\ Is(item.from, "dir")
    /\ Step(b, [build[b] EXCEPT !.todo =
            FoldSet(LAMBDA q, items : <<Entry(q)>> \o items, Tail(@), Walked(item.from))])
    /\ UNCHANGED contexts

\* A file is copied aside and renamed into place.
CopyFile(b) ==
    LET item == Upcoming(b)
        content == [of |-> item.from, rewritten |-> item.from \in edited]
    IN
    /\ Is(item.from, "file")
    /\ contexts' = [contexts EXCEPT ![Place(b)].files = Put(@, <<item.at, item.rel>>, content)]
    /\ Step(b, [build[b] EXCEPT !.todo = Tail(@)])

\* It is gone, or neither a file nor a directory.
Unreadable(b) ==
    /\ ~There(Upcoming(b).from) \/ Is(Upcoming(b).from, "other")
    /\ Reaches(b, "failed")
    /\ UNCHANGED contexts

Walk(b) ==
    /\ At(b, "staging") /\ build[b].todo # << >>
    /\ WalkLink(b) \/ WalkDirectory(b) \/ CopyFile(b) \/ Unreadable(b)
    /\ UNCHANGED <<hostVars, request, tags, faults>>

Staged(b) ==
    /\ At(b, "staging") /\ build[b].todo = << >>
    /\ Reaches(b, "building")
    /\ UNCHANGED <<hostVars, request, contexts, tags, faults>>

-----------------------------------------------------------------------------
(***************************************************************************)
(* The engine reads the context, builds, and moves the tag; its identifier  *)
(* is then asked for by the tag.                                            *)
(***************************************************************************)
\* One COPY line: what the context holds below its path.
Copied(layer, files) ==
    LET rels == {key[2] : key \in {k \in DOMAIN files : k[1] = layer.at}} IN
    [t \in {layer.to \o rel : rel \in rels} |->
        files[<<layer.at, SubSeq(t, Len(layer.to) + 1, Len(t))>>]]

\* A later COPY replaces what an earlier one left.
Filesystem(m, files) ==
    FoldLeft(LAMBDA done, layer : Over(Copied(layer, files), done), << >>, Layers(m))

EngineReads(b) ==
    LET context == contexts[Place(b)]  m == context.recipe IN
    /\ At(b, "building")
    /\ IF m.own \/ m.image \in DOMAIN tags
       THEN Step(b, [build[b] EXCEPT !.pc = "tagging",
                !.made = [recipe |-> m, base |-> IF m.own THEN m.image ELSE tags[m.image],
                          files |-> Filesystem(m, context.files)]])
       ELSE Reaches(b, "failed")
    /\ UNCHANGED <<hostVars, request, contexts, tags, faults>>

EngineTags(b) ==
    /\ At(b, "tagging")
    /\ tags' = Put(tags, TagOf(b), build[b].made)
    /\ Reaches(b, "inspecting")
    /\ UNCHANGED <<hostVars, request, contexts, faults>>

\* A temporary context is removed after a build that succeeded.
Inspect(b) ==
    /\ At(b, "inspecting")
    /\ Step(b, [build[b] EXCEPT !.pc = "done", !.reported = tags[TagOf(b)]])
    /\ contexts' = IF Place(b) = b THEN [contexts EXCEPT ![b] = NoContext] ELSE contexts
    /\ UNCHANGED <<hostVars, request, tags, faults>>

-----------------------------------------------------------------------------
Fault == faults < MaxFaults /\ faults' = faults + 1
Working(b) == build[b].pc \in {"planned", "pinned", "staging", "building", "tagging", "inspecting"}

\* The disk is full, the context of the command ends, the engine fails: what
\* was staged stays.
Fails(b) ==
    /\ Fault /\ Working(b)
    /\ Reaches(b, "failed")
    /\ UNCHANGED <<hostVars, request, contexts, tags>>

Edits == Cardinality(edited) + Cardinality(gone)

HostEdits(p) ==
    /\ Is(p, "file") /\ Edits < MaxEdits
    /\ edited' = edited \cup {p}
    /\ UNCHANGED <<tree, gone, request, build, contexts, tags, faults>>

HostRemoves(p) ==
    /\ Is(p, "file") /\ Edits < MaxEdits
    /\ gone' = gone \cup {p}
    /\ UNCHANGED <<tree, edited, request, build, contexts, tags, faults>>

\* Somebody else pulls, builds or tags the base.
ReferenceMoves(reference) ==
    /\ Fault
    /\ \E image \in Images \ {tags[reference]} : tags' = [tags EXCEPT ![reference] = image]
    /\ UNCHANGED <<hostVars, request, build, contexts>>

-----------------------------------------------------------------------------
Advances(b) ==
    \/ Load(b) \/ Plan(b) \/ CheckBase(b)
    \/ StageRecipe(b) \/ Walk(b) \/ Staged(b)
    \/ EngineReads(b) \/ EngineTags(b) \/ Inspect(b)

Next ==
    \/ \E b \in Builds : Advances(b) \/ Fails(b)
    \/ \E p \in DOMAIN tree : HostEdits(p) \/ HostRemoves(p)
    \/ \E reference \in DOMAIN Held : ReferenceMoves(reference)

Spec == Init /\ [][Next]_vars

-----------------------------------------------------------------------------
(***************************************************************************)
(* Properties.                                                             *)
(***************************************************************************)
TypeOK ==
    /\ gone \subseteq DOMAIN tree /\ edited \subseteq DOMAIN tree
    /\ \A b \in Builds :
        /\ build[b].pc \in {"idle", "loaded", "planned", "pinned", "staging", "building",
                            "tagging", "inspecting", "done", "refused", "failed"}
        /\ \A i \in DOMAIN build[b].todo : build[b].todo[i].from \in DOMAIN tree
    /\ \A d \in DOMAIN contexts : contexts[d].there \in BOOLEAN
    /\ faults \in 0 .. MaxFaults

\* What a name below a copied tree means, read from the tree itself: links are
\* followed inside it, .git directories are not there.
Below(root, p, name) ==
    LET q == Enter(p, name) IN
    IF \/ q = Nowhere
       \/ name = ".git" /\ tree[Append(p, name)].type = "dir"
       \/ q # Append(p, name) /\ ~IsPrefix(root, q)
    THEN Nowhere ELSE q

Means(layer, rel) ==
    LET at[n \in 0 .. Len(rel)] ==
            IF n = 0 THEN layer.from ELSE Below(layer.from, at[n - 1], rel[n])
    IN at[Len(rel)]

Within(layer, t) == SubSeq(t, Len(layer.to) + 1, Len(t))

Rels == BoundedSeq({Last(p) : p \in DOMAIN tree \ {<< >>}}, MaxDepth)

\* The engine has just built from a context nobody else assembles.
OwnImage(b) == At(b, "tagging") /\ Place(b) = b

\* The declarations that have a file for a place in the image.
Declaring(layers, t) ==
    {i \in DOMAIN layers :
        /\ IsPrefix(layers[i].to, t)
        /\ LET p == Means(layers[i], Within(layers[i], t)) IN p # Nowhere /\ Is(p, "file")}

\* The files of an image are those its sources and modules have, seen through the
\* links inside them, the last declaration's where two meet; none is older than
\* the build.
ImageIsTheTree ==
    \A b \in Builds : OwnImage(b) =>
        LET layers == build[b].layers  files == build[b].made.files IN
        /\ \A t \in DOMAIN files :
            /\ files[t].of \in gone \/ \E i \in Declaring(layers, t) :
                  i = Max(Declaring(layers, t)) /\ files[t].of = Means(layers[i], Within(layers[i], t))
            /\ files[t].of \in build[b].began => files[t].rewritten
        /\ \A i \in DOMAIN layers, rel \in Rels :
            Declaring(layers, layers[i].to \o rel) # {} => layers[i].to \o rel \in DOMAIN files

\* No two builds share a context, and nobody gives another image the tag that a
\* manifest produces.
Apart ==
    /\ \A b, c \in Builds : Place(b) = Place(c) => b = c
    /\ \A b \in Builds : LET produced == Canonical(request[b].manifest) IN
          produced \notin DOMAIN Held /\ \A c \in Builds : request[c].tag # produced

\* The image a build reports under the tag its manifest produces holds what that
\* manifest declares, whichever build of such a manifest moved the tag last.
ReportedIsOwnManifest ==
    Apart => \A b \in Builds : At(b, "done") /\ request[b].tag = Default =>
        LET built == build[b].reported.recipe  m == request[b].manifest IN
        /\ built.sources = m.sources /\ built.modules = m.modules
        /\ built.image = m.image /\ built.writable = m.writable

\* build.go: "a locally built base is pinned the same way a registry digest pins
\* one".
BaseIsPinned ==
    \A b \in Builds : build[b].made # Nowhere /\ ~request[b].manifest.own
        => build[b].made.base = request[b].manifest.digest

\* image.go: "a manifest names what goes in, and nothing else can", wherever the
\* context is assembled: a file the host no longer had when the build began is
\* not in the image.
NothingElseGoesIn ==
    \A b \in Builds : build[b].made # Nowhere =>
        \A t \in DOMAIN build[b].made.files :
            build[b].made.files[t].of \notin build[b].lost

=============================================================================
