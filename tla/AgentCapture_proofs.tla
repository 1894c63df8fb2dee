------------------------ MODULE AgentCapture_proofs ------------------------
(***************************************************************************)
(* Proofs about the agent's captures: its type invariant, and that an      *)
(* answer without a number is nevertheless the answer to the request in    *)
(* flight, for every number of captures, changes and deadlines.            *)
(***************************************************************************)
EXTENDS AgentCapture, SequenceTheorems, TLAPS

(***************************************************************************)
(* What is on the wires.                                                   *)
(***************************************************************************)
Event == [ev : {"format", "malformed", "retry", "failed", "complete"}]
         \cup [ev : {"size"}, size : Sizes]
         \cup [ev : {"authorized"}, n : Nat]
         \cup [ev : {"frame"}, id : Nat, sequence : Nat]

Query == [ev : {"create"}]
         \cup [ev : {"authorize", "destroy"}, n : 1 .. captureNo]
         \cup [ev : {"capture"}, n : 1 .. captureNo, size : Sizes \cup {NoSize}]

\* Some message of a kind in T is in the sequence; at most one is.
In(s) == {s[i] : i \in 1 .. Len(s)}
Has(s, T) == \E e \in In(s) : e.ev \in T
AtMostOne(s, T) == \A i, j \in 1 .. Len(s) : s[i].ev \in T /\ s[j].ev \in T => i = j

WireTypeOK ==
    /\ toAgent \in Seq(Event) /\ toModule \in Seq(Query) /\ frames \in Seq(Event)
    /\ \A e \in In(frames) : e.ev = "frame"

(***************************************************************************)
(* The inductive invariant.                                                *)
(***************************************************************************)
\* Every capture was answered, except the one the agent works on.
RepliesCount ==
    /\ agent \in {"authorizing", "sizing", "capturing", "storing", "numbering"}
          => captureNo = Len(replies) + 1
    /\ agent \in {"binding", "setup", "idle", "exited"} => captureNo = Len(replies)

\* Until its creation is served the compositor has nothing to say of the source.
Uncreated == agent = "binding" \/ Has(toModule, {"create"})
NothingBeforeCreation ==
    /\ agent = "binding" => toModule = << >>
    /\ agent \notin {"binding", "setup", "exited"} => ~Has(toModule, {"create"})
    /\ AtMostOne(toModule, {"create"})
    /\ Uncreated => ~misled /\ ~Has(toAgent, {"size"}) /\ source.size = NoSize

\* A request in the wire, a task, an answer on its way, an answer received: a
\* source that is not retired has at most one of them, and only while the agent
\* waits for the answer.
OneInFlight ==
    LET asked == Has(toModule, {"capture"})
        told == Has(toAgent, Channels)
    IN
    /\ AtMostOne(toModule, {"capture"}) /\ AtMostOne(toAgent, Channels)
    /\ \A x, y \in answers : x = y
    /\ asked => task = 0 /\ ~told /\ answers = {}
    /\ task # 0 => ~told /\ answers = {}
    /\ told => answers = {}
    /\ asked \/ task # 0 \/ told \/ answers # {} => agent = "capturing"

\* It is the request of the capture under way, and "complete" says that the
\* capture's buffer was filled.
FlightIsOwn ==
    /\ \A q \in In(toModule) : q.ev = "capture" => q.n = captureNo
    /\ task \in {0, captureNo}
    /\ Has(toAgent, {"complete"}) \/ "complete" \in answers => written[captureNo] # 0

\* A retired source is never asked again.
RetiredIsIdle == source.retired => agent \in {"idle", "authorizing", "sizing"}

Sound ==
    /\ OwnPicture
    /\ ~Has(toAgent, {"malformed"})
    /\ ~source.retired => OneInFlight /\ FlightIsOwn

IInv ==
    /\ TypeOK
    /\ WireTypeOK
    /\ RepliesCount
    /\ NothingBeforeCreation
    /\ RetiredIsIdle
    /\ ~misled => Sound

-----------------------------------------------------------------------------
LEMMA OneMessage ==
    ASSUME NEW S, NEW a \in S
    PROVE  /\ <<a>> \in Seq(S) /\ In(<<a>>) = {a}
           /\ \A T : (Has(<<a>>, T) <=> a.ev \in T) /\ AtMostOne(<<a>>, T)
  <1>1. <<a>> \in Seq(S) /\ Len(<<a>>) = 1 /\ <<a>>[1] = a
    OBVIOUS
  <1>2. In(<<a>>) = {a}
    BY <1>1 DEF In
  <1> QED
    BY <1>1, <1>2 DEF Has, AtMostOne

LEMMA TwoMessages ==
    ASSUME NEW S, NEW a \in S, NEW b \in S
    PROVE  /\ <<a, b>> \in Seq(S) /\ In(<<a, b>>) = {a, b}
           /\ \A T : /\ Has(<<a, b>>, T) <=> a.ev \in T \/ b.ev \in T
                     /\ ~(a.ev \in T /\ b.ev \in T) => AtMostOne(<<a, b>>, T)
  <1>1. <<a, b>> \in Seq(S) /\ Len(<<a, b>>) = 2 /\ <<a, b>>[1] = a /\ <<a, b>>[2] = b
    OBVIOUS
  <1>2. In(<<a, b>>) = {a, b}
    BY <1>1 DEF In
  <1> QED
    BY <1>1, <1>2 DEF Has, AtMostOne

LEMMA ConcatMessages ==
    ASSUME NEW S, NEW s \in Seq(S), NEW t \in Seq(S)
    PROVE  /\ s \o t \in Seq(S) /\ In(s \o t) = In(s) \cup In(t)
           /\ \A T : /\ Has(s \o t, T) <=> Has(s, T) \/ Has(t, T)
                     /\ AtMostOne(s, T) /\ AtMostOne(t, T) /\ ~(Has(s, T) /\ Has(t, T))
                           => AtMostOne(s \o t, T)
  <1>1. /\ s \o t \in Seq(S) /\ Len(s \o t) = Len(s) + Len(t)
        /\ Len(s) \in Nat /\ Len(t) \in Nat
        /\ \A i \in 1 .. Len(s \o t) :
              (s \o t)[i] = IF i <= Len(s) THEN s[i] ELSE t[i - Len(s)]
    BY ConcatProperties, LenProperties
  <1>2. In(s \o t) = In(s) \cup In(t)
    <2>1. ASSUME NEW e \in In(s \o t) PROVE e \in In(s) \cup In(t)
      <3>1. PICK i \in 1 .. Len(s \o t) : e = (s \o t)[i]
        BY <2>1 DEF In
      <3>2. CASE i <= Len(s)
        BY <1>1, <3>1, <3>2 DEF In
      <3>3. CASE ~(i <= Len(s))
        <4>1. i - Len(s) \in 1 .. Len(t) /\ e = t[i - Len(s)]
          BY <1>1, <3>1, <3>3
        <4> QED
          BY <4>1 DEF In
      <3> QED
        BY <3>2, <3>3
    <2>2. ASSUME NEW e \in In(s) PROVE e \in In(s \o t)
      BY <1>1, <2>2 DEF In
    <2>3. ASSUME NEW e \in In(t) PROVE e \in In(s \o t)
      <3>1. PICK i \in 1 .. Len(t) : e = t[i]
        BY <2>3 DEF In
      <3>2. i + Len(s) \in 1 .. Len(s \o t) /\ (s \o t)[i + Len(s)] = e
        BY <1>1, <3>1
      <3> QED
        BY <3>2 DEF In
    <2> QED
      BY <2>1, <2>2, <2>3
  <1>3. ASSUME NEW T, AtMostOne(s, T), AtMostOne(t, T), ~(Has(s, T) /\ Has(t, T))
        PROVE  AtMostOne(s \o t, T)
    <2> SUFFICES ASSUME NEW i \in 1 .. Len(s \o t), NEW j \in 1 .. Len(s \o t),
                        (s \o t)[i].ev \in T, (s \o t)[j].ev \in T
                 PROVE  i = j
      BY DEF AtMostOne
    <2>1. CASE i <= Len(s) /\ j <= Len(s)
      BY <1>1, <1>3, <2>1 DEF AtMostOne
    <2>2. CASE ~(i <= Len(s)) /\ ~(j <= Len(s))
      <3>1. /\ i - Len(s) \in 1 .. Len(t) /\ j - Len(s) \in 1 .. Len(t)
            /\ t[i - Len(s)].ev \in T /\ t[j - Len(s)].ev \in T
        BY <1>1, <2>2
      <3>2. i - Len(s) = j - Len(s)
        BY <1>3, <3>1 DEF AtMostOne
      <3> QED
        BY <1>1, <3>2
    <2>3. ASSUME NEW k \in 1 .. Len(s \o t), (s \o t)[k].ev \in T, k <= Len(s) PROVE Has(s, T)
      BY <1>1, <2>3 DEF Has, In
    <2>4. ASSUME NEW k \in 1 .. Len(s \o t), (s \o t)[k].ev \in T, ~(k <= Len(s)) PROVE Has(t, T)
      <3>1. k - Len(s) \in 1 .. Len(t) /\ t[k - Len(s)].ev \in T
        BY <1>1, <2>4
      <3> QED
        BY <3>1 DEF Has, In
    <2> QED
      BY <1>3, <2>1, <2>2, <2>3, <2>4
  <1> QED
    BY <1>1, <1>2, <1>3 DEF Has

LEMMA TailMessages ==
    ASSUME NEW S, NEW s \in Seq(S), s # << >>
    PROVE  /\ Head(s) \in S /\ Head(s) \in In(s) /\ Tail(s) \in Seq(S)
           /\ In(s) = {Head(s)} \cup In(Tail(s)) /\ Len(Tail(s)) = Len(s) - 1
           /\ \A T : /\ Has(s, T) <=> Head(s).ev \in T \/ Has(Tail(s), T)
                     /\ AtMostOne(s, T) => /\ AtMostOne(Tail(s), T)
                                           /\ Head(s).ev \in T => ~Has(Tail(s), T)
  <1>1. /\ Head(s) \in S /\ Head(s) = s[1] /\ Len(s) \in Nat \ {0}
        /\ Tail(s) \in Seq(S) /\ Len(Tail(s)) = Len(s) - 1
        /\ \A i \in 1 .. Len(Tail(s)) : Tail(s)[i] = s[i + 1]
    BY HeadTailProperties, EmptySeq, LenProperties
  <1>2. In(s) = {Head(s)} \cup In(Tail(s))
    <2>1. ASSUME NEW e \in In(s) PROVE e \in {Head(s)} \cup In(Tail(s))
      <3>1. PICK i \in 1 .. Len(s) : e = s[i]
        BY <2>1 DEF In
      <3>2. CASE i # 1
        <4>1. i - 1 \in 1 .. Len(Tail(s)) /\ Tail(s)[i - 1] = e
          BY <1>1, <3>1, <3>2
        <4> QED
          BY <4>1 DEF In
      <3> QED
        BY <1>1, <3>1, <3>2
    <2>2. ASSUME NEW e \in In(Tail(s)) PROVE e \in In(s)
      <3>1. PICK i \in 1 .. Len(Tail(s)) : e = Tail(s)[i]
        BY <2>2 DEF In
      <3>2. i + 1 \in 1 .. Len(s) /\ s[i + 1] = e
        BY <1>1, <3>1
      <3> QED
        BY <3>2 DEF In
    <2>3. Head(s) \in In(s)
      BY <1>1 DEF In
    <2> QED
      BY <2>1, <2>2, <2>3
  <1>3. ASSUME NEW T, AtMostOne(s, T)
        PROVE  AtMostOne(Tail(s), T) /\ (Head(s).ev \in T => ~Has(Tail(s), T))
    <2>1. AtMostOne(Tail(s), T)
      BY <1>1, <1>3 DEF AtMostOne
    <2>2. ASSUME Head(s).ev \in T, NEW i \in 1 .. Len(Tail(s)), Tail(s)[i].ev \in T PROVE FALSE
      <3>1. i + 1 \in 1 .. Len(s) /\ 1 \in 1 .. Len(s) /\ s[i + 1].ev \in T /\ i + 1 # 1
        BY <1>1, <2>2
      <3> QED
        BY <1>1, <1>3, <2>2, <3>1 DEF AtMostOne
    <2> QED
      BY <2>1, <2>2 DEF Has, In
  <1> QED
    BY <1>1, <1>2, <1>3 DEF Has

LEMMA RequestMessages ==
    ASSUME NEW S, NEW s \in Seq(S), NEW q \in S
    PROVE  /\ Append(s, q) \in Seq(S) /\ In(Append(s, q)) = In(s) \cup {q}
           /\ \A T : /\ Has(Append(s, q), T) <=> Has(s, T) \/ q.ev \in T
                     /\ AtMostOne(s, T) /\ ~(Has(s, T) /\ q.ev \in T) => AtMostOne(Append(s, q), T)
  <1>1. Append(s, q) = s \o <<q>>
    BY AppendIsConcat
  <1>2. /\ <<q>> \in Seq(S) /\ In(<<q>>) = {q}
        /\ \A T : (Has(<<q>>, T) <=> q.ev \in T) /\ AtMostOne(<<q>>, T)
    BY OneMessage
  <1>3. /\ s \o <<q>> \in Seq(S) /\ In(s \o <<q>>) = In(s) \cup In(<<q>>)
        /\ \A T : /\ Has(s \o <<q>>, T) <=> Has(s, T) \/ Has(<<q>>, T)
                  /\ AtMostOne(s, T) /\ AtMostOne(<<q>>, T) /\ ~(Has(s, T) /\ Has(<<q>>, T))
                        => AtMostOne(s \o <<q>>, T)
    BY <1>2, ConcatMessages
  <1> QED
    BY <1>1, <1>2, <1>3

-----------------------------------------------------------------------------
LEMMA Bounds ==
    /\ FrameCap \in Nat /\ MaxCaptures \in Nat /\ MaxChanges \in Nat /\ MaxFrames \in Nat
    /\ MaxTimeouts \in Nat
  BY CaptureAssumption

LEMMA EmptyWire ==
    /\ \A S : << >> \in Seq(S)
    /\ In(<< >>) = {} /\ \A T : ~Has(<< >>, T) /\ AtMostOne(<< >>, T)
  BY EmptySeq DEF In, Has, AtMostOne

LEMMA InitInv == Init => IInv
  <1> SUFFICES ASSUME Init PROVE IInv
    OBVIOUS
  <1> USE DEF Init
  <1>1. TypeOK
    <2>1. replies \in Seq(Reply) /\ Len(frames) <= FrameCap
      BY EmptySeq, Bounds
    <2>2. source \in [size : Sizes \cup {NoSize}, format : BOOLEAN, retired : BOOLEAN]
      OBVIOUS
    <2>3. /\ captureNo \in 0 .. MaxCaptures /\ task \in 0 .. captureNo /\ granted \in 0 .. captureNo
          /\ changes \in 0 .. MaxChanges /\ timeouts \in 0 .. MaxTimeouts
      BY Bounds
    <2>4. written \in [1 .. MaxCaptures -> 0 .. repaints] /\ repaints \in Nat
      BY Bounds
    <2> QED
      BY <2>1, <2>2, <2>3, <2>4 DEF TypeOK, Stages
  <1>2. WireTypeOK
    BY EmptyWire DEF WireTypeOK
  <1>3. RepliesCount
    BY EmptySeq DEF RepliesCount
  <1>4. NothingBeforeCreation
    BY EmptyWire DEF NothingBeforeCreation
  <1>5. RetiredIsIdle
    BY DEF RetiredIsIdle
  <1>6. Sound
    BY EmptyWire DEF Sound, OwnPicture, OneInFlight, FlightIsOwn
  <1> QED
    BY <1>1, <1>2, <1>3, <1>4, <1>5, <1>6 DEF IInv

-----------------------------------------------------------------------------
(***************************************************************************)
(* What the compositor and the dispatch goroutine read and write.          *)
(***************************************************************************)
\* The oldest request of the agent.
LEMMA NextQuery ==
    ASSUME WireTypeOK, ModuleServes
    PROVE  /\ Head(toModule) \in Query /\ Head(toModule) \in In(toModule)
           /\ toModule' \in Seq(Query)
           /\ In(toModule) = {Head(toModule)} \cup In(toModule')
           /\ \A T : /\ Has(toModule, T) <=> Head(toModule).ev \in T \/ Has(toModule', T)
                     /\ AtMostOne(toModule, T) => /\ AtMostOne(toModule', T)
                                                  /\ Head(toModule).ev \in T => ~Has(toModule', T)
  BY TailMessages DEF WireTypeOK, ModuleServes

\* The oldest event of the compositor.
LEMMA NextEvent ==
    ASSUME WireTypeOK, Dispatch
    PROVE  /\ Head(toAgent) \in Event /\ Head(toAgent) \in In(toAgent)
           /\ toAgent' \in Seq(Event)
           /\ In(toAgent) = {Head(toAgent)} \cup In(toAgent')
           /\ \A T : /\ Has(toAgent, T) <=> Head(toAgent).ev \in T \/ Has(toAgent', T)
                     /\ AtMostOne(toAgent, T) => /\ AtMostOne(toAgent', T)
                                                 /\ Head(toAgent).ev \in T => ~Has(toAgent', T)
  BY TailMessages DEF WireTypeOK, Dispatch

\* One event told, and two.
LEMMA TellsOne ==
    ASSUME WireTypeOK, NEW a \in Event, Tell(<<a>>)
    PROVE  /\ toAgent' \in Seq(Event)
           /\ \A T : /\ Has(toAgent', T) <=> Has(toAgent, T) \/ a.ev \in T
                     /\ AtMostOne(toAgent, T) /\ ~(Has(toAgent, T) /\ a.ev \in T)
                           => AtMostOne(toAgent', T)
  <1>1. <<a>> \in Seq(Event) /\ \A T : (Has(<<a>>, T) <=> a.ev \in T) /\ AtMostOne(<<a>>, T)
    BY OneMessage
  <1> QED
    BY <1>1, ConcatMessages DEF Tell, WireTypeOK

LEMMA TellsTwo ==
    ASSUME WireTypeOK, NEW a \in Event, NEW b \in Event, Tell(<<a, b>>)
    PROVE  /\ toAgent' \in Seq(Event)
           /\ \A T : /\ Has(toAgent', T) <=> Has(toAgent, T) \/ a.ev \in T \/ b.ev \in T
                     /\ AtMostOne(toAgent, T) /\ ~(a.ev \in T /\ b.ev \in T)
                           /\ ~(Has(toAgent, T) /\ (a.ev \in T \/ b.ev \in T))
                           => AtMostOne(toAgent', T)
  <1>1. /\ <<a, b>> \in Seq(Event)
        /\ \A T : /\ Has(<<a, b>>, T) <=> a.ev \in T \/ b.ev \in T
                  /\ ~(a.ev \in T /\ b.ev \in T) => AtMostOne(<<a, b>>, T)
    BY TwoMessages
  <1> QED
    BY <1>1, ConcatMessages DEF Tell, WireTypeOK

LEMMA EventTypes ==
    /\ \A ev \in {"format", "malformed", "retry", "failed", "complete"} : [ev |-> ev] \in Event
    /\ \A size \in Sizes : [ev |-> "size", size |-> size] \in Event
    /\ \A n \in Nat : [ev |-> "authorized", n |-> n] \in Event
    /\ \A id, sequence \in Nat : [ev |-> "frame", id |-> id, sequence |-> sequence] \in Event
  BY DEF Event

LEMMA EventKinds ==
    ASSUME NEW e \in Event
    PROVE  /\ e.ev \in {"format", "malformed", "size", "authorized", "frame"} \cup Channels
           /\ e.ev = "size" => e.size \in Sizes
           /\ e.ev = "authorized" => e.n \in Nat
           /\ e.ev = "frame" => e.id \in Nat /\ e.sequence \in Nat
  BY DEF Event, Channels

LEMMA QueryKinds ==
    ASSUME NEW q \in Query
    PROVE  /\ q.ev \in {"create", "authorize", "capture", "destroy"}
           /\ q.ev \in {"authorize", "capture", "destroy"} => q.n \in 1 .. captureNo
           /\ q.ev = "capture" => q.size \in Sizes \cup {NoSize}
  BY DEF Query

\* What a repaint tells.
FrameEvent == [ev |-> "frame", id |-> granted, sequence |-> repaints + 1]
CompleteEvent == [ev |-> "complete"]

LEMMA RepaintTells ==
    ASSUME TypeOK, WireTypeOK, Repaint
    PROVE  /\ toAgent' \in Seq(Event)
           /\ \A T : Has(toAgent', T) <=>
                       \/ Has(toAgent, T) \/ "frame" \in T
                       \/ task # 0 /\ "complete" \in T
           /\ \A T : AtMostOne(toAgent, T) /\ "frame" \notin T /\ (task = 0 \/ ~Has(toAgent, T))
                        => AtMostOne(toAgent', T)
  <1> DEFINE first == IF task # 0 THEN <<CompleteEvent>> ELSE << >>
             told == first \o <<FrameEvent>>
  <1>1. CompleteEvent \in Event /\ CompleteEvent.ev = "complete"
    BY EventTypes DEF CompleteEvent
  <1>2. FrameEvent \in Event /\ FrameEvent.ev = "frame"
    BY EventTypes DEF FrameEvent, TypeOK
  <1>3. /\ first \in Seq(Event)
        /\ \A T : (Has(first, T) <=> task # 0 /\ "complete" \in T) /\ AtMostOne(first, T)
    BY <1>1, OneMessage, EmptyWire
  <1>4. /\ <<FrameEvent>> \in Seq(Event)
        /\ \A T : (Has(<<FrameEvent>>, T) <=> "frame" \in T) /\ AtMostOne(<<FrameEvent>>, T)
    BY <1>2, OneMessage
  <1> HIDE DEF first
  <1>5. /\ told \in Seq(Event)
        /\ \A T : /\ Has(told, T) <=> "frame" \in T \/ (task # 0 /\ "complete" \in T)
                  /\ "frame" \notin T => AtMostOne(told, T)
    BY <1>3, <1>4, ConcatMessages
  <1> HIDE DEF told
  <1>6. toAgent' = toAgent \o told
    BY DEF Repaint, Tell, FrameEvent, CompleteEvent, told, first
  <1>7. /\ toAgent \o told \in Seq(Event)
        /\ \A T : /\ Has(toAgent \o told, T) <=> Has(toAgent, T) \/ Has(told, T)
                  /\ AtMostOne(toAgent, T) /\ AtMostOne(told, T) /\ ~(Has(toAgent, T) /\ Has(told, T))
                        => AtMostOne(toAgent \o told, T)
    BY <1>5, ConcatMessages DEF WireTypeOK
  <1> QED
    BY <1>5, <1>6, <1>7

-----------------------------------------------------------------------------
\* The compositor's actions, the dispatch goroutine's and the agent's keep
\* every type, and number nothing that was not begun.
LEMMA ServeType ==
    ASSUME TypeOK, WireTypeOK, ModuleServes
    PROVE  TypeOK' /\ WireTypeOK'
  <1> DEFINE q == Head(toModule)
  <1>1. q \in Query /\ toModule' \in Seq(Query)
    BY NextQuery
  <1>2. UNCHANGED agentVars
    BY DEF ModuleServes
  <1>3. Query' = Query
    BY <1>2 DEF Query, agentVars
  <1>4. CASE ServeCreate(q)
    <2>1. PICK a \in Event : Tell(<<a, [ev |-> "size", size |-> output]>>)
      BY <1>4, EventTypes DEF ServeCreate
    <2>2. [ev |-> "size", size |-> output] \in Event
      BY EventTypes DEF TypeOK
    <2>3. toAgent' \in Seq(Event)
      BY <2>1, <2>2, TellsTwo
    <2> QED
      BY <1>1, <1>2, <1>3, <1>4, <2>3 DEF ServeCreate, TypeOK, WireTypeOK, agentVars
  <1>5. CASE ServeAuthorize(q)
    <2>1. q.n \in 1 .. captureNo
      BY <1>1, <1>5, QueryKinds DEF ServeAuthorize
    <2>2. [ev |-> "authorized", n |-> q.n] \in Event
      BY <2>1, EventTypes DEF TypeOK
    <2>3. toAgent' \in Seq(Event)
      BY <1>5, <2>2, TellsOne DEF ServeAuthorize
    <2>4. granted' \in 0 .. captureNo
      BY <1>5, <2>1 DEF ServeAuthorize, TypeOK
    <2> QED
      BY <1>1, <1>2, <1>3, <1>5, <2>3, <2>4 DEF ServeAuthorize, TypeOK, WireTypeOK, agentVars
  <1>6. ASSUME NEW a \in Event, Tell(<<a>>) \/ UNCHANGED toAgent PROVE toAgent' \in Seq(Event)
    BY <1>6, TellsOne DEF WireTypeOK
  <1>7. CASE ServeCapture(q)
    <2>1. q.n \in 1 .. captureNo
      BY <1>1, <1>7, QueryKinds DEF ServeCapture
    <2>2. task' \in 0 .. captureNo
      BY <1>7, <2>1 DEF ServeCapture, TypeOK
    <2>3. toAgent' \in Seq(Event)
      BY <1>6, <1>7, EventTypes DEF ServeCapture
    <2> QED
      BY <1>1, <1>2, <1>3, <1>7, <2>2, <2>3 DEF ServeCapture, TypeOK, WireTypeOK, agentVars
  <1>8. CASE ServeDestroy(q)
    <2>1. task' \in 0 .. captureNo
      BY <1>8 DEF ServeDestroy, TypeOK
    <2>2. toAgent' \in Seq(Event)
      BY <1>6, <1>8, EventTypes DEF ServeDestroy
    <2> QED
      BY <1>1, <1>2, <1>3, <1>8, <2>1, <2>2 DEF ServeDestroy, TypeOK, WireTypeOK, agentVars
  <1> QED
    BY <1>4, <1>5, <1>7, <1>8 DEF ModuleServes

LEMMA CompositorType ==
    ASSUME TypeOK, WireTypeOK, Repaint \/ OutputChanges
    PROVE  TypeOK' /\ WireTypeOK'
  <1>1. CASE Repaint
    <2>1. toAgent' \in Seq(Event)
      BY <1>1, RepaintTells
    <2>2. repaints' \in Nat /\ repaints' = repaints + 1
      BY <1>1 DEF Repaint, TypeOK
    <2>3. written' \in [1 .. MaxCaptures -> 0 .. repaints']
      BY <1>1, <2>2 DEF Repaint, TypeOK
    <2>4. task' \in 0 .. captureNo
      BY <1>1, Bounds DEF Repaint, TypeOK
    <2>5. UNCHANGED <<agent, captureNo, source, answers, buffers, frames, replies, timeouts,
                      output, granted, misled, changes, toModule>>
      BY <1>1 DEF Repaint, agentVars
    <2>6. Query' = Query
      BY <2>5 DEF Query
    <2> QED
      BY <2>1, <2>2, <2>3, <2>4, <2>5, <2>6 DEF TypeOK, WireTypeOK
  <1>2. CASE OutputChanges
    <2>1. output' \in Sizes /\ misled' \in BOOLEAN
      BY <1>2 DEF OutputChanges, TypeOK
    <2>2. toAgent' \in Seq(Event)
      <3>1. [ev |-> "malformed"] \in Event /\ [ev |-> "size", size |-> output'] \in Event
        BY <2>1, EventTypes
      <3>2. ASSUME NEW a \in Event, Tell(<<a>>) PROVE toAgent' \in Seq(Event)
        BY <3>2, TellsOne
      <3> QED
        BY <1>2, <3>1, <3>2 DEF OutputChanges
    <2>3. changes' \in 0 .. MaxChanges
      BY <1>2, Bounds DEF OutputChanges, TypeOK
    <2>4. UNCHANGED <<agent, captureNo, source, answers, buffers, frames, replies, timeouts,
                      task, granted, repaints, written, toModule>>
      BY <1>2 DEF OutputChanges, agentVars
    <2>5. Query' = Query
      BY <2>4 DEF Query
    <2> QED
      BY <2>1, <2>2, <2>3, <2>4, <2>5 DEF TypeOK, WireTypeOK
  <1> QED
    BY <1>1, <1>2

LEMMA DispatchType ==
    ASSUME TypeOK, WireTypeOK, Dispatch
    PROVE  TypeOK' /\ WireTypeOK'
  <1> DEFINE e == Head(toAgent)
  <1>1. e \in Event /\ toAgent' \in Seq(Event)
    BY NextEvent
  <1>2. UNCHANGED <<captureNo, buffers, replies, timeouts, output, task, granted, repaints,
                    written, misled, changes, toModule>>
    BY DEF Dispatch, compositorVars
  <1>3. Query' = Query
    BY <1>2 DEF Query
  <1>4. agent' \in Stages /\ answers' \subseteq Channels
    BY DEF Dispatch, OnAnswer, OnAnnouncement, OnFrame, OnAuthorized, TypeOK, Stages, Channels
  <1>5. source' \in [size : Sizes \cup {NoSize}, format : BOOLEAN, retired : BOOLEAN]
    <2>1. e.ev = "size" => e.size \in Sizes
      BY <1>1, EventKinds
    <2> QED
      BY <2>1 DEF Dispatch, OnAnswer, OnAnnouncement, OnFrame, OnAuthorized, TypeOK
  <1>6. /\ frames' \in Seq(Event) /\ Len(frames') <= FrameCap
        /\ \A f \in In(frames') : f.ev = "frame"
    <2>1. CASE UNCHANGED frames
      BY <2>1 DEF TypeOK, WireTypeOK
    <2>2. CASE e.ev = "frame" /\ Len(frames) < FrameCap /\ frames' = Append(frames, e)
      <3>1. frames' \in Seq(Event) /\ In(frames') = In(frames) \cup {e}
        BY <1>1, <2>2, RequestMessages DEF WireTypeOK
      <3>2. Len(frames) \in Nat /\ Len(frames') = Len(frames) + 1
        BY <1>1, <2>2, LenProperties, AppendProperties DEF WireTypeOK
      <3> QED
        BY <2>2, <3>1, <3>2, Bounds DEF WireTypeOK
    <2> QED
      BY <2>1, <2>2 DEF Dispatch, OnAnswer, OnAnnouncement, OnFrame, OnAuthorized
  <1> QED
    BY <1>1, <1>2, <1>3, <1>4, <1>5, <1>6 DEF TypeOK, WireTypeOK

\* A capture that begins adds requests the agent may make and removes none.
LEMMA QueryGrows ==
    ASSUME WireTypeOK, captureNo \in Nat, captureNo' \in Nat, captureNo <= captureNo'
    PROVE  Query \subseteq Query' /\ toModule \in Seq(Query')
  <1>1. Query \subseteq Query'
    BY DEF Query
  <1> QED
    BY <1>1 DEF WireTypeOK

LEMMA AgentQueries ==
    /\ [ev |-> "create"] \in Query
    /\ \A n \in 1 .. captureNo :
          /\ [ev |-> "authorize", n |-> n] \in Query /\ [ev |-> "destroy", n |-> n] \in Query
          /\ \A size \in Sizes \cup {NoSize} :
                [ev |-> "capture", n |-> n, size |-> size] \in Query
  BY DEF Query

\* What the agent does while it works on a capture, and the capture's number.
LEMMA WorksOnCapture ==
    ASSUME TypeOK, RepliesCount,
           agent \in {"authorizing", "sizing", "capturing", "storing", "numbering"}
    PROVE  captureNo \in 1 .. captureNo /\ Len(replies) \in Nat /\ captureNo = Len(replies) + 1
  <1>1. Len(replies) \in Nat
    BY LenProperties DEF TypeOK
  <1> QED
    BY <1>1 DEF TypeOK, RepliesCount

LEMMA AnswerTyped ==
    ASSUME TypeOK, NEW reply \in Reply, Answered(reply)
    PROVE  /\ replies' \in Seq(Reply) /\ Len(replies') = Len(replies) + 1
           /\ replies'[Len(replies) + 1] = reply
           /\ \A n \in 1 .. Len(replies) : replies'[n] = replies[n]
           /\ agent' = "idle"
  BY AppendProperties DEF TypeOK, Answered

LEMMA FailureTyped == Failure \in Reply
  BY DEF Failure, Reply

\* What an action of the agent on its requests leaves of their types.
LEMMA RequestsTyped ==
    ASSUME WireTypeOK, captureNo \in Nat, UNCHANGED captureNo,
           NEW q \in Query, Request(q) \/ UNCHANGED toModule
    PROVE  toModule' \in Seq(Query')
  <1>1. Query' = Query
    BY DEF Query
  <1>2. toModule' \in Seq(Query)
    BY RequestMessages DEF Request, WireTypeOK
  <1> QED
    BY <1>1, <1>2

LEMMA AgentType ==
    ASSUME TypeOK, WireTypeOK, RepliesCount,
           AgentRuns \/ StartCapture \/ AuthorizationTimesOut \/ GiveUp
    PROVE  TypeOK' /\ WireTypeOK'
  <1>1. UNCHANGED <<output, task, granted, repaints, written, misled, changes, toAgent>>
    BY DEF AgentRuns, Attach, SetUp, StartCapture, AuthorizationTimesOut, RequestCapture, TakeAnswer,
           GiveUp, StoreFile, ReadFrame, quietVars, compositorVars
  <1>2. captureNo \in Nat /\ captureNo <= MaxCaptures
    BY Bounds DEF TypeOK
  <1>3. captureNo' \in 0 .. MaxCaptures /\ captureNo' >= captureNo /\ agent' \in Stages
    BY <1>2, Bounds DEF AgentRuns, Attach, SetUp, StartCapture, AuthorizationTimesOut, RequestCapture,
           TakeAnswer, GiveUp, StoreFile, ReadFrame, Answered, TypeOK, Stages
  <1>4. source' \in [size : Sizes \cup {NoSize}, format : BOOLEAN, retired : BOOLEAN]
    BY DEF AgentRuns, Attach, SetUp, StartCapture, AuthorizationTimesOut, RequestCapture, TakeAnswer,
           GiveUp, StoreFile, ReadFrame, TypeOK
  <1>5. answers' \subseteq Channels /\ timeouts' \in 0 .. MaxTimeouts
    BY Bounds DEF AgentRuns, Attach, SetUp, StartCapture, AuthorizationTimesOut, RequestCapture,
           TakeAnswer, GiveUp, StoreFile, ReadFrame, TypeOK
  <1>6. buffers' \subseteq 1 .. captureNo'
    <2>1. buffers \subseteq 1 .. captureNo'
      BY <1>2, <1>3 DEF TypeOK
    <2>2. CASE RequestCapture
      BY <1>2, <2>1, <2>2, WorksOnCapture DEF RequestCapture
    <2> QED
      BY <2>1, <2>2 DEF AgentRuns, Attach, SetUp, StartCapture, AuthorizationTimesOut, TakeAnswer,
         GiveUp, StoreFile, ReadFrame, ReleaseBuffer
  <1>7. /\ frames' \in Seq(Event) /\ Len(frames') <= FrameCap
        /\ \A f \in In(frames') : f.ev = "frame"
    <2>1. CASE UNCHANGED frames
      BY <2>1 DEF TypeOK, WireTypeOK
    <2>2. CASE frames # << >> /\ frames' = Tail(frames)
      <3>1. /\ frames' \in Seq(Event) /\ In(frames') \subseteq In(frames)
            /\ Len(frames') = Len(frames) - 1 /\ Len(frames) \in Nat
        BY <2>2, TailMessages, LenProperties DEF WireTypeOK
      <3> QED
        BY <3>1, Bounds DEF TypeOK, WireTypeOK
    <2> QED
      BY <2>1, <2>2 DEF AgentRuns, Attach, SetUp, StartCapture, AuthorizationTimesOut, RequestCapture,
         TakeAnswer, GiveUp, StoreFile, ReadFrame
  <1>8. replies' \in Seq(Reply)
    <2>1. ASSUME NEW reply \in Reply, Answered(reply) PROVE replies' \in Seq(Reply)
      BY <2>1, AnswerTyped
    <2>2. CASE ReadFrame
      <3>1. CASE frames = << >>
        <4>1. [ok |-> TRUE, id |-> captureNo, sequence |-> 0] \in Reply
          BY <1>2 DEF Reply
        <4> QED
          BY <2>1, <2>2, <3>1, <4>1 DEF ReadFrame
      <3>2. CASE frames # << >>
        <4>1. Head(frames) \in Event /\ Head(frames).ev = "frame"
          BY <3>2, TailMessages DEF WireTypeOK
        <4>2. Head(frames).id \in Nat /\ Head(frames).sequence \in Nat
          BY <4>1, EventKinds
        <4>3. [ok |-> TRUE, sequence |-> Head(frames).sequence,
               id |-> IF Head(frames).id # 0 THEN Head(frames).id ELSE captureNo] \in Reply
          BY <1>2, <4>2 DEF Reply
        <4> QED
          BY <2>1, <2>2, <3>2, <4>3 DEF ReadFrame
      <3> QED
        BY <3>1, <3>2
    <2>3. UNCHANGED replies => replies' \in Seq(Reply)
      BY DEF TypeOK
    <2> QED
      BY <2>1, <2>2, <2>3, FailureTyped DEF AgentRuns, Attach, SetUp, StartCapture,
         AuthorizationTimesOut, RequestCapture, TakeAnswer, GiveUp, StoreFile
  <1>9. toModule' \in Seq(Query')
    <2>1. CASE StartCapture
      <3>1. captureNo' \in 1 .. captureNo' /\ captureNo <= captureNo'
        BY <1>2, <2>1 DEF StartCapture
      <3>2. [ev |-> "authorize", n |-> captureNo'] \in Query'
        BY <3>1 DEF Query
      <3>3. toModule \in Seq(Query')
        BY <1>2, <3>1, QueryGrows
      <3> QED
        BY <2>1, <3>2, <3>3, AppendProperties DEF StartCapture, Request
    <2>2. CASE RequestCapture \/ TakeAnswer \/ GiveUp
      <3>1. captureNo \in 1 .. captureNo /\ source.size \in Sizes \cup {NoSize}
        BY <2>2, WorksOnCapture DEF RequestCapture, TakeAnswer, GiveUp, TypeOK
      <3>2. /\ [ev |-> "destroy", n |-> captureNo] \in Query
            /\ [ev |-> "capture", n |-> captureNo, size |-> source.size] \in Query
        BY <3>1, AgentQueries
      <3> QED
        BY <1>2, <2>2, <3>2, RequestsTyped DEF RequestCapture, TakeAnswer, GiveUp, ReleaseBuffer
    <2>3. CASE Attach \/ SetUp \/ StoreFile \/ ReadFrame \/ AuthorizationTimesOut
      BY <1>2, <2>3, AgentQueries, RequestsTyped DEF Attach, SetUp, StoreFile, ReadFrame,
         AuthorizationTimesOut
    <2> QED
      BY <2>1, <2>2, <2>3 DEF AgentRuns
  <1>10. /\ task' \in 0 .. captureNo' /\ granted' \in 0 .. captureNo'
         /\ written' \in [1 .. MaxCaptures -> 0 .. repaints'] /\ repaints' \in Nat
    BY <1>1, <1>2, <1>3 DEF TypeOK
  <1>11. toAgent' \in Seq(Event')
    BY <1>1 DEF Event, WireTypeOK
  <1> QED
    BY <1>1, <1>3, <1>4, <1>5, <1>6, <1>7, <1>8, <1>9, <1>10, <1>11 DEF TypeOK, WireTypeOK

LEMMA TypeStep ==
    ASSUME TypeOK, WireTypeOK, RepliesCount, [Next]_vars
    PROVE  TypeOK' /\ WireTypeOK'
  <1>1. CASE UNCHANGED vars
    <2>1. Query' = Query
      BY <1>1 DEF vars, agentVars, Query
    <2> QED
      BY <1>1, <2>1 DEF vars, agentVars, compositorVars, TypeOK, WireTypeOK
  <1> QED
    BY <1>1, ServeType, CompositorType, DispatchType, AgentType DEF Next

-----------------------------------------------------------------------------
(***************************************************************************)
(* The other conjuncts of the invariant, each over every step.             *)
(***************************************************************************)
LEMMA AppendedMessage ==
    ASSUME NEW S, NEW s \in Seq(S), NEW x
    PROVE  /\ Len(s) \in Nat /\ Len(Append(s, x)) = Len(s) + 1
           /\ Append(s, x)[Len(s) + 1] = x
           /\ \A n \in 1 .. Len(s) : Append(s, x)[n] = s[n]
  <1>1. s \in Seq(S \cup {x})
    BY SeqMonotonic, S \subseteq S \cup {x}
  <1> QED
    BY <1>1, AppendProperties, LenProperties

LEMMA CountStep ==
    ASSUME TypeOK, RepliesCount, [Next]_vars
    PROVE  RepliesCount'
  <1>1. Len(replies) \in Nat /\ captureNo \in Nat
    BY LenProperties DEF TypeOK
  <1>2. ASSUME NEW reply, Answered(reply),
               agent \in {"authorizing", "sizing", "capturing", "storing", "numbering"},
               UNCHANGED captureNo
        PROVE  RepliesCount'
    <2>1. Len(replies') = Len(replies) + 1 /\ agent' = "idle"
      BY <1>2, AppendedMessage DEF Answered, TypeOK
    <2> QED
      BY <1>2, <2>1 DEF RepliesCount
  <1>3. CASE ModuleServes \/ Repaint \/ OutputChanges \/ UNCHANGED vars
    BY <1>3 DEF ModuleServes, Repaint, OutputChanges, vars, agentVars, RepliesCount
  <1>4. CASE Dispatch
    BY <1>4 DEF Dispatch, OnAnswer, OnAnnouncement, OnFrame, OnAuthorized, RepliesCount
  <1>5. CASE Attach \/ SetUp \/ StartCapture
    BY <1>1, <1>5 DEF Attach, SetUp, StartCapture, RepliesCount
  <1>6. CASE RequestCapture \/ TakeAnswer \/ StoreFile \/ ReadFrame \/ AuthorizationTimesOut \/ GiveUp
    <2>1. CASE UNCHANGED <<replies, captureNo>> /\ agent' \in {"capturing", "storing", "numbering"}
      BY <1>6, <2>1 DEF RequestCapture, TakeAnswer, StoreFile, ReadFrame, AuthorizationTimesOut,
         GiveUp, RepliesCount
    <2>2. CASE \E reply : Answered(reply)
      BY <1>2, <1>6, <2>2 DEF RequestCapture, TakeAnswer, StoreFile, ReadFrame,
         AuthorizationTimesOut, GiveUp
    <2> QED
      BY <1>6, <2>1, <2>2 DEF RequestCapture, TakeAnswer, StoreFile, ReadFrame,
         AuthorizationTimesOut, GiveUp
  <1> QED
    BY <1>3, <1>4, <1>5, <1>6 DEF Next, AgentRuns

LEMMA RetiredStep ==
    ASSUME TypeOK, RetiredIsIdle, [Next]_vars
    PROVE  RetiredIsIdle'
  <1>1. CASE ModuleServes \/ Repaint \/ OutputChanges \/ UNCHANGED vars
    BY <1>1 DEF ModuleServes, Repaint, OutputChanges, vars, agentVars, RetiredIsIdle
  <1>2. CASE Dispatch
    BY <1>2 DEF Dispatch, OnAnswer, OnAnnouncement, OnFrame, OnAuthorized, RetiredIsIdle, TypeOK
  <1>3. CASE AgentRuns \/ StartCapture \/ AuthorizationTimesOut \/ GiveUp
    BY <1>3 DEF AgentRuns, Attach, SetUp, StartCapture, AuthorizationTimesOut, RequestCapture,
       TakeAnswer, GiveUp, StoreFile, ReadFrame, Answered, RetiredIsIdle, TypeOK
  <1> QED
    BY <1>1, <1>2, <1>3 DEF Next

\* The requests the agent adds to the wire in an action.
LEMMA AgentAsks ==
    ASSUME TypeOK, WireTypeOK, NEW q, Request(q)
    PROVE  /\ In(toModule') = In(toModule) \cup {q}
           /\ \A T : /\ Has(toModule', T) <=> Has(toModule, T) \/ q.ev \in T
                     /\ AtMostOne(toModule, T) /\ ~(Has(toModule, T) /\ q.ev \in T)
                           => AtMostOne(toModule', T)
  <1>1. toModule \in Seq(Query \cup {q})
    BY SeqMonotonic, Query \subseteq Query \cup {q} DEF WireTypeOK
  <1> QED
    BY <1>1, RequestMessages DEF Request

LEMMA CreationStep ==
    ASSUME TypeOK, WireTypeOK, NothingBeforeCreation, [Next]_vars
    PROVE  NothingBeforeCreation'
  <1> DEFINE Creating == Has(toModule, {"create"})
  <1>1. CASE ModuleServes
    <2> DEFINE q == Head(toModule)
    <2>1. UNCHANGED agentVars /\ agent # "binding"
      BY <1>1 DEF ModuleServes, NothingBeforeCreation
    <2>2. /\ Creating <=> q.ev \in {"create"} \/ Has(toModule', {"create"})
          /\ AtMostOne(toModule', {"create"})
          /\ q.ev \in {"create"} => ~Has(toModule', {"create"})
      BY <1>1, NextQuery DEF NothingBeforeCreation
    <2>3. CASE q.ev = "create"
      BY <2>1, <2>2, <2>3 DEF NothingBeforeCreation, Uncreated, agentVars
    <2>4. CASE q.ev # "create"
      <3>1. q \in Query
        BY <1>1, NextQuery
      <3>2. UNCHANGED misled
        BY <1>1, <2>4 DEF ModuleServes, ServeCreate, ServeAuthorize, ServeCapture, ServeDestroy
      <3>3. Has(toAgent', {"size"}) <=> Has(toAgent, {"size"})
        <4>1. ASSUME NEW a \in Event, Tell(<<a>>), a.ev # "size"
              PROVE  Has(toAgent', {"size"}) <=> Has(toAgent, {"size"})
          BY <4>1, TellsOne
        <4>2. CASE ServeAuthorize(q)
          <5>1. [ev |-> "authorized", n |-> q.n] \in Event
            BY <3>1, <4>2, QueryKinds, EventTypes DEF ServeAuthorize, TypeOK
          <5> QED
            BY <4>1, <4>2, <5>1 DEF ServeAuthorize
        <4>3. CASE ServeCapture(q) \/ ServeDestroy(q)
          BY <4>1, <4>3, EventTypes DEF ServeCapture, ServeDestroy
        <4> QED
          BY <1>1, <2>4, <4>2, <4>3 DEF ModuleServes, ServeCreate
      <3> QED
        BY <2>1, <2>2, <3>2, <3>3 DEF NothingBeforeCreation, Uncreated, agentVars
    <2> QED
      BY <2>3, <2>4
  <1>2. CASE Repaint
    <2>1. UNCHANGED <<agent, source, misled, toModule>>
      BY <1>2 DEF Repaint, agentVars
    <2>2. Has(toAgent', {"size"}) <=> Has(toAgent, {"size"})
      BY <1>2, RepaintTells
    <2> QED
      BY <2>1, <2>2 DEF NothingBeforeCreation, Uncreated
  <1>3. CASE OutputChanges
    <2>1. UNCHANGED <<agent, toModule>>
      BY <1>3 DEF OutputChanges, agentVars
    <2>2. ~Uncreated
      BY <1>3 DEF OutputChanges, SourceExists, Uncreated, Has, In
    <2> QED
      BY <2>1, <2>2 DEF NothingBeforeCreation, Uncreated
  <1>4. CASE Dispatch
    <2> DEFINE e == Head(toAgent)
    <2>1. UNCHANGED <<misled, toModule>>
      BY <1>4 DEF Dispatch, compositorVars
    <2>2. agent' = agent \/ (agent = "authorizing" /\ agent' = "sizing")
      BY <1>4 DEF Dispatch, OnAnswer, OnAnnouncement, OnFrame, OnAuthorized
    <2>3. Has(toAgent, {"size"}) <=> e.ev \in {"size"} \/ Has(toAgent', {"size"})
      BY <1>4, NextEvent
    <2>4. e.ev # "size" => source'.size = source.size
      BY <1>4 DEF Dispatch, OnAnswer, OnAnnouncement, OnFrame, OnAuthorized, TypeOK
    <2> QED
      BY <2>1, <2>2, <2>3, <2>4 DEF NothingBeforeCreation, Uncreated
  <1>5. CASE Attach
    <2>1. agent = "binding" /\ agent' = "setup" /\ UNCHANGED <<source, misled, toAgent>>
      BY <1>5 DEF Attach, quietVars, compositorVars
    <2>2. ~Creating
      BY <2>1, EmptyWire DEF NothingBeforeCreation
    <2>3. AtMostOne(toModule', {"create"})
      BY <1>5, <2>2, AgentAsks DEF Attach, NothingBeforeCreation
    <2> QED
      BY <2>1, <2>3 DEF NothingBeforeCreation, Uncreated
  <1>6. CASE SetUp
    <2>1. UNCHANGED <<source, misled, toAgent, toModule>> /\ agent = "setup"
      BY <1>6 DEF SetUp, quietVars, compositorVars
    <2>2. agent' = "exited" \/ (agent' = "idle" /\ source.size # NoSize)
      BY <1>6 DEF SetUp, Announced
    <2> QED
      BY <2>1, <2>2 DEF NothingBeforeCreation, Uncreated
  <1>7. CASE \/ StartCapture \/ AuthorizationTimesOut \/ RequestCapture \/ TakeAnswer \/ GiveUp
             \/ StoreFile \/ ReadFrame
    <2>1. UNCHANGED <<misled, toAgent>> /\ source'.size = source.size
      BY <1>7 DEF StartCapture, AuthorizationTimesOut, RequestCapture, TakeAnswer, GiveUp, StoreFile,
         ReadFrame, quietVars, compositorVars, TypeOK
    <2>2. /\ agent \notin {"binding", "setup", "exited"}
          /\ agent' \notin {"binding", "setup", "exited"}
      BY <1>7 DEF StartCapture, AuthorizationTimesOut, RequestCapture, TakeAnswer, GiveUp, StoreFile,
         ReadFrame, Answered
    <2>3. UNCHANGED toModule \/ \E q : q.ev # "create" /\ Request(q)
      BY <1>7 DEF StartCapture, AuthorizationTimesOut, RequestCapture, TakeAnswer, GiveUp, StoreFile,
         ReadFrame, ReleaseBuffer
    <2>4. ~Has(toModule', {"create"}) /\ AtMostOne(toModule', {"create"})
      BY <2>2, <2>3, AgentAsks DEF NothingBeforeCreation
    <2> QED
      BY <2>1, <2>2, <2>4 DEF NothingBeforeCreation, Uncreated
  <1>8. CASE UNCHANGED vars
    BY <1>8 DEF vars, agentVars, compositorVars, NothingBeforeCreation, Uncreated
  <1> QED
    BY <1>1, <1>2, <1>3, <1>4, <1>5, <1>6, <1>7, <1>8 DEF Next, AgentRuns

-----------------------------------------------------------------------------
(***************************************************************************)
(* Soundness.                                                              *)
(***************************************************************************)
Flight == OneInFlight /\ FlightIsOwn

\* "misled" is only chosen afresh when the source is created, before which
\* nothing can have misled the agent.
LEMMA NotMisledBefore ==
    ASSUME IInv, [Next]_vars, ~misled'
    PROVE  ~misled /\ Sound
  <1>1. CASE ModuleServes
    <2>1. Head(toModule).ev = "create" => Has(toModule, {"create"})
      BY <1>1, NextQuery DEF IInv
    <2>2. Head(toModule).ev = "create" \/ UNCHANGED misled
      BY <1>1 DEF ModuleServes, ServeCreate, ServeAuthorize, ServeCapture, ServeDestroy
    <2> QED
      BY <2>1, <2>2 DEF IInv, NothingBeforeCreation, Uncreated
  <1>2. CASE OutputChanges
    BY <1>2 DEF OutputChanges, IInv
  <1>3. CASE ~ModuleServes /\ ~OutputChanges
    <2>1. UNCHANGED misled
      BY <1>3 DEF Next, Repaint, Dispatch, AgentRuns, Attach, SetUp, StartCapture,
         AuthorizationTimesOut, RequestCapture, TakeAnswer, GiveUp, StoreFile, ReadFrame,
         quietVars, compositorVars, vars
    <2> QED
      BY <2>1 DEF IInv
  <1> QED
    BY <1>1, <1>2, <1>3

LEMMA Told ==
    ASSUME NEW s
    PROVE  Has(s, {"complete"}) => Has(s, Channels)
  BY DEF Has, Channels

\* A picture reported stays the capture's own.
LEMMA OwnPictureStep ==
    ASSUME IInv, Sound, [Next]_vars
    PROVE  OwnPicture'
  <1>1. /\ TypeOK /\ RepliesCount /\ RetiredIsIdle /\ OwnPicture
        /\ ~source.retired => OneInFlight /\ FlightIsOwn
    BY DEF IInv, Sound
  <1>2. Len(replies) \in Nat /\ captureNo \in Nat /\ captureNo <= MaxCaptures /\ MaxCaptures \in Nat
    BY <1>1, LenProperties, Bounds DEF TypeOK
  <1>3. CASE ModuleServes \/ OutputChanges \/ UNCHANGED vars
    <2>1. UNCHANGED <<agent, captureNo, replies, written>>
      BY <1>3 DEF ModuleServes, ServeCreate, ServeAuthorize, ServeCapture, ServeDestroy,
         OutputChanges, vars, agentVars, compositorVars
    <2> QED
      BY <1>1, <2>1 DEF OwnPicture
  <1>4. CASE Repaint
    <2>1. UNCHANGED <<agent, captureNo, replies>>
      BY <1>4 DEF Repaint, agentVars
    <2>2. ASSUME NEW n \in 1 .. captureNo, written[n] # 0 PROVE written'[n] # 0
      <3>1. n \in 1 .. MaxCaptures /\ repaints + 1 # 0
        BY <1>1, <1>2 DEF TypeOK
      <3> QED
        BY <1>1, <1>4, <2>2, <3>1 DEF Repaint, TypeOK
    <2> QED
      BY <1>1, <2>1, <2>2 DEF OwnPicture
  <1>5. CASE Dispatch
    <2>1. UNCHANGED <<captureNo, replies, written>>
      BY <1>5 DEF Dispatch, compositorVars
    <2>2. agent' = agent \/ agent' = "sizing"
      BY <1>5 DEF Dispatch, OnAnswer, OnAnnouncement, OnFrame, OnAuthorized
    <2> QED
      BY <1>1, <2>1, <2>2 DEF OwnPicture
  <1>6. CASE Attach \/ SetUp
    <2>1. UNCHANGED <<captureNo, replies, written>> /\ agent' \in {"setup", "idle", "exited"}
      BY <1>6 DEF Attach, SetUp, quietVars, compositorVars
    <2> QED
      BY <1>1, <2>1 DEF OwnPicture
  <1>7. CASE StartCapture
    <2>1. /\ UNCHANGED <<replies, written>> /\ agent' = "authorizing"
          /\ captureNo' = captureNo + 1 /\ captureNo = Len(replies)
      BY <1>1, <1>7 DEF StartCapture, quietVars, compositorVars, RepliesCount
    <2> QED
      BY <1>1, <1>2, <2>1 DEF OwnPicture
  <1>8. ASSUME NEW reply, Answered(reply), UNCHANGED <<captureNo, written>>,
               captureNo = Len(replies) + 1, reply.ok => written[captureNo] # 0
        PROVE  OwnPicture'
    <2>1. /\ agent' = "idle" /\ Len(replies') = Len(replies) + 1
          /\ replies'[Len(replies) + 1] = reply
          /\ \A n \in 1 .. Len(replies) : replies'[n] = replies[n]
      BY <1>1, <1>8, AppendedMessage DEF Answered, TypeOK
    <2> SUFFICES ASSUME NEW n \in 1 .. captureNo, replies'[n].ok PROVE written[n] # 0
      BY <1>8, <2>1 DEF OwnPicture
    <2>2. CASE n = captureNo
      BY <1>8, <2>1, <2>2
    <2>3. CASE n # captureNo
      <3>1. n \in 1 .. Len(replies) /\ n <= Len(replies)
        BY <1>2, <1>8, <2>3
      <3> QED
        BY <1>1, <2>1, <3>1 DEF OwnPicture
    <2> QED
      BY <2>2, <2>3
  <1>9. CASE AuthorizationTimesOut \/ RequestCapture \/ TakeAnswer \/ GiveUp \/ StoreFile \/ ReadFrame
    <2>1. UNCHANGED <<captureNo, written>> /\ captureNo = Len(replies) + 1 /\ captureNo \in 1 .. captureNo
      BY <1>1, <1>2, <1>9 DEF AuthorizationTimesOut, RequestCapture, TakeAnswer, GiveUp, StoreFile,
         ReadFrame, quietVars, compositorVars, RepliesCount
    <2>2. CASE Answered(Failure)
      BY <1>8, <2>1, <2>2 DEF Failure
    <2>3. CASE ReadFrame
      <3>1. written[captureNo] # 0
        BY <1>1, <2>1, <2>3 DEF ReadFrame, OwnPicture
      <3> QED
        BY <1>8, <2>1, <2>3, <3>1 DEF ReadFrame
    <2>4. CASE UNCHANGED replies /\ agent' = "capturing"
      BY <1>1, <2>1, <2>4 DEF OwnPicture
    <2>5. CASE TakeAnswer /\ UNCHANGED replies /\ "complete" \in answers
      <3>1. ~source.retired
        BY <1>1, <2>5 DEF TakeAnswer, RetiredIsIdle
      <3>2. written[captureNo] # 0
        BY <1>1, <2>5, <3>1 DEF FlightIsOwn
      <3> QED
        BY <1>1, <2>1, <2>5, <3>2 DEF OwnPicture
    <2>6. CASE StoreFile /\ UNCHANGED replies
      <3>1. written[captureNo] # 0
        BY <1>1, <2>1, <2>6 DEF StoreFile, OwnPicture
      <3> QED
        BY <1>1, <2>1, <2>6, <3>1 DEF OwnPicture
    <2> QED
      BY <1>9, <2>2, <2>3, <2>4, <2>5, <2>6 DEF AuthorizationTimesOut, RequestCapture, TakeAnswer,
         GiveUp, StoreFile
  <1> QED
    BY <1>3, <1>4, <1>5, <1>6, <1>7, <1>9 DEF Next, AgentRuns

\* What the compositor tells when it serves a request.
LEMMA ServeTells ==
    ASSUME TypeOK, WireTypeOK, ModuleServes, NEW T, T \cap {"format", "malformed", "size", "authorized"} = {}
    PROVE  /\ Has(toAgent', T) => Has(toAgent, T) \/ \E q \in In(toModule) : q.ev \in {"capture", "destroy"}
           /\ Head(toModule).ev \in {"create", "authorize"} =>
                 /\ Has(toAgent', T) <=> Has(toAgent, T)
                 /\ AtMostOne(toAgent, T) => AtMostOne(toAgent', T)
  <1> DEFINE q == Head(toModule)
  <1>1. q \in Query /\ q \in In(toModule)
    BY NextQuery
  <1>2. CASE ServeCreate(q)
    <2>1. PICK a \in Event : /\ Tell(<<a, [ev |-> "size", size |-> output]>>)
                             /\ a.ev \in {"format", "malformed"}
      BY <1>2, EventTypes DEF ServeCreate
    <2>2. [ev |-> "size", size |-> output] \in Event
      BY EventTypes DEF TypeOK
    <2>3. a.ev \notin T /\ "size" \notin T
      BY <2>1
    <2> QED
      BY <2>1, <2>2, <2>3, TellsTwo
  <1>3. CASE ServeAuthorize(q)
    <2>1. [ev |-> "authorized", n |-> q.n] \in Event
      BY <1>1, <1>3, QueryKinds, EventTypes DEF ServeAuthorize, TypeOK
    <2>2. "authorized" \notin T
      OBVIOUS
    <2> QED
      BY <1>3, <2>1, <2>2, TellsOne DEF ServeAuthorize
  <1>4. CASE ServeCapture(q) \/ ServeDestroy(q)
    BY <1>1, <1>4 DEF ServeCapture, ServeDestroy
  <1> QED
    BY <1>2, <1>3, <1>4 DEF ModuleServes

LEMMA ServeFlight ==
    ASSUME TypeOK, WireTypeOK, Flight, ModuleServes
    PROVE  Flight'
  <1> DEFINE q == Head(toModule)
  <1>1. /\ q \in Query /\ q \in In(toModule) /\ In(toModule') \subseteq In(toModule)
        /\ Has(toModule, {"capture"}) <=> q.ev \in {"capture"} \/ Has(toModule', {"capture"})
        /\ AtMostOne(toModule', {"capture"})
        /\ q.ev \in {"capture"} => ~Has(toModule', {"capture"})
    BY NextQuery DEF Flight, OneInFlight
  <1>2. UNCHANGED <<agent, captureNo, answers, written>>
    BY DEF ModuleServes, ServeCreate, ServeAuthorize, ServeCapture, ServeDestroy, agentVars
  <1>3. \A r \in In(toModule') : r.ev = "capture" => r.n = captureNo'
    BY <1>1, <1>2 DEF Flight, FlightIsOwn
  <1>4. CASE ServeCreate(q) \/ ServeAuthorize(q)
    <2>1. /\ Has(toAgent', Channels) <=> Has(toAgent, Channels)
          /\ AtMostOne(toAgent', Channels)
          /\ Has(toAgent', {"complete"}) <=> Has(toAgent, {"complete"})
      <3>1. q.ev \in {"create", "authorize"}
        BY <1>4 DEF ServeCreate, ServeAuthorize
      <3>2. Channels \cap {"format", "malformed", "size", "authorized"} = {}
        BY DEF Channels
      <3> QED
        BY <3>1, <3>2, ServeTells, {"complete"} \cap {"format", "malformed", "size", "authorized"} = {}
           DEF Flight, OneInFlight
    <2>2. UNCHANGED task
      BY <1>4 DEF ServeCreate, ServeAuthorize
    <2> QED
      BY <1>1, <1>2, <1>3, <1>4, <2>1, <2>2 DEF Flight, OneInFlight, FlightIsOwn
  <1>5. CASE ServeCapture(q)
    <2>1. /\ q.ev = "capture" /\ q.n = captureNo /\ ~Has(toModule', {"capture"})
          /\ Has(toModule, {"capture"}) /\ captureNo \in Nat /\ q.n \in 1 .. captureNo
      BY <1>1, <1>5, QueryKinds DEF ServeCapture, Flight, FlightIsOwn, TypeOK
    <2>2. task = 0 /\ ~Has(toAgent, Channels) /\ answers = {} /\ agent = "capturing"
      BY <2>1 DEF Flight, OneInFlight
    <2>3. CASE Tell(<<[ev |-> "retry"]>>) /\ UNCHANGED task
      <3>1. [ev |-> "retry"] \in Event
        BY EventTypes
      <3>2. ~Has(toAgent', {"complete"}) /\ AtMostOne(toAgent', Channels)
        BY <2>2, <2>3, <3>1, TellsOne, Told DEF Flight, OneInFlight
      <3> QED
        BY <1>1, <1>2, <1>3, <2>1, <2>2, <2>3, <3>2 DEF Flight, OneInFlight, FlightIsOwn
    <2>4. CASE task' = q.n /\ UNCHANGED toAgent
      BY <1>1, <1>2, <1>3, <2>1, <2>2, <2>4, Told DEF Flight, OneInFlight, FlightIsOwn
    <2> QED
      BY <1>5, <2>2, <2>3, <2>4 DEF ServeCapture
  <1>6. CASE ServeDestroy(q)
    <2>1. CASE UNCHANGED <<task, toAgent>>
      BY <1>1, <1>2, <1>3, <2>1 DEF Flight, OneInFlight, FlightIsOwn
    <2>2. CASE task = q.n /\ task' = 0 /\ Tell(<<[ev |-> "failed"]>>)
      <3>1. q.n \in 1 .. captureNo /\ captureNo \in Nat
        BY <1>1, <1>6, QueryKinds DEF ServeDestroy, TypeOK
      <3>2. /\ ~Has(toModule, {"capture"}) /\ ~Has(toAgent, Channels) /\ answers = {}
            /\ agent = "capturing"
        BY <2>2, <3>1 DEF Flight, OneInFlight
      <3>3. [ev |-> "failed"] \in Event
        BY EventTypes
      <3>4. ~Has(toAgent', {"complete"}) /\ AtMostOne(toAgent', Channels)
        BY <2>2, <3>2, <3>3, TellsOne, Told DEF Flight, OneInFlight
      <3> QED
        BY <1>1, <1>2, <1>3, <2>2, <3>2, <3>4 DEF Flight, OneInFlight, FlightIsOwn
    <2> QED
      BY <1>6, <2>1, <2>2 DEF ServeDestroy
  <1> QED
    BY <1>4, <1>5, <1>6 DEF ModuleServes

LEMMA RepaintFlight ==
    ASSUME TypeOK, WireTypeOK, RepliesCount, Flight, Repaint
    PROVE  Flight'
  <1>1. UNCHANGED <<agent, captureNo, answers, toModule>> /\ task' = 0
    BY DEF Repaint, agentVars
  <1>2. /\ Has(toAgent', Channels) <=> Has(toAgent, Channels) \/ task # 0
        /\ Has(toAgent', {"complete"}) <=> Has(toAgent, {"complete"}) \/ task # 0
        /\ AtMostOne(toAgent', Channels)
    <2>1. "frame" \notin Channels /\ "complete" \in Channels
      BY DEF Channels
    <2> QED
      BY <2>1, RepaintTells DEF Flight, OneInFlight
  <1>3. ASSUME NEW n \in 1 .. captureNo, written[n] # 0 \/ task = n PROVE written'[n] # 0
    <2>1. n \in 1 .. MaxCaptures /\ repaints + 1 # 0
      BY Bounds DEF TypeOK
    <2> QED
      BY <1>3, <2>1 DEF Repaint, TypeOK
  <1>4. CASE task # 0
    <2>1. task = captureNo /\ captureNo \in 1 .. captureNo
      BY <1>4 DEF Flight, FlightIsOwn, TypeOK
    <2>2. written'[captureNo] # 0
      BY <1>3, <2>1
    <2> QED
      BY <1>1, <1>2, <1>4, <2>2 DEF Flight, OneInFlight, FlightIsOwn
  <1>5. CASE task = 0
    <2>1. ASSUME Has(toAgent, {"complete"}) \/ "complete" \in answers
          PROVE  written'[captureNo] # 0
      <3>1. agent = "capturing" /\ written[captureNo] # 0
        BY <2>1, Told DEF Flight, OneInFlight, FlightIsOwn
      <3>2. captureNo \in 1 .. captureNo
        BY <3>1, WorksOnCapture
      <3> QED
        BY <1>3, <3>1, <3>2
    <2> QED
      BY <1>1, <1>2, <1>5, <2>1 DEF Flight, OneInFlight, FlightIsOwn
  <1> QED
    BY <1>4, <1>5

LEMMA OutputFlight ==
    ASSUME TypeOK, WireTypeOK, Flight, OutputChanges, ~misled'
    PROVE  Flight'
  <1>1. UNCHANGED <<agent, captureNo, answers, toModule, task, written>>
    BY DEF OutputChanges, agentVars
  <1>2. output' \in Sizes /\ Tell(<<[ev |-> "size", size |-> output']>>)
    BY DEF OutputChanges
  <1>3. [ev |-> "size", size |-> output'] \in Event
    BY <1>2, EventTypes
  <1>4. /\ Has(toAgent', Channels) <=> Has(toAgent, Channels)
        /\ Has(toAgent', {"complete"}) <=> Has(toAgent, {"complete"})
        /\ AtMostOne(toAgent', Channels)
    <2>1. "size" \notin Channels /\ "size" \notin {"complete"}
      BY DEF Channels
    <2> QED
      BY <1>2, <1>3, <2>1, TellsOne DEF Flight, OneInFlight
  <1> QED
    BY <1>1, <1>4 DEF Flight, OneInFlight, FlightIsOwn

LEMMA DispatchFlight ==
    ASSUME TypeOK, WireTypeOK, Flight, ~Has(toAgent, {"malformed"}), Dispatch
    PROVE  Flight'
  <1> DEFINE e == Head(toAgent)
  <1>1. UNCHANGED <<captureNo, toModule, task, written>>
    BY DEF Dispatch, compositorVars
  <1>2. /\ Has(toAgent, Channels) <=> e.ev \in Channels \/ Has(toAgent', Channels)
        /\ AtMostOne(toAgent', Channels)
        /\ e.ev \in Channels => ~Has(toAgent', Channels)
        /\ Has(toAgent, {"complete"}) <=> e.ev \in {"complete"} \/ Has(toAgent', {"complete"})
        /\ e.ev # "malformed"
    BY NextEvent DEF Flight, OneInFlight
  <1>3. CASE OnAnswer(e)
    <2>1. UNCHANGED agent /\ answers' = answers \cup {e.ev} /\ e.ev \in Channels
      BY <1>3 DEF OnAnswer
    <2>2. answers = {} /\ ~Has(toModule, {"capture"}) /\ task = 0 /\ agent = "capturing"
      BY <1>2, <2>1 DEF Flight, OneInFlight
    <2>3. ~Has(toAgent', Channels) /\ ~Has(toAgent', {"complete"})
      BY <1>2, <2>1, Told
    <2>4. "complete" \in answers' => written[captureNo] # 0
      BY <1>2, <2>1, <2>2 DEF Flight, FlightIsOwn
    <2> QED
      BY <1>1, <1>2, <2>1, <2>2, <2>3, <2>4 DEF Flight, OneInFlight, FlightIsOwn
  <1>4. CASE OnAnnouncement(e) \/ OnFrame(e)
    <2>1. UNCHANGED <<agent, answers>>
      BY <1>2, <1>4 DEF OnAnnouncement, OnFrame
    <2> QED
      BY <1>1, <1>2, <2>1 DEF Flight, OneInFlight, FlightIsOwn
  <1>5. CASE OnAuthorized(e)
    <2>1. UNCHANGED answers /\ (agent = "capturing" => agent' = agent)
      BY <1>5 DEF OnAuthorized
    <2> QED
      BY <1>1, <1>2, <2>1 DEF Flight, OneInFlight, FlightIsOwn
  <1> QED
    BY <1>3, <1>4, <1>5 DEF Dispatch

LEMMA AgentFlight ==
    ASSUME TypeOK, WireTypeOK, RepliesCount, Flight, ~source'.retired, ~source.retired,
           AgentRuns \/ StartCapture \/ AuthorizationTimesOut \/ GiveUp
    PROVE  Flight'
  <1>1. UNCHANGED <<task, written, toAgent>>
    BY DEF AgentRuns, Attach, SetUp, StartCapture, AuthorizationTimesOut, RequestCapture, TakeAnswer,
           GiveUp, StoreFile, ReadFrame, quietVars, compositorVars
  <1>2. ~GiveUp
    BY DEF GiveUp, TypeOK
  <1>3. CASE agent # "capturing"
    <2>1. ~Has(toModule, {"capture"}) /\ task = 0 /\ ~Has(toAgent, Channels) /\ answers = {}
      BY <1>3 DEF Flight, OneInFlight
    <2>2. ~Has(toAgent, {"complete"}) /\ answers' = {}
      BY <1>2, <1>3, <2>1, Told DEF AgentRuns, Attach, SetUp, StartCapture, AuthorizationTimesOut,
         RequestCapture, TakeAnswer, StoreFile, ReadFrame
    <2>3. CASE agent' = "capturing" /\ UNCHANGED captureNo
               /\ Request([ev |-> "capture", n |-> captureNo, size |-> source.size])
      <3>1. /\ In(toModule') = In(toModule) \cup {[ev |-> "capture", n |-> captureNo, size |-> source.size]}
            /\ AtMostOne(toModule', {"capture"})
        BY <2>1, <2>3, AgentAsks DEF Flight, OneInFlight
      <3> QED
        BY <1>1, <2>1, <2>2, <2>3, <3>1 DEF Flight, OneInFlight, FlightIsOwn
    <2>4. CASE UNCHANGED toModule \/ \E q : q.ev # "capture" /\ Request(q)
      <3>1. /\ ~Has(toModule', {"capture"}) /\ AtMostOne(toModule', {"capture"})
        BY <2>1, <2>4, AgentAsks DEF Flight, OneInFlight
      <3>2. \A q \in In(toModule') : q.ev # "capture"
        BY <3>1 DEF Has
      <3> QED
        BY <1>1, <2>1, <2>2, <3>1, <3>2 DEF Flight, OneInFlight, FlightIsOwn
    <2> QED
      BY <1>2, <1>3, <2>3, <2>4 DEF AgentRuns, Attach, SetUp, StartCapture, AuthorizationTimesOut,
         RequestCapture, TakeAnswer, StoreFile, ReadFrame
  <1>4. CASE agent = "capturing"
    <2>1. TakeAnswer
      BY <1>2, <1>4 DEF AgentRuns, Attach, SetUp, StartCapture, AuthorizationTimesOut, RequestCapture,
         StoreFile, ReadFrame
    <2>2. PICK channel \in answers : answers' = answers \ {channel}
      BY <2>1 DEF TakeAnswer
    <2>3. /\ answers' = {} /\ ~Has(toModule, {"capture"}) /\ task = 0 /\ ~Has(toAgent, Channels)
      BY <2>2 DEF Flight, OneInFlight
    <2>4. UNCHANGED captureNo /\ Request([ev |-> "destroy", n |-> captureNo])
      BY <2>1 DEF TakeAnswer, ReleaseBuffer
    <2>5. /\ ~Has(toModule', {"capture"}) /\ AtMostOne(toModule', {"capture"})
      BY <2>3, <2>4, AgentAsks DEF Flight, OneInFlight
    <2>6. \A q \in In(toModule') : q.ev # "capture"
      BY <2>5 DEF Has
    <2> QED
      BY <1>1, <2>3, <2>4, <2>5, <2>6, Told DEF Flight, OneInFlight, FlightIsOwn
  <1> QED
    BY <1>3, <1>4

\* No event that could mislead the agent is on the wire.
LEMMA NothingMalformed ==
    ASSUME TypeOK, WireTypeOK, ~Has(toAgent, {"malformed"}), [Next]_vars, ~misled'
    PROVE  ~Has(toAgent', {"malformed"})
  <1>1. ASSUME NEW a \in Event, Tell(<<a>>), a.ev # "malformed" PROVE ~Has(toAgent', {"malformed"})
    BY <1>1, TellsOne
  <1>2. CASE ModuleServes
    <2> DEFINE q == Head(toModule)
    <2>1. q \in Query
      BY <1>2, NextQuery
    <2>2. CASE ServeCreate(q)
      <3>1. /\ [ev |-> "format"] \in Event /\ [ev |-> "size", size |-> output] \in Event
            /\ Tell(<<[ev |-> "format"], [ev |-> "size", size |-> output]>>)
        BY <2>2, EventTypes DEF ServeCreate, TypeOK
      <3> QED
        BY <3>1, TellsTwo
    <2>3. CASE ServeAuthorize(q)
      <3>1. [ev |-> "authorized", n |-> q.n] \in Event
        BY <2>1, <2>3, QueryKinds, EventTypes DEF ServeAuthorize, TypeOK
      <3> QED
        BY <1>1, <2>3, <3>1 DEF ServeAuthorize
    <2>4. CASE ServeCapture(q) \/ ServeDestroy(q)
      BY <1>1, <2>4, EventTypes DEF ServeCapture, ServeDestroy
    <2> QED
      BY <1>2, <2>2, <2>3, <2>4 DEF ModuleServes
  <1>3. CASE Repaint
    BY <1>3, RepaintTells
  <1>4. CASE OutputChanges
    BY <1>1, <1>4, EventTypes DEF OutputChanges
  <1>5. CASE Dispatch
    BY <1>5, NextEvent
  <1>6. CASE AgentRuns \/ StartCapture \/ AuthorizationTimesOut \/ GiveUp \/ UNCHANGED vars
    BY <1>6 DEF AgentRuns, Attach, SetUp, StartCapture, AuthorizationTimesOut, RequestCapture,
       TakeAnswer, GiveUp, StoreFile, ReadFrame, quietVars, vars
  <1> QED
    BY <1>2, <1>3, <1>4, <1>5, <1>6 DEF Next

LEMMA FlightStep ==
    ASSUME IInv, Sound, [Next]_vars, ~misled', ~source'.retired
    PROVE  Flight'
  <1>1. source.retired \in BOOLEAN /\ ~source.retired
    <2>1. source.retired => source'.retired
      BY DEF Next, ModuleServes, Repaint, OutputChanges, Dispatch, OnAnswer, OnAnnouncement, OnFrame,
         OnAuthorized, AgentRuns, Attach, SetUp, StartCapture, AuthorizationTimesOut, RequestCapture,
         TakeAnswer, GiveUp, StoreFile, ReadFrame, vars, agentVars, IInv, TypeOK
    <2> QED
      BY <2>1 DEF IInv, TypeOK
  <1>2. /\ TypeOK /\ WireTypeOK /\ RepliesCount /\ Flight /\ ~Has(toAgent, {"malformed"})
    BY <1>1 DEF IInv, Sound, Flight
  <1>3. CASE UNCHANGED vars
    BY <1>2, <1>3 DEF vars, agentVars, compositorVars, Flight, OneInFlight, FlightIsOwn
  <1> QED
    BY <1>1, <1>2, <1>3, ServeFlight, RepaintFlight, OutputFlight, DispatchFlight, AgentFlight DEF Next

-----------------------------------------------------------------------------
(***************************************************************************)
(* The theorems.                                                           *)
(***************************************************************************)
\* Every step of the compositor, the dispatch goroutine and the agent keeps
\* the invariant (the select in internal/capture/screenshot.go and the handlers
\* that feed it).
THEOREM Inductive == Spec => []IInv
  <1>1. ASSUME IInv, [Next]_vars PROVE IInv'
    <2>1. TypeOK' /\ WireTypeOK' /\ RepliesCount' /\ NothingBeforeCreation' /\ RetiredIsIdle'
      BY <1>1, TypeStep, CountStep, CreationStep, RetiredStep DEF IInv
    <2>2. ASSUME ~misled' PROVE Sound'
      <3>1. Sound
        BY <1>1, <2>2, NotMisledBefore
      <3>2. OwnPicture' /\ ~Has(toAgent', {"malformed"}) /\ (~source'.retired => Flight')
        BY <1>1, <2>2, <3>1, OwnPictureStep, NothingMalformed, FlightStep DEF IInv, Sound
      <3> QED
        BY <3>2 DEF Sound, Flight
    <2> QED
      BY <2>1, <2>2 DEF IInv
  <1> QED
    BY <1>1, InitInv, PTL DEF Spec

\* The variables have their types, and a capture number in the compositor is
\* one the agent has given out, whatever the bounds.
THEOREM CaptureTypeCorrect == Spec => []TypeOK
  BY Inductive, PTL DEF IInv

\* A reported picture was painted into the buffer of its own request, however
\* many captures time out, are refused or fail: retiring the source after an
\* unanswered request is what makes answers without numbers safe.
THEOREM OwnPictureReported == Spec => []PictureIsItsOwn
  <1>1. IInv => PictureIsItsOwn
    BY DEF IInv, Sound, PictureIsItsOwn
  <1> QED
    BY <1>1, Inductive, PTL

=============================================================================
