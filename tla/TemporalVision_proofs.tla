------------------------ MODULE TemporalVision_proofs ------------------------
(***************************************************************************)
(* Proofs about the commands that look at a session over time: samples on  *)
(* their deadlines, stillness, waits that miss nothing, and manifests that *)
(* describe their pictures, for every schedule, number of commands, length *)
(* of captures and pattern of failures.                                    *)
(***************************************************************************)
EXTENDS TemporalVision, SequenceTheorems, FiniteSetTheorems, TLAPS

(***************************************************************************)
(* The inductive invariant, command by command.                            *)
(***************************************************************************)
Asking == {"capturing", "captured"}
Active == {"waiting"} \cup Asking

\* Which job may be where, and what a command that has not begun holds.
Placed(r) ==
    /\ r.pc = "idle" => r.index = 0 /\ r.completed = 0 /\ r.seen = << >> /\ r.samples = << >>
                        /\ r.current = NoScene /\ r.last = None /\ r.stored = 0 /\ r.asked = 0
    /\ r.pc = "publishing" => r.job = "burst"
    /\ r.pc = "waiting" => r.job # "screenshot"
    /\ r.pc = "timed_out" => r.job \in Waits
    /\ r.job = "exit" => r.pc \in {"idle", "waiting", "done", "timed_out", "interrupted"}
    /\ r.pc = "captured" => r.got \in Scene

\* The deadline of a sample or a probe, and a sample before it that lasted past it.
SlotOf(r, i) == r.start + (i - 1) * Interval
LateIn(r, i) == \E j \in 1 .. i - 1 : r.samples[j].completed > SlotOf(r, i)

\* A burst goes on with the first deadline that no sample lasted past.
BurstOnTime(r) ==
    /\ r.pc \in Active => Len(r.samples) = r.index /\ r.index < r.frames
    /\ r.pc \in Active => \A j \in 1 .. Len(r.samples) : r.samples[j].completed <= Scheduled(r)
    /\ r.pc \in Asking => Scheduled(r) <= r.asked
    /\ \A i \in 1 .. Len(r.samples) :
          IF r.samples[i].status = "missed" THEN LateIn(r, i)
          ELSE SlotOf(r, i) <= r.samples[i].asked /\ ~LateIn(r, i)

\* The probes since the picture last changed: each over by the deadline of the next.
Still(r) ==
    \E first \in 1 .. Len(r.seen) :
        /\ r.seen[first].asked = r.since
        /\ \A i \in first .. Len(r.seen) :
              /\ r.seen[i].scene = r.current
              /\ SlotOf(r, i) <= r.seen[i].asked
              /\ i < Len(r.seen) => r.seen[i].completed <= SlotOf(r, i + 1)

\* A stability wait remembers a picture only while no capture lasted past the
\* deadline of the next probe.
StableOnTime(r) ==
    /\ r.pc \in Active => Len(r.seen) = r.index
    /\ r.pc = "waiting" /\ r.seen # << >> => r.completed = r.seen[Len(r.seen)].completed
    /\ r.pc \in Asking => Scheduled(r) <= r.asked
    /\ r.pc \in Asking /\ r.current # NoScene
          => r.seen[Len(r.seen)].completed <= Scheduled(r)
    /\ r.pc \in Active /\ r.current # NoScene => Still(r)
    /\ r.pc = "done" => Still(r) /\ r.seen[Len(r.seen)].asked - r.since >= StableFor

\* An end an exit wait goes on without was saved after its last look.
ExitOnTime(r, now, ended, saved) ==
    r.pc \in {"waiting", "timed_out"} =>
        /\ r.asked <= now
        /\ ended < r.start \/ r.asked <= saved
        /\ r.index > 0 /\ ~r.blind => Scheduled(r) - Interval <= r.asked

OnSchedule(r, now, ended, saved) ==
    /\ Placed(r)
    /\ r.job = "burst" => BurstOnTime(r)
    /\ r.job = "stable" => StableOnTime(r)
    /\ r.job = "exit" => ExitOnTime(r, now, ended, saved)

IInv ==
    /\ TypeOK
    /\ scene.revision <= changes
    /\ \A m \in Commands : OnSchedule(run[m], clock, exitAt, savedAt)

(***************************************************************************)
(* What bursts with an output each add to it.                              *)
(***************************************************************************)
Described(sample, output, stored) ==
    sample.status \in {"captured", "deduplicated"}
        => sample.name # 0 /\ stored[<<output, sample.name>>] = sample.picture

\* The pictures of a burst are where its samples say, under the names of the
\* frames dealt with so far.
Stored(r, stored) ==
    /\ \A i \in 1 .. Len(r.samples) : Described(r.samples[i], r.output, stored)
    /\ r.pc \in Active =>
          /\ \A i \in 1 .. Len(r.samples) : r.samples[i].name <= r.index
          /\ r.last # None => /\ r.lastName \in 1 .. r.index
                              /\ stored[<<r.output, r.lastName>>] = r.last

\* A manifest is the work of a burst that is over.
Published(d) == \E m \in Commands : run[m].job = "burst" /\ run[m].output = d /\ run[m].pc = "done"

SeparateInv ==
    /\ \A a, b \in Commands :
          a # b /\ run[a].job = "burst" /\ run[b].job = "burst" => run[a].output # run[b].output
    /\ \A m \in Commands : run[m].job = "burst" => Stored(run[m], artifacts)
    /\ \A d \in Directories :
          /\ manifests[d] # << >> => Published(d)
          /\ \A i \in 1 .. Len(manifests[d]) : Described(manifests[d][i], d, artifacts)

-----------------------------------------------------------------------------
LEMMA Parameters ==
    /\ Interval \in Nat \ {0} /\ StableFor \in Nat \ {0} /\ Timeout \in Nat \ {0}
    /\ FrameCount \in Nat \ {0} /\ LastTick \in Nat \ {0}
    /\ StoredCap \in Nat /\ LastStart \in Nat /\ MaxChanges \in Nat /\ MaxFailures \in Nat
    /\ Scenarios \subseteq [Commands -> [job : Jobs, output : Directories, frames : 1 .. FrameCount]]
    /\ None \notin Pictures
  BY VisionAssumption

LEMMA Intervals ==
    ASSUME NEW i \in Nat
    PROVE  /\ i * Interval \in Nat /\ (i + 1) * Interval = i * Interval + Interval
           /\ 0 * Interval = 0
           /\ \A j \in Nat : i <= j => i * Interval <= j * Interval
  <1>1. i * Interval \in Nat /\ (i + 1) * Interval = i * Interval + Interval /\ 0 * Interval = 0
    BY Parameters
  <1>2. ASSUME NEW j \in Nat, i <= j PROVE i * Interval <= j * Interval
    <2>1. j - i \in Nat /\ j = i + (j - i)
      BY <1>2
    <2>2. \A n \in Nat : n * Interval \in Nat /\ (i + n) * Interval = i * Interval + n * Interval
      BY Parameters
    <2>3. j * Interval = i * Interval + (j - i) * Interval /\ (j - i) * Interval \in Nat
      BY <2>1, <2>2
    <2> QED
      BY <1>1, <2>3
  <1> QED
    BY <1>1, <1>2

LEMMA EarlierOf ==
    ASSUME NEW a \in Nat, NEW b \in Nat
    PROVE  Min({a, b}) = IF a <= b THEN a ELSE b
  <1> DEFINE least == IF a <= b THEN a ELSE b
  <1>1. least \in {a, b} /\ \A y \in {a, b} : least <= y
    OBVIOUS
  <1>2. \A x \in {a, b} : (\A y \in {a, b} : x <= y) => x = least
    OBVIOUS
  <1> QED
    BY <1>1, <1>2 DEF Min

LEMMA Fields ==
    ASSUME NEW r \in Run
    PROVE  /\ r.job \in Jobs /\ r.output \in Directories /\ r.start \in Nat /\ r.index \in Nat
           /\ r.asked \in Nat /\ r.blind \in BOOLEAN /\ r.since \in Nat /\ r.completed \in Nat /\ r.stored \in Nat
           /\ r.got \in Scene \cup {NoScene} /\ r.current \in Scene \cup {NoScene}
           /\ r.seen \in Seq(Probe) /\ r.samples \in Seq(Sample)
           /\ r.frames \in 1 .. FrameCount /\ r.frames \in Nat
           /\ r.last \in Pictures \cup {None} /\ r.lastName \in Names
           /\ r.pc \in {"idle", "waiting", "capturing", "captured", "publishing",
                        "done", "failed", "timed_out", "interrupted"}
           /\ Len(r.seen) \in Nat /\ Len(r.samples) \in Nat
  BY LenProperties, Parameters DEF Run

\* The times of a command.
LEMMA Deadlines ==
    ASSUME NEW r \in Run
    PROVE  /\ Scheduled(r) \in Nat /\ Deadline(r) \in Nat /\ WakesAt(r) \in Nat
           /\ r.start <= Scheduled(r) /\ Deadline(r) = r.start + Timeout
           /\ r.index = 0 => Scheduled(r) = r.start
           /\ r.job \notin Waits => WakesAt(r) = Scheduled(r)
           /\ r.job \in Waits
                 => WakesAt(r) = IF Scheduled(r) <= Deadline(r) THEN Scheduled(r) ELSE Deadline(r)
  <1>1. r.start \in Nat /\ r.index * Interval \in Nat /\ 0 * Interval = 0
    BY Fields, Intervals
  <1>2. Scheduled(r) \in Nat /\ Deadline(r) \in Nat
    BY <1>1, Parameters DEF Scheduled, Deadline
  <1>3. Min({Scheduled(r), Deadline(r)}) = IF Scheduled(r) <= Deadline(r) THEN Scheduled(r) ELSE Deadline(r)
    BY <1>2, EarlierOf
  <1> QED
    BY <1>1, <1>2, <1>3 DEF Scheduled, Deadline, WakesAt

\* A job's next deadline is one interval after this one.
LEMMA NextDeadline ==
    ASSUME NEW r \in Run, NEW s \in Run, s.start = r.start, s.index = r.index + 1
    PROVE  Scheduled(s) = Scheduled(r) + Interval
  <1> DEFINE here == r.index * Interval
             next == s.index * Interval
  <1>1. next = here + Interval /\ here \in Nat /\ r.start \in Nat /\ Interval \in Nat
    BY Fields, Intervals, Parameters
  <1>2. Scheduled(r) = r.start + here /\ Scheduled(s) = r.start + next
    BY DEF Scheduled
  <1> HIDE DEF here, next
  <1> QED
    BY <1>1, <1>2

LEMMA InitInv == Init => IInv
  <1> SUFFICES ASSUME Init PROVE IInv
    OBVIOUS
  <1>1. PICK what \in Scenarios : run = [m \in Commands |-> Idle(what[m])]
    BY DEF Init
  <1>2. \A m \in Commands : what[m] \in [job : Jobs, output : Directories, frames : 1 .. FrameCount]
    BY <1>1, Parameters
  <1>3. ASSUME NEW m \in Commands
        PROVE  /\ run[m] \in Run /\ OnSchedule(run[m], clock, exitAt, savedAt)
               /\ run[m].stored = 0 /\ run[m].samples = << >>
    <2>1. run[m] = Idle(what[m])
      BY <1>1
    <2>2. 0 \in Names /\ << >> \in Seq(Probe) /\ << >> \in Seq(Sample)
      BY EmptySeq DEF Names
    <2>3. run[m] \in Run
      BY <1>2, <2>1, <2>2 DEF Idle, Run
    <2>4. run[m].pc = "idle" /\ Placed(run[m])
      BY <1>2, <2>1 DEF Idle, Placed, Waits
    <2>5. run[m].stored = 0 /\ run[m].samples = << >>
      BY <2>1 DEF Idle
    <2> QED
      BY <2>1, <2>3, <2>4, <2>5 DEF OnSchedule, BurstOnTime, StableOnTime, ExitOnTime, Active, Asking
  <1>4. run \in [Commands -> Run]
    BY <1>1, <1>3
  <1>5. \A m \in Commands : run[m].stored <= StoredCap /\ Len(run[m].samples) <= run[m].frames
    <2>1. 0 <= StoredCap /\ \A n \in 1 .. FrameCount : Len(<< >>) <= n
      BY Parameters
    <2> QED
      BY <1>3, <2>1, Fields
  <1>6. scene \in Scene /\ scene.revision <= changes
    BY Parameters DEF Init, Scene
  <1>7. /\ savedAt \in 0 .. clock /\ exitAt \in 0 .. savedAt /\ held \subseteq 0 .. clock
        /\ clock \in 0 .. LastTick
    BY Parameters DEF Init
  <1>8. /\ files \in [{"scratch"} \cup Directories -> Pictures \cup {None}]
        /\ artifacts \in [Directories \X Names -> Pictures \cup {None}]
    BY DEF Init
  <1>9. manifests \in [Directories -> Seq(Sample)]
    BY EmptySeq DEF Init
  <1>10. changes \in 0 .. MaxChanges /\ failures \in 0 .. MaxFailures
    BY Parameters DEF Init
  <1> QED
    BY <1>3, <1>4, <1>5, <1>6, <1>7, <1>8, <1>9, <1>10 DEF IInv, TypeOK

-----------------------------------------------------------------------------
(***************************************************************************)
(* The burst's deadlines.                                                  *)
(***************************************************************************)
\* The deadlines that passed are the next ones: each that is skipped has passed,
\* and the one that is skipped to has not.
LEMMA PassedAreNext ==
    ASSUME NEW r \in Run, clock \in Nat, r.index < r.frames
    PROVE  LET skipped == Cardinality(PassedDuring(r)) IN
           /\ skipped \in Nat /\ r.index + 1 + skipped <= r.frames
           /\ r.index + 1 + skipped < r.frames
                 => clock <= r.start + (r.index + 1 + skipped) * Interval
           /\ \A i \in r.index + 1 .. r.index + skipped : r.start + i * Interval < clock
  <1> DEFINE first == r.index + 1
             final == r.frames - 1
             passed == PassedDuring(r)
             skipped == Cardinality(passed)
             after == first + skipped
  <1>1. /\ r.start \in Nat /\ first \in Nat /\ final \in Nat /\ r.frames = final + 1
        /\ first <= final + 1
    BY Fields, Parameters
  <1>2. passed = {i \in first .. final : r.start + i * Interval < clock}
    BY DEF PassedDuring
  <1>3. after = r.index + 1 + skipped
    OBVIOUS
  <1> HIDE DEF first, final, passed
  <1>4. /\ IsFiniteSet(first .. final)
        /\ Cardinality(first .. final) = IF first > final THEN 0 ELSE final - first + 1
    <2>1. first \in Int /\ final \in Int
      BY <1>1
    <2> QED
      BY <2>1, FS_Interval
  <1>5. passed \subseteq first .. final
    BY <1>2
  <1>6. IsFiniteSet(passed) /\ skipped \in Nat /\ skipped <= Cardinality(first .. final)
    BY <1>4, <1>5, FS_Subset, FS_CardinalityType
  <1> HIDE DEF skipped
  <1>7. after \in Nat /\ after <= r.frames
    BY <1>1, <1>4, <1>6
  <1>8. ASSUME after < r.frames, ~(clock <= r.start + after * Interval)
        PROVE  FALSE
    <2>1. after <= final /\ first <= after
      BY <1>1, <1>6, <1>7, <1>8
    <2> HIDE DEF after
    <2> DEFINE elapsed == after * Interval
    <2>2. elapsed \in Nat
      BY <1>7, Intervals
    <2>3. r.start + elapsed < clock
      <3>1. ~(clock <= r.start + elapsed)
        BY <1>8
      <3> HIDE DEF elapsed
      <3> QED
        BY <1>1, <2>2, <3>1
    <2>4. ASSUME NEW i \in first .. after PROVE i \in passed
      <3>1. i \in Nat /\ i <= after /\ i \in first .. final
        BY <1>1, <1>7, <2>1
      <3>2. i * Interval <= elapsed /\ i * Interval \in Nat
        BY <1>7, <3>1, Intervals
      <3>3. r.start + i * Interval < clock
        BY <1>1, <2>2, <2>3, <3>2
      <3> QED
        BY <1>2, <3>1, <3>3
    <2>5. Cardinality(first .. after) = after - first + 1
      BY <1>1, <1>7, <2>1, FS_Interval
    <2>6. first .. after \subseteq passed
      BY <2>4
    <2>7. Cardinality(first .. after) <= Cardinality(passed)
      BY <1>6, <2>6, FS_Subset
    <2> QED
      BY <1>1, <1>6, <1>7, <2>5, <2>7 DEF after, skipped
  <1>9. ASSUME NEW i \in first .. first + skipped - 1, ~(r.start + i * Interval < clock)
        PROVE  FALSE
    <2>1. i \in Nat /\ first <= i /\ i < first + skipped
      BY <1>1, <1>6
    <2> DEFINE elapsed == i * Interval
    <2>2. elapsed \in Nat
      BY <2>1, Intervals
    <2>3. clock <= r.start + elapsed
      <3>1. ~(r.start + elapsed < clock)
        BY <1>9
      <3> HIDE DEF elapsed
      <3> QED
        BY <1>1, <2>2, <3>1
    <2>4. ASSUME NEW j \in passed PROVE j \in first .. i - 1
      <3>1. j \in Nat /\ first <= j
        BY <1>1, <1>5
      <3>2. ASSUME i <= j PROVE FALSE
        <4>1. elapsed <= j * Interval /\ j * Interval \in Nat
          BY <2>1, <3>1, <3>2, Intervals
        <4>2. r.start + j * Interval < clock
          BY <1>2, <2>4
        <4> HIDE DEF elapsed
        <4> QED
          BY <1>1, <2>2, <2>3, <4>1, <4>2
      <3> QED
        BY <1>1, <2>1, <3>1, <3>2
    <2>5. passed \subseteq first .. i - 1
      BY <2>4
    <2>6. /\ IsFiniteSet(first .. i - 1)
          /\ Cardinality(first .. i - 1) = IF first > i - 1 THEN 0 ELSE (i - 1) - first + 1
      <3>1. first \in Int /\ i - 1 \in Int
        BY <1>1, <2>1
      <3> QED
        BY <3>1, FS_Interval
    <2>7. Cardinality(passed) <= Cardinality(first .. i - 1)
      BY <2>5, <2>6, FS_Subset
    <2> QED
      BY <1>1, <1>6, <2>1, <2>6, <2>7 DEF skipped
  <1>10. skipped = Cardinality(PassedDuring(r))
    BY DEF skipped, passed
  <1>11. \A i \in r.index + 1 .. r.index + skipped : r.start + i * Interval < clock
    <2>1. r.index \in Nat /\ first = r.index + 1
      BY Fields DEF first
    <2>2. first + skipped - 1 = r.index + skipped
      BY <1>6, <2>1
    <2> QED
      BY <1>9, <2>1, <2>2
  <1> QED
    BY <1>3, <1>6, <1>7, <1>8, <1>10, <1>11

LEMMA RecordsTyped ==
    ASSUME NEW r \in Run, NEW sample \in Sample, clock \in Nat, r.index < r.frames,
           Len(r.samples) = r.index
    PROVE  LET n == Records(r, sample)
               skipped == Cardinality(PassedDuring(r)) IN
           /\ n \in Run /\ n.job = r.job /\ n.output = r.output /\ n.start = r.start
           /\ n.frames = r.frames
           /\ n.index = r.index + 1 + skipped /\ skipped \in Nat
           /\ n.pc = IF n.index = r.frames THEN "publishing" ELSE "waiting"
           /\ n.current = r.current /\ n.seen = r.seen
           /\ n.last = r.last /\ n.lastName = r.lastName /\ n.stored = r.stored
           /\ Len(n.samples) = n.index
           /\ n.samples[r.index + 1] = sample
           /\ \A i \in 1 .. r.index : n.samples[i] = r.samples[i]
           /\ \A i \in r.index + 2 .. n.index : n.samples[i] = Missed
  <1> DEFINE skipped == Cardinality(PassedDuring(r))
             before == Append(r.samples, sample)
             missed == [i \in 1 .. skipped |-> Missed]
             all == before \o missed
  <1>1. skipped \in Nat /\ r.index \in Nat /\ r.samples \in Seq(Sample)
    BY PassedAreNext, Fields
  <1>2. /\ before \in Seq(Sample) /\ Len(before) = r.index + 1 /\ before[r.index + 1] = sample
        /\ \A i \in 1 .. r.index : before[i] = r.samples[i]
    BY <1>1, AppendProperties
  <1>3. Missed \in Sample
    BY DEF Missed, Sample, Statuses, Names
  <1>4. missed \in Seq(Sample) /\ Len(missed) = skipped
    BY <1>1, <1>3
  <1>5. \A i \in 1 .. skipped : missed[i] = Missed
    OBVIOUS
  <1> HIDE DEF before, missed, skipped
  <1>6. /\ all \in Seq(Sample) /\ Len(all) = Len(before) + Len(missed)
        /\ \A i \in 1 .. Len(before) + Len(missed) :
              all[i] = IF i <= Len(before) THEN before[i] ELSE missed[i - Len(before)]
    BY <1>2, <1>4, ConcatProperties
  <1>7. all[r.index + 1] = sample /\ \A i \in 1 .. r.index : all[i] = r.samples[i]
    BY <1>1, <1>2, <1>4, <1>6
  <1> HIDE DEF all
  <1>8. ASSUME NEW i \in r.index + 2 .. r.index + 1 + skipped PROVE all[i] = Missed
    <2>1. i \in 1 .. Len(before) + Len(missed) /\ ~(i <= Len(before))
      BY <1>1, <1>2, <1>4
    <2>2. i - Len(before) \in 1 .. skipped
      BY <1>1, <1>2, <1>4
    <2> QED
      BY <1>5, <1>6, <2>1, <2>2
  <1>9. Records(r, sample)
        = [Settles(r) EXCEPT !.samples = all, !.index = r.index + 1 + skipped,
              !.pc = IF r.index + 1 + skipped = r.frames THEN "publishing" ELSE "waiting"]
    BY DEF Records, Settles, all, before, missed, skipped, Run
  <1>10. Settles(r) \in Run
    BY DEF Settles, Run
  <1>11. r.index + 1 + skipped \in Nat
    BY <1>1
  <1>12. Records(r, sample) \in Run
    BY <1>6, <1>9, <1>10, <1>11 DEF Run
  <1> QED
    BY <1>1, <1>2, <1>4, <1>6, <1>7, <1>8, <1>9, <1>12 DEF Settles, Run, skipped

\* A sample taken at or after its deadline, after samples that did not last past it.
LEMMA SampleOnTime ==
    ASSUME NEW q \in Run, NEW r \in Run, NEW sample \in Sample, q.pc \in Asking, BurstOnTime(q),
           sample.status # "missed", sample.asked = q.asked,
           r.start = q.start, q.index < Len(r.samples), r.samples[q.index + 1] = sample,
           \A i \in 1 .. q.index : r.samples[i] = q.samples[i]
    PROVE  \A i \in 1 .. q.index + 1 :
              IF r.samples[i].status = "missed" THEN LateIn(r, i)
              ELSE SlotOf(r, i) <= r.samples[i].asked /\ ~LateIn(r, i)
  <1>1. q.index \in Nat /\ Len(q.samples) = q.index /\ q.samples \in Seq(Sample)
    BY Fields DEF BurstOnTime, Active
  <1>2. SUFFICES ASSUME NEW i \in 1 .. q.index + 1
                 PROVE  IF r.samples[i].status = "missed" THEN LateIn(r, i)
                        ELSE SlotOf(r, i) <= r.samples[i].asked /\ ~LateIn(r, i)
    OBVIOUS
  <1>3. SlotOf(r, i) = SlotOf(q, i)
    BY DEF SlotOf
  <1>4. \A j \in 1 .. i - 1 : j \in 1 .. q.index /\ r.samples[j] = q.samples[j]
    BY <1>1
  <1>5. LateIn(r, i) <=> LateIn(q, i)
    BY <1>3, <1>4 DEF LateIn
  <1>6. CASE i \in 1 .. q.index
    BY <1>1, <1>3, <1>5, <1>6 DEF BurstOnTime
  <1>7. CASE i = q.index + 1
    <2>1. SlotOf(q, i) = Scheduled(q)
      <3>1. i - 1 = q.index
        BY <1>1, <1>7
      <3> QED
        BY <3>1 DEF SlotOf, Scheduled
    <2>2. ASSUME NEW j \in 1 .. i - 1 PROVE ~(q.samples[j].completed > Scheduled(q))
      <3>1. j \in 1 .. Len(q.samples)
        BY <1>1, <1>4
      <3>2. q.samples[j] \in Sample
        BY <1>1, <3>1, ElementOfSeq
      <3>3. q.samples[j].completed \in Nat /\ Scheduled(q) \in Nat
        BY <3>2, Deadlines DEF Sample
      <3>4. q.samples[j].completed <= Scheduled(q)
        BY <3>1 DEF BurstOnTime, Active
      <3> QED
        BY <3>3, <3>4
    <2>3. ~LateIn(q, i)
      BY <2>1, <2>2 DEF LateIn
    <2>4. Scheduled(q) <= sample.asked
      BY DEF BurstOnTime
    <2> QED
      BY <1>3, <1>5, <1>7, <2>1, <2>3, <2>4
  <1> QED
    BY <1>1, <1>6, <1>7

LEMMA RecordsOnTime ==
    ASSUME NEW r \in Run, NEW sample \in Sample, clock \in Nat, NEW ended, NEW saved,
           r.job = "burst", r.pc \in Asking, Placed(r), BurstOnTime(r),
           sample.status # "missed", sample.asked = r.asked, sample.completed = clock
    PROVE  /\ Records(r, sample) \in Run /\ OnSchedule(Records(r, sample), clock, ended, saved)
           /\ Len(Records(r, sample).samples) <= r.frames
  <1> DEFINE n == Records(r, sample)
             skipped == Cardinality(PassedDuring(r))
  <1>1. r.index \in Nat /\ r.index < r.frames /\ Len(r.samples) = r.index /\ r.start \in Nat
        /\ r.samples \in Seq(Sample)
    BY Fields DEF BurstOnTime, Active
  <1>2. /\ n \in Run /\ n.job = r.job /\ n.start = r.start /\ n.frames = r.frames /\ skipped \in Nat
        /\ n.index = r.index + 1 + skipped
        /\ n.pc = IF n.index = r.frames THEN "publishing" ELSE "waiting"
        /\ Len(n.samples) = n.index /\ n.samples[r.index + 1] = sample
        /\ \A i \in 1 .. r.index : n.samples[i] = r.samples[i]
        /\ \A i \in r.index + 2 .. n.index : n.samples[i] = Missed
    BY <1>1, RecordsTyped
  <1>3. /\ skipped \in Nat /\ r.index + 1 + skipped <= r.frames
        /\ r.index + 1 + skipped < r.frames
              => clock <= r.start + (r.index + 1 + skipped) * Interval
        /\ \A i \in r.index + 1 .. r.index + skipped : r.start + i * Interval < clock
    BY <1>1, PassedAreNext
  <1> HIDE DEF n, skipped
  <1>4. n.index \in Nat /\ n.index <= r.frames /\ r.frames \in Nat /\ r.index < n.index
    <2>1. r.frames \in Nat /\ n.index = r.index + 1 + skipped
      BY <1>2, Fields
    <2> QED
      BY <1>1, <1>3, <2>1
  <1>5. n.pc = "waiting" => n.index < n.frames /\ clock <= Scheduled(n)
    <2>1. n.pc = "waiting" => n.index < r.frames
      BY <1>2, <1>4
    <2> QED
      BY <1>2, <1>3, <2>1 DEF Scheduled
  <1>6. ASSUME NEW j \in 1 .. Len(n.samples), n.pc = "waiting"
        PROVE  n.samples[j].completed <= Scheduled(n)
    <2>1. Scheduled(r) \in Nat /\ Scheduled(n) \in Nat /\ Scheduled(r) <= Scheduled(n)
      <3>1. r.index * Interval <= n.index * Interval
        <4>1. r.index <= n.index
          BY <1>1, <1>4
        <4> QED
          BY <1>1, <1>4, <4>1, Intervals
      <3>2. r.index * Interval \in Nat /\ n.index * Interval \in Nat
        BY <1>1, <1>4, Intervals
      <3> DEFINE here == r.index * Interval
                 there == n.index * Interval
      <3>3. Scheduled(r) = r.start + here /\ Scheduled(n) = r.start + there
        BY <1>2 DEF Scheduled
      <3>4. here \in Nat /\ there \in Nat /\ here <= there
        BY <3>1, <3>2
      <3> HIDE DEF here, there
      <3> QED
        BY <1>1, <3>3, <3>4
    <2>2. CASE j \in 1 .. r.index
      <3>1. r.samples[j] \in Sample
        BY <1>1, <2>2, ElementOfSeq
      <3>2. r.samples[j].completed \in Nat
        BY <3>1 DEF Sample
      <3>3. r.samples[j].completed <= Scheduled(r)
        BY <1>1, <2>2 DEF BurstOnTime, Active
      <3>4. n.samples[j].completed = r.samples[j].completed
        BY <1>2, <2>2
      <3> QED
        BY <2>1, <3>2, <3>3, <3>4
    <2>3. CASE j = r.index + 1
      BY <1>2, <1>5, <1>6, <2>3
    <2>4. CASE j \in r.index + 2 .. n.index
      <3>1. n.samples[j].completed = 0
        BY <1>2, <2>4 DEF Missed
      <3> QED
        BY <2>1, <3>1
    <2> QED
      BY <1>1, <1>2, <1>4, <2>2, <2>3, <2>4
  <1>7. ASSUME NEW i \in 1 .. Len(n.samples)
        PROVE  IF n.samples[i].status = "missed" THEN LateIn(n, i)
               ELSE SlotOf(n, i) <= n.samples[i].asked /\ ~LateIn(n, i)
    <2>1. CASE i \in 1 .. r.index + 1
      BY <1>1, <1>2, <1>4, <2>1, SampleOnTime
    <2>2. CASE i \in r.index + 2 .. n.index
      <3>1. n.samples[i].status = "missed"
        BY <1>2, <2>2 DEF Missed
      <3>2. i - 1 \in r.index + 1 .. r.index + skipped /\ r.index + 1 \in 1 .. i - 1
        <4>1. i \in r.index + 2 .. r.index + 1 + skipped /\ skipped \in Nat /\ r.index \in Nat
          BY <1>1, <1>2, <2>2
        <4> QED
          BY <4>1
      <3>3. SlotOf(n, i) < clock
        BY <1>2, <1>3, <3>2 DEF SlotOf
      <3>4. n.samples[r.index + 1].completed > SlotOf(n, i)
        BY <1>2, <3>3
      <3>5. LateIn(n, i)
        BY <3>2, <3>4 DEF LateIn
      <3> QED
        BY <3>1, <3>5
    <2> QED
      BY <1>1, <1>2, <1>4, <2>1, <2>2
  <1>8. BurstOnTime(n)
    BY <1>2, <1>5, <1>6, <1>7 DEF BurstOnTime, Active, Asking
  <1>9. Placed(n)
    BY <1>2 DEF Placed, Asking
  <1>10. OnSchedule(n, clock, ended, saved)
    BY <1>2, <1>8, <1>9 DEF OnSchedule
  <1> QED
    BY <1>2, <1>4, <1>10 DEF n

-----------------------------------------------------------------------------
(***************************************************************************)
(* Every step.                                                             *)
(***************************************************************************)
\* The invariant for one command that moved, and everybody else.
Fits(r) ==
    /\ r \in Run /\ OnSchedule(r, clock, exitAt, savedAt)
    /\ r.stored <= StoredCap /\ Len(r.samples) <= r.frames

LEMMA FitsNow ==
    ASSUME IInv, NEW m \in Commands
    PROVE  Fits(run[m]) /\ clock \in Nat /\ exitAt \in Nat /\ savedAt \in Nat
  BY Parameters DEF IInv, TypeOK, Fits

LEMMA OneMoves ==
    ASSUME IInv, NEW m \in Commands, NEW r, Fits(r), Becomes(m, r), UNCHANGED worldVars,
           files' \in [{"scratch"} \cup Directories -> Pictures \cup {None}],
           artifacts' \in [Directories \X Names -> Pictures \cup {None}],
           manifests' \in [Directories -> Seq(Sample)],
           failures' \in 0 .. MaxFailures
    PROVE  IInv'
  <1>1. /\ run' \in [Commands -> Run] /\ run'[m] = r
        /\ \A a \in Commands : a # m => run'[a] = run[a]
    BY DEF Becomes, Fits, IInv, TypeOK
  <1>2. UNCHANGED <<clock, scene, exitAt, savedAt, held, changes>>
    BY DEF worldVars, recordVars
  <1>3. ASSUME NEW a \in Commands
        PROVE  /\ OnSchedule(run'[a], clock', exitAt', savedAt') /\ run'[a].stored <= StoredCap
               /\ Len(run'[a].samples) <= run'[a].frames
    <2>1. CASE a = m
      BY <1>1, <1>2, <2>1 DEF Fits
    <2>2. CASE a # m
      BY <1>1, <1>2, <2>2 DEF IInv, TypeOK
    <2> QED
      BY <2>1, <2>2
  <1> QED
    BY <1>1, <1>2, <1>3 DEF IInv, TypeOK

\* What stays when an action says so.
LEMMA Untouched ==
    ASSUME IInv
    PROVE  /\ UNCHANGED files => files' \in [{"scratch"} \cup Directories -> Pictures \cup {None}]
           /\ UNCHANGED artifacts => artifacts' \in [Directories \X Names -> Pictures \cup {None}]
           /\ UNCHANGED manifests => manifests' \in [Directories -> Seq(Sample)]
           /\ UNCHANGED failures \/ Fault => failures' \in 0 .. MaxFailures
  BY Parameters DEF IInv, TypeOK, Fault

LEMMA StartStep ==
    ASSUME IInv, NEW m \in Commands, Start(m)
    PROVE  IInv'
  <1>1. PICK pc \in {"capturing", "waiting"} :
            /\ Begins(m, pc)
            /\ pc = "capturing" => run[m].job = "screenshot"
            /\ pc = "waiting" => run[m].job \in {"burst"} \cup Waits
    BY DEF Start, StartScreenshot, StartBurst, StartWait
  <1> DEFINE q == run[m]
             r == [q EXCEPT !.start = clock, !.pc = pc]
  <1>2. q \in Run /\ OnSchedule(q, clock, exitAt, savedAt) /\ q.stored <= StoredCap /\ clock \in Nat
        /\ exitAt \in Nat /\ savedAt \in Nat /\ Len(q.samples) <= q.frames
    BY FitsNow DEF Fits
  <1>3. r \in Run /\ r.job = q.job /\ r.samples = q.samples /\ r.frames = q.frames /\ r.stored = q.stored /\ r.index = q.index
        /\ r.completed = q.completed /\ r.seen = q.seen /\ r.current = q.current
        /\ r.start = clock /\ r.pc = pc /\ r.asked = q.asked
    BY <1>2 DEF Run
  <1>4. q.index = 0 /\ q.asked = 0 /\ q.seen = << >> /\ q.samples = << >> /\ q.current = NoScene
    BY <1>1, <1>2 DEF Begins, OnSchedule, Placed
  <1> HIDE DEF r
  <1>6. Placed(r)
    BY <1>1, <1>2, <1>3 DEF OnSchedule, Placed, Waits
  <1>7. q.job = "burst" => BurstOnTime(r)
    <2>1. Len(r.samples) = 0 /\ 0 < r.frames
      BY <1>3, <1>4, Fields
    <2> QED
      BY <1>1, <1>2, <1>3, <1>4, <2>1 DEF BurstOnTime, Active, Asking, Waits
  <1>8. q.job = "stable" => StableOnTime(r)
    <2>1. Len(r.seen) = 0
      BY <1>3, <1>4
    <2> QED
      BY <1>1, <1>2, <1>3, <1>4, <2>1 DEF StableOnTime, Active, Asking, Waits
  <1>9. q.job = "exit" => ExitOnTime(r, clock, exitAt, savedAt)
    BY <1>1, <1>2, <1>3, <1>4 DEF ExitOnTime, Waits
  <1>10. Fits(r)
    BY <1>2, <1>3, <1>6, <1>7, <1>8, <1>9 DEF Fits, OnSchedule
  <1>11. Becomes(m, r)
    BY <1>1 DEF Begins, r
  <1> QED
    BY <1>1, <1>10, <1>11, OneMoves, Untouched DEF Begins, hostVars

LEMMA WakeStep ==
    ASSUME IInv, NEW m \in Commands, Wake(m)
    PROVE  IInv'
  <1> DEFINE q == run[m]
             r == IF q.job = "exit" THEN ReadsRecord(q) ELSE TakesProbe(q)
  <1>1. /\ q \in Run /\ OnSchedule(q, clock, exitAt, savedAt) /\ q.stored <= StoredCap /\ clock \in Nat
        /\ exitAt \in Nat /\ savedAt \in Nat /\ Len(q.samples) <= q.frames
    BY FitsNow DEF Fits
  <1>2. q.pc = "waiting" /\ WakesAt(q) <= clock /\ Becomes(m, r)
    BY <1>1, Deadlines DEF Wake, Due
  <1>3. /\ Scheduled(q) \in Nat /\ Deadline(q) \in Nat /\ WakesAt(q) \in Nat
        /\ q.job \notin Waits => WakesAt(q) = Scheduled(q)
        /\ q.job \in Waits
              => WakesAt(q) = IF Scheduled(q) <= Deadline(q) THEN Scheduled(q) ELSE Deadline(q)
    BY <1>1, Deadlines
  <1>4. Placed(q) /\ q.job \in Jobs /\ q.job # "screenshot" /\ q.index \in Nat
    BY <1>1, <1>2, Fields DEF OnSchedule, Placed
  <1>5. CASE q.job = "exit"
    <2>1. ExitOnTime(q, clock, exitAt, savedAt) /\ q.start \in Nat
      BY <1>1, <1>5, Fields DEF OnSchedule
    <2>2. q.job \in Waits
      BY <1>5 DEF Waits
    <2>3. CASE Deadline(q) <= clock
      <3>1. r = [q EXCEPT !.pc = "timed_out"]
        BY <1>3, <1>1, <1>5, <2>3 DEF ReadsRecord
      <3>2. /\ r \in Run /\ r.job = q.job /\ r.start = q.start /\ r.pc = "timed_out"
            /\ r.stored = q.stored /\ r.samples = q.samples /\ r.frames = q.frames /\ r.asked = q.asked
            /\ r.index = q.index /\ r.blind = q.blind /\ Scheduled(r) = Scheduled(q)
        BY <1>1, <3>1 DEF Run, Scheduled
      <3>3. ExitOnTime(r, clock, exitAt, savedAt) /\ Placed(r)
        BY <1>2, <1>5, <2>1, <2>2, <3>2 DEF ExitOnTime, Placed
      <3>4. Fits(r)
        BY <1>1, <1>5, <3>2, <3>3 DEF Fits, OnSchedule
      <3> QED
        BY <1>2, <3>4, OneMoves, Untouched DEF Wake, hostVars
    <2>4. CASE clock < Deadline(q) /\ ExitSeen(q)
      <3>1. r = [q EXCEPT !.pc = "done"]
        BY <1>3, <1>1, <1>5, <2>4 DEF ReadsRecord
      <3>2. /\ r \in Run /\ r.job = q.job /\ r.pc = "done"
            /\ r.stored = q.stored /\ r.samples = q.samples /\ r.frames = q.frames
        BY <1>1, <3>1 DEF Run
      <3>3. ExitOnTime(r, clock, exitAt, savedAt) /\ Placed(r)
        BY <1>5, <3>2 DEF ExitOnTime, Placed
      <3>4. Fits(r)
        BY <1>1, <1>5, <3>2, <3>3 DEF Fits, OnSchedule
      <3> QED
        BY <1>2, <3>4, OneMoves, Untouched DEF Wake, hostVars
    <2>5. CASE clock < Deadline(q) /\ ~ExitSeen(q)
      <3>1. r = [q EXCEPT !.index = q.index + 1, !.asked = clock, !.blind = FALSE]
        BY <1>3, <1>1, <1>5, <2>5 DEF ReadsRecord
      <3> HIDE DEF r
      <3>2. /\ r \in Run /\ r.job = q.job /\ r.start = q.start /\ r.pc = "waiting"
            /\ r.stored = q.stored /\ r.samples = q.samples /\ r.frames = q.frames
            /\ r.index = q.index + 1 /\ r.asked = clock
        <4>1. q.index + 1 \in Nat
          BY <1>4
        <4>2. r \in Run /\ r.index = q.index + 1 /\ r.asked = clock
          BY <1>1, <3>1, <4>1 DEF Run
        <4>3. /\ r.job = q.job /\ r.start = q.start /\ r.pc = q.pc /\ r.stored = q.stored
              /\ r.samples = q.samples /\ r.frames = q.frames
          BY <1>1, <3>1 DEF Run
        <4> QED
          BY <1>2, <4>2, <4>3
      <3>3. Scheduled(r) = Scheduled(q) + Interval /\ Interval \in Nat
        BY <1>1, <3>2, NextDeadline, Parameters
      <3>4. exitAt < q.start
        BY <1>1, <2>1, <2>5 DEF ExitSeen
      <3>5. Scheduled(r) - Interval <= clock
        BY <1>1, <1>2, <1>3, <2>2, <2>5, <3>3
      <3>6. ExitOnTime(r, clock, exitAt, savedAt) /\ Placed(r)
        BY <1>1, <1>5, <3>2, <3>4, <3>5 DEF ExitOnTime, Placed
      <3>7. Fits(r)
        BY <1>1, <1>5, <3>2, <3>6 DEF Fits, OnSchedule
      <3> QED
        BY <1>2, <3>7, OneMoves, Untouched DEF Wake, hostVars
    <2> QED
      BY <1>1, <1>3, <2>3, <2>4, <2>5
  <1>6. CASE q.job \in Waits /\ q.job # "exit" /\ Deadline(q) <= clock
    <2>1. r = [q EXCEPT !.pc = "timed_out"]
      BY <1>1, <1>3, <1>6 DEF TakesProbe
    <2>2. /\ r \in Run /\ r.job = q.job /\ r.start = q.start /\ r.pc = "timed_out"
          /\ r.stored = q.stored /\ r.samples = q.samples /\ r.frames = q.frames /\ q.job = "stable"
      BY <1>1, <1>6, <2>1 DEF Run, Waits
    <2>3. StableOnTime(r) /\ Placed(r)
      BY <1>2, <1>4, <1>6, <2>2 DEF StableOnTime, Placed, Active, Asking
    <2>4. Fits(r)
      BY <1>1, <2>2, <2>3 DEF Fits, OnSchedule
    <2> QED
      BY <1>2, <2>4, OneMoves, Untouched DEF Wake, hostVars
  <1>7. CASE q.job # "exit" /\ ~(q.job \in Waits /\ Deadline(q) <= clock)
    <2>1. r = [OnTime(q) EXCEPT !.pc = "capturing", !.asked = clock]
      BY <1>1, <1>3, <1>7 DEF TakesProbe
    <2>2. q.completed \in Nat /\ q.seen \in Seq(Probe) /\ q.since \in Nat
      BY <1>1, Fields
    <2> DEFINE kept == OnTime(q)
    <2> HIDE DEF r
    <2>3. /\ kept \in Run /\ kept.job = q.job /\ kept.start = q.start /\ kept.index = q.index
          /\ kept.seen = q.seen /\ kept.samples = q.samples /\ kept.frames = q.frames /\ kept.stored = q.stored
          /\ kept.since = q.since
          /\ kept.current = IF q.completed > Scheduled(q) THEN NoScene ELSE q.current
      <3>1. CASE q.completed > Scheduled(q)
        BY <1>1, <3>1 DEF OnTime, Forgets, Run
      <3>2. CASE ~(q.completed > Scheduled(q))
        BY <1>1, <3>2 DEF OnTime, Run
      <3> QED
        BY <3>1, <3>2
    <2> HIDE DEF kept
    <2>4. r = [kept EXCEPT !.pc = "capturing", !.asked = clock]
      BY <2>1 DEF kept
    <2>5. /\ r \in Run /\ r.job = q.job /\ r.start = q.start /\ r.index = q.index
          /\ r.pc = "capturing" /\ r.asked = clock /\ r.seen = q.seen /\ r.samples = q.samples /\ r.frames = q.frames
          /\ r.stored = q.stored /\ r.since = q.since /\ Scheduled(r) = Scheduled(q)
          /\ r.current = IF q.completed > Scheduled(q) THEN NoScene ELSE q.current
      BY <1>1, <2>3, <2>4 DEF Run, Scheduled
    <2>6. Placed(r)
      BY <1>2, <1>4, <1>7, <2>5 DEF Placed
    <2>7. q.job = "burst" => BurstOnTime(r)
      <3>1. SUFFICES ASSUME q.job = "burst" PROVE BurstOnTime(r)
        OBVIOUS
      <3>2. Scheduled(q) <= clock
        BY <1>2, <1>3, <3>1 DEF Waits
      <3>3. BurstOnTime(q)
        BY <1>1, <3>1 DEF OnSchedule
      <3> QED
        BY <1>2, <2>5, <3>2, <3>3 DEF BurstOnTime, LateIn, SlotOf, Active, Asking
    <2>8. q.job = "stable" => StableOnTime(r)
      <3>1. SUFFICES ASSUME q.job = "stable" PROVE StableOnTime(r)
        OBVIOUS
      <3>2. clock < Deadline(q) /\ q.job \in Waits
        BY <1>1, <1>3, <1>7, <3>1 DEF Waits
      <3>3. Scheduled(q) <= clock
        BY <1>1, <1>2, <1>3, <3>2
      <3>4. /\ Len(q.seen) = q.index
            /\ q.seen # << >> => q.completed = q.seen[Len(q.seen)].completed
            /\ q.current # NoScene => Still(q)
        BY <1>1, <1>2, <3>1 DEF OnSchedule, StableOnTime, Active
      <3>5. ASSUME r.current # NoScene
            PROVE  q.seen[Len(q.seen)].completed <= Scheduled(q) /\ Still(r)
        <4>1. q.completed <= Scheduled(q) /\ r.current = q.current
          BY <1>3, <2>2, <2>5, <3>5
        <4>2. Still(q) /\ q.seen # << >>
          <5>1. PICK first \in 1 .. Len(q.seen) : TRUE
            BY <3>4, <3>5, <4>1 DEF Still
          <5> QED
            BY <3>4, <3>5, <4>1, <5>1
        <4>3. Still(r)
          BY <2>5, <4>1, <4>2 DEF Still, SlotOf
        <4> QED
          BY <3>4, <4>1, <4>2, <4>3
      <3> QED
        BY <2>5, <3>3, <3>4, <3>5 DEF StableOnTime, Active, Asking
    <2>9. Fits(r)
      BY <1>1, <1>7, <2>5, <2>6, <2>7, <2>8 DEF Fits, OnSchedule
    <2>10. Becomes(m, r)
      BY <1>2
    <2> QED
      BY <2>9, <2>10, OneMoves, Untouched DEF Wake, hostVars
  <1> QED
    BY <1>5, <1>6, <1>7

LEMMA AgentCapturesStep ==
    ASSUME IInv, NEW m \in Commands, AgentCaptures(m)
    PROVE  IInv'
  <1> DEFINE q == run[m]
             r == [q EXCEPT !.pc = "captured", !.got = scene]
  <1>1. /\ q \in Run /\ OnSchedule(q, clock, exitAt, savedAt) /\ q.stored <= StoredCap
        /\ Len(q.samples) <= q.frames /\ scene \in Scene
    BY FitsNow DEF Fits, IInv, TypeOK
  <1>2. q.pc = "capturing" /\ Becomes(m, r)
    BY DEF AgentCaptures
  <1>3. /\ r \in Run /\ r.job = q.job /\ r.start = q.start /\ r.index = q.index
        /\ r.pc = "captured" /\ r.got = scene /\ r.asked = q.asked /\ r.seen = q.seen
        /\ r.samples = q.samples /\ r.frames = q.frames /\ r.stored = q.stored /\ r.since = q.since
        /\ r.current = q.current /\ Scheduled(r) = Scheduled(q)
    BY <1>1 DEF Run, Scheduled
  <1> HIDE DEF r
  <1>4. Placed(r)
    BY <1>1, <1>2, <1>3 DEF OnSchedule, Placed
  <1>5. q.job = "burst" => BurstOnTime(r)
    BY <1>1, <1>2, <1>3 DEF OnSchedule, BurstOnTime, LateIn, SlotOf, Active, Asking
  <1>6. q.job = "stable" => StableOnTime(r)
    BY <1>1, <1>2, <1>3 DEF OnSchedule, StableOnTime, Active, Asking, Still, SlotOf
  <1>7. q.job # "exit"
    BY <1>1, <1>2 DEF OnSchedule, Placed
  <1>8. Fits(r)
    BY <1>1, <1>3, <1>4, <1>5, <1>6, <1>7 DEF Fits, OnSchedule
  <1>9. files' \in [{"scratch"} \cup Directories -> Pictures \cup {None}]
    <2>1. scene.picture \in Pictures
      BY <1>1 DEF Scene
    <2> QED
      BY <2>1 DEF AgentCaptures, IInv, TypeOK
  <1> QED
    BY <1>2, <1>8, <1>9, OneMoves, Untouched DEF AgentCaptures, hostVars

\* What a stability wait holds once a capture is dealt with, answered or failed.
LEMMA ProbeKept ==
    ASSUME NEW q \in Run, NEW r \in Run, NEW probe \in Probe, clock \in Nat,
           q.job = "stable", r.job = "stable", q.pc \in Asking,
           Placed(q), StableOnTime(q), probe.asked = q.asked, probe.completed = clock,
           r.start = q.start, r.index = q.index + 1, r.completed = clock,
           r.seen = Append(q.seen, probe), r.pc \in {"waiting", "done"},
           r.current # NoScene \/ r.pc = "done"
              => /\ r.current = probe.scene
                 /\ \/ r.since = q.asked
                    \/ q.current = r.current /\ r.since = q.since /\ q.current # NoScene,
           r.pc = "done" => q.asked - r.since >= StableFor
    PROVE  Placed(r) /\ StableOnTime(r)
  <1> DEFINE n == Len(q.seen)
  <1>1. /\ q.seen \in Seq(Probe) /\ n \in Nat /\ n = q.index /\ q.asked \in Nat
    BY Fields DEF StableOnTime, Active
  <1>2. /\ Len(r.seen) = n + 1 /\ r.seen[n + 1] = probe
        /\ \A i \in 1 .. n : r.seen[i] = q.seen[i]
    BY <1>1, AppendProperties
  <1>3. Scheduled(r) = Scheduled(q) + Interval /\ Scheduled(q) \in Nat /\ Interval \in Nat
    BY NextDeadline, Deadlines, Parameters
  <1>4. Scheduled(q) <= q.asked
    BY DEF StableOnTime
  <1>5. SlotOf(r, n + 1) = Scheduled(q) /\ \A i \in Nat : SlotOf(r, i) = SlotOf(q, i)
    <2>1. (n + 1) - 1 = q.index
      BY <1>1
    <2> QED
      BY <2>1 DEF SlotOf, Scheduled
  <1> HIDE DEF n
  <1>6. ASSUME r.current # NoScene \/ r.pc = "done" PROVE Still(r)
    <2>1. CASE r.since = q.asked
      <3>1. /\ n + 1 \in 1 .. Len(r.seen) /\ r.seen[n + 1].asked = r.since
            /\ \A i \in n + 1 .. Len(r.seen) :
                  r.seen[i].scene = r.current /\ i = n + 1 /\ i = Len(r.seen)
        BY <1>1, <1>2, <1>6, <2>1
      <3>2. \A i \in n + 1 .. Len(r.seen) :
              /\ r.seen[i].scene = r.current
              /\ SlotOf(r, i) <= r.seen[i].asked
              /\ i < Len(r.seen) => r.seen[i].completed <= SlotOf(r, i + 1)
        BY <1>1, <1>2, <1>4, <1>5, <3>1
      <3> QED
        BY <3>1, <3>2 DEF Still
    <2>2. CASE q.current = r.current /\ r.since = q.since /\ q.current # NoScene
      <3>1. Still(q) /\ q.seen[n].completed <= Scheduled(q)
        BY <2>2 DEF StableOnTime, Active, n
      <3>2. PICK first \in 1 .. n :
              /\ q.seen[first].asked = q.since
              /\ \A i \in first .. n :
                    /\ q.seen[i].scene = q.current
                    /\ SlotOf(q, i) <= q.seen[i].asked
                    /\ i < n => q.seen[i].completed <= SlotOf(q, i + 1)
        BY <3>1 DEF Still, n
      <3>3. /\ first \in 1 .. Len(r.seen) /\ r.seen[first].asked = r.since
        BY <1>1, <1>2, <2>2, <3>2
      <3>4. ASSUME NEW i \in first .. Len(r.seen)
            PROVE  /\ r.seen[i].scene = r.current
                   /\ SlotOf(r, i) <= r.seen[i].asked
                   /\ i < Len(r.seen) => r.seen[i].completed <= SlotOf(r, i + 1)
        <4>1. CASE i = n + 1
          BY <1>1, <1>2, <1>4, <1>5, <1>6, <4>1
        <4>2. CASE i = n
          <5>1. i \in first .. n /\ i \in 1 .. n /\ i + 1 = n + 1 /\ i \in Nat
            BY <1>1, <3>2, <4>2
          <5>2. r.seen[i] = q.seen[i] /\ SlotOf(r, i) = SlotOf(q, i)
            BY <1>2, <1>5, <5>1
          <5>3. r.seen[i].completed <= SlotOf(r, i + 1)
            BY <1>5, <3>1, <4>2, <5>1, <5>2
          <5> QED
            BY <2>2, <3>2, <5>1, <5>2, <5>3
        <4>3. CASE i # n /\ i # n + 1
          <5>1. i \in first .. n /\ i \in 1 .. n /\ i < n /\ i \in Nat /\ i + 1 \in Nat
            BY <1>1, <1>2, <3>2, <4>3
          <5>2. /\ r.seen[i] = q.seen[i] /\ SlotOf(r, i) = SlotOf(q, i)
                /\ SlotOf(r, i + 1) = SlotOf(q, i + 1)
            BY <1>2, <1>5, <5>1
          <5> QED
            BY <2>2, <3>2, <5>1, <5>2
        <4> QED
          BY <4>1, <4>2, <4>3
      <3> QED
        BY <3>3, <3>4 DEF Still
    <2> QED
      BY <1>6, <2>1, <2>2
  <1>7. r.seen[Len(r.seen)] = probe /\ Len(r.seen) = r.index
    BY <1>1, <1>2
  <1>8. r.pc = "done" => r.seen[Len(r.seen)].asked - r.since >= StableFor
    BY <1>7
  <1>9. StableOnTime(r)
    BY <1>6, <1>7, <1>8 DEF StableOnTime, Active, Asking
  <1>10. Placed(r)
    BY DEF Placed, Asking
  <1> QED
    BY <1>9, <1>10

LEMMA AnsweredStep ==
    ASSUME IInv, NEW m \in Commands, Answered(m)
    PROVE  IInv'
  <1> DEFINE q == run[m]
             r == Compares(q)
             probe == [asked |-> q.asked, completed |-> clock, scene |-> q.got]
             next == [Settles(q) EXCEPT !.completed = clock, !.index = @ + 1, !.pc = "waiting",
                                        !.seen = Append(@, probe)]
  <1>1. /\ q \in Run /\ OnSchedule(q, clock, exitAt, savedAt) /\ q.stored <= StoredCap
        /\ Len(q.samples) <= q.frames /\ clock \in Nat
    BY FitsNow DEF Fits
  <1>2. q.pc = "captured" /\ q.job = "stable" /\ Becomes(m, r)
    BY DEF Answered
  <1>3. Placed(q) /\ StableOnTime(q) /\ q.got \in Scene /\ q.got # NoScene
    <2>1. Placed(q) /\ StableOnTime(q) /\ q.got \in Scene
      BY <1>1, <1>2 DEF OnSchedule, Placed
    <2> QED
      BY <2>1, Parameters DEF Scene, NoScene
  <1>4. /\ probe \in Probe /\ probe.asked = q.asked /\ probe.completed = clock
        /\ probe.scene = q.got
    BY <1>1, <1>3, Fields DEF Probe
  <1>5. q.index + 1 \in Nat /\ Append(q.seen, probe) \in Seq(Probe)
    BY <1>1, <1>4, Fields, AppendProperties
  <1> HIDE DEF probe
  <1>6. Settles(q) \in Run /\ Settles(q).seen = q.seen /\ Settles(q).index = q.index
    BY <1>1 DEF Settles, Run
  <1>7. /\ next \in Run /\ next.job = "stable" /\ next.start = q.start /\ next.index = q.index + 1
        /\ next.completed = clock /\ next.seen = Append(q.seen, probe) /\ next.pc = "waiting"
        /\ next.current = q.current /\ next.since = q.since
        /\ next.samples = q.samples /\ next.frames = q.frames /\ next.stored = q.stored
    BY <1>1, <1>2, <1>5, <1>6 DEF Settles, Run
  <1>8. r = CASE q.current # q.got -> [next EXCEPT !.current = q.got, !.since = q.asked]
              [] q.current = q.got /\ q.asked - q.since >= StableFor -> [next EXCEPT !.pc = "done"]
              [] OTHER -> next
    BY DEF Compares, probe
  <1> HIDE DEF r, next
  <1>9. CASE q.current # q.got
    <2>1. r = [next EXCEPT !.current = q.got, !.since = q.asked] /\ q.asked \in Nat
      BY <1>1, <1>8, <1>9, Fields
    <2>2. /\ r \in Run /\ r.job = "stable" /\ r.start = q.start /\ r.index = q.index + 1
          /\ r.completed = clock /\ r.seen = Append(q.seen, probe) /\ r.pc = "waiting"
          /\ r.current = q.got /\ r.since = q.asked
          /\ r.samples = q.samples /\ r.frames = q.frames /\ r.stored = q.stored
      BY <1>3, <1>7, <2>1 DEF Run
    <2>3. Placed(r) /\ StableOnTime(r)
      BY <1>1, <1>2, <1>3, <1>4, <2>2, ProbeKept DEF Asking
    <2>4. Fits(r)
      BY <1>1, <2>2, <2>3 DEF Fits, OnSchedule
    <2> QED
      BY <1>2, <2>4, OneMoves, Untouched DEF Answered, hostVars
  <1>10. CASE q.current = q.got
    <2>1. /\ r \in Run /\ r.job = "stable" /\ r.start = q.start /\ r.index = q.index + 1
          /\ r.completed = clock /\ r.seen = Append(q.seen, probe) /\ r.pc \in {"waiting", "done"}
          /\ r.current = q.got /\ r.since = q.since
          /\ r.samples = q.samples /\ r.frames = q.frames /\ r.stored = q.stored
          /\ r.pc = "done" => q.asked - q.since >= StableFor
      <3>1. CASE q.asked - q.since >= StableFor
        <4>1. r = [next EXCEPT !.pc = "done"]
          BY <1>8, <1>10, <3>1
        <4> QED
          BY <1>7, <1>10, <3>1, <4>1 DEF Run
      <3>2. CASE ~(q.asked - q.since >= StableFor)
        <4>1. r = next
          BY <1>8, <1>10, <3>2
        <4> QED
          BY <1>7, <1>10, <4>1
      <3> QED
        BY <3>1, <3>2
    <2>2. Placed(r) /\ StableOnTime(r)
      BY <1>1, <1>2, <1>3, <1>4, <1>10, <2>1, ProbeKept DEF Asking
    <2>3. Fits(r)
      BY <1>1, <2>1, <2>2 DEF Fits, OnSchedule
    <2> QED
      BY <1>2, <2>3, OneMoves, Untouched DEF Answered, hostVars
  <1> QED
    BY <1>9, <1>10

\* A picture the host stores, under a name of its own.
LEMMA StoreTyped ==
    ASSUME IInv, NEW d \in Directories, NEW name \in Names, NEW picture \in Pictures \cup {None},
           Store(d, name, picture)
    PROVE  artifacts' \in [Directories \X Names -> Pictures \cup {None}]
  BY DEF Store, IInv, TypeOK

\* The samples a burst may append.
LEMMA SamplesTyped ==
    ASSUME NEW r \in Run, r.pc = "captured" => r.got \in Scene, r.index < r.frames,
           clock \in Nat
    PROVE  /\ Failed(r) \in Sample /\ r.index + 1 \in Names /\ r.index + 1 # 0
           /\ r.pc = "captured" =>
                 /\ Duplicates(r) \in Sample /\ r.got.picture \in Pictures
                 /\ [status |-> "captured", asked |-> r.asked, completed |-> clock,
                     picture |-> r.got.picture, name |-> r.index + 1] \in Sample
  <1>1. /\ r.asked \in Nat /\ r.index \in Nat /\ r.lastName \in Names
        /\ r.frames \in 1 .. FrameCount /\ FrameCount \in Nat
    BY Fields, Parameters
  <1>2. r.index + 1 \in Names /\ 0 \in Names /\ r.index + 1 # 0
    BY <1>1 DEF Names
  <1>3. r.pc = "captured" => r.got.picture \in Pictures
    BY DEF Scene
  <1>4. Failed(r) \in Sample
    BY <1>1, <1>2 DEF Failed, Sample, Statuses
  <1>5. r.pc = "captured" => Duplicates(r) \in Sample
    BY <1>1, <1>3 DEF Duplicates, Sample, Statuses
  <1> QED
    BY <1>1, <1>2, <1>3, <1>4, <1>5 DEF Sample, Statuses

LEMMA SampleStep ==
    ASSUME IInv, NEW m \in Commands, SampleFetched(m)
    PROVE  IInv'
  <1> DEFINE q == run[m]
             taken == [status |-> "captured", asked |-> q.asked, completed |-> clock,
                       picture |-> q.got.picture, name |-> q.index + 1]
  <1>1. /\ q \in Run /\ OnSchedule(q, clock, exitAt, savedAt) /\ q.stored <= StoredCap
        /\ Len(q.samples) <= q.frames /\ clock \in Nat
    BY FitsNow DEF Fits
  <1>2. q.pc = "captured" /\ q.job = "burst" /\ q.pc \in Asking
    BY DEF SampleFetched, Asking
  <1>3. /\ Placed(q) /\ BurstOnTime(q) /\ q.got \in Scene
        /\ q.index < q.frames /\ Len(q.samples) = q.index
    BY <1>1, <1>2 DEF OnSchedule, Placed, BurstOnTime, Active
  <1>4. /\ Failed(q) \in Sample /\ Duplicates(q) \in Sample /\ taken \in Sample
        /\ q.index + 1 \in Names
    BY <1>1, <1>2, <1>3, SamplesTyped
  <1>5. \A sample \in {Failed(q), Duplicates(q), taken} :
           sample.status # "missed" /\ sample.asked = q.asked /\ sample.completed = clock
    BY DEF Failed, Duplicates
  <1>6. \A sample \in {Failed(q), Duplicates(q), taken} :
           /\ Records(q, sample) \in Run /\ OnSchedule(Records(q, sample), clock, exitAt, savedAt)
           /\ Len(Records(q, sample).samples) <= q.frames
           /\ Records(q, sample).stored = q.stored /\ Records(q, sample).frames = q.frames
    <2> SUFFICES ASSUME NEW sample \in {Failed(q), Duplicates(q), taken}
                 PROVE  /\ Records(q, sample) \in Run /\ OnSchedule(Records(q, sample), clock, exitAt, savedAt)
                        /\ Len(Records(q, sample).samples) <= q.frames
                        /\ Records(q, sample).stored = q.stored
                        /\ Records(q, sample).frames = q.frames
      OBVIOUS
    <2>1. /\ sample \in Sample /\ sample.asked = q.asked /\ sample.status # "missed"
          /\ sample.completed = clock
      BY <1>4, <1>5
    <2>2. Records(q, sample).stored = q.stored /\ Records(q, sample).frames = q.frames
      BY <1>1, <1>3, <2>1, RecordsTyped
    <2> QED
      BY <1>1, <1>2, <1>3, <2>1, <2>2, RecordsOnTime
  <1>7. CASE \E sample \in {Failed(q), Duplicates(q)} :
                Becomes(m, Records(q, sample)) /\ UNCHANGED artifacts
    <2>1. PICK sample \in {Failed(q), Duplicates(q)} :
             Becomes(m, Records(q, sample)) /\ UNCHANGED artifacts
      BY <1>7
    <2>2. Fits(Records(q, sample))
      BY <1>1, <1>6 DEF Fits
    <2> QED
      BY <2>1, <2>2, OneMoves, Untouched DEF SampleFetched
  <1>8. CASE /\ Becomes(m, [q EXCEPT !.samples = Append(@, Failed(q)), !.pc = "publishing"])
             /\ UNCHANGED artifacts
    <2> DEFINE all == Append(q.samples, Failed(q))
               r == [q EXCEPT !.samples = all, !.pc = "publishing"]
    <2>1. /\ q.samples \in Seq(Sample) /\ q.index \in Nat /\ q.frames \in Nat
      BY <1>1, Fields, Parameters
    <2>2. /\ all \in Seq(Sample) /\ Len(all) = q.index + 1 /\ all[q.index + 1] = Failed(q)
          /\ \A i \in 1 .. q.index : all[i] = q.samples[i]
      BY <1>3, <1>4, <2>1, AppendProperties
    <2> HIDE DEF all
    <2>3. /\ r \in Run /\ r.job = "burst" /\ r.start = q.start /\ r.pc = "publishing"
          /\ r.samples = all /\ r.frames = q.frames /\ r.stored = q.stored
      BY <1>1, <1>2, <2>2 DEF Run
    <2> HIDE DEF r
    <2>4. \A i \in 1 .. q.index + 1 :
             IF r.samples[i].status = "missed" THEN LateIn(r, i)
             ELSE SlotOf(r, i) <= r.samples[i].asked /\ ~LateIn(r, i)
      <3>1. q.index < Len(r.samples)
        BY <2>1, <2>2, <2>3
      <3> QED
        BY <1>1, <1>2, <1>3, <1>4, <1>5, <2>2, <2>3, <3>1, SampleOnTime
    <2>5. Placed(r) /\ BurstOnTime(r)
      BY <1>2, <1>3, <2>2, <2>3, <2>4 DEF Placed, BurstOnTime, Active, Asking
    <2>6. Fits(r)
      BY <1>1, <1>3, <2>1, <2>2, <2>3, <2>5 DEF Fits, OnSchedule
    <2>7. Becomes(m, r)
      BY <1>8 DEF r, all
    <2> QED
      BY <1>8, <2>6, <2>7, OneMoves, Untouched DEF SampleFetched
  <1>9. CASE /\ q.stored < StoredCap
             /\ Store(q.output, q.index + 1, files["scratch"])
             /\ Becomes(m, [Records(q, taken) EXCEPT !.last = q.got.picture, !.lastName = q.index + 1,
                                                     !.stored = @ + 1])
    <2> DEFINE n == Records(q, taken)
               r == [n EXCEPT !.last = q.got.picture, !.lastName = q.index + 1, !.stored = n.stored + 1]
    <2>1. /\ n \in Run /\ OnSchedule(n, clock, exitAt, savedAt) /\ Len(n.samples) <= n.frames
          /\ n.frames = q.frames /\ n.stored = q.stored /\ n.job = "burst"
      BY <1>1, <1>2, <1>3, <1>4, <1>6, RecordsTyped
    <2>2. n.pc \in {"publishing", "waiting"} /\ q.got.picture \in Pictures /\ q.stored \in Nat
      BY <1>1, <1>2, <1>3, <1>4, RecordsTyped, SamplesTyped, Fields
    <2>3. Becomes(m, r)
      BY <1>9
    <2> HIDE DEF n
    <2>4. /\ r \in Run /\ r.job = "burst" /\ r.start = n.start /\ r.pc = n.pc /\ r.index = n.index
          /\ r.samples = n.samples /\ r.frames = n.frames /\ r.stored = n.stored + 1
      <3>1. n.stored + 1 \in Nat /\ q.index + 1 \in Names /\ q.got.picture \in Pictures \cup {None}
        BY <1>4, <2>1, <2>2
      <3>2. r \in Run
        BY <2>1, <3>1 DEF Run
      <3>3. /\ r.job = n.job /\ r.start = n.start /\ r.pc = n.pc /\ r.index = n.index
            /\ r.samples = n.samples /\ r.frames = n.frames
        BY <2>1 DEF Run
      <3>4. r.stored = n.stored + 1
        BY <2>1 DEF Run
      <3> QED
        BY <2>1, <3>2, <3>3, <3>4
    <2> HIDE DEF r
    <2>5. Placed(r) /\ BurstOnTime(r)
      <3>1. Scheduled(r) = Scheduled(n) /\ \A i \in 1 .. Len(r.samples) : SlotOf(r, i) = SlotOf(n, i)
        BY <2>4 DEF Scheduled, SlotOf
      <3>2. \A i \in 1 .. Len(r.samples) : LateIn(r, i) <=> LateIn(n, i)
        BY <2>4, <3>1 DEF LateIn
      <3>3. Placed(n) /\ BurstOnTime(n)
        BY <2>1 DEF OnSchedule
      <3> QED
        BY <2>2, <2>4, <3>1, <3>2, <3>3 DEF Placed, BurstOnTime, Active, Asking
    <2>6. r.stored <= StoredCap
      BY <1>9, <2>1, <2>2, <2>4, Parameters
    <2>7. Fits(r)
      BY <2>1, <2>4, <2>5, <2>6 DEF Fits, OnSchedule
    <2>8. files["scratch"] \in Pictures \cup {None} /\ q.output \in Directories
      BY <1>1, Fields DEF IInv, TypeOK
    <2>9. artifacts' \in [Directories \X Names -> Pictures \cup {None}]
      BY <1>4, <1>9, <2>8, StoreTyped
    <2> QED
      BY <2>3, <2>7, <2>9, OneMoves, Untouched DEF SampleFetched
  <1> QED
    BY <1>7, <1>8, <1>9 DEF SampleFetched

LEMMA PublishStep ==
    ASSUME IInv, NEW m \in Commands, Publish(m)
    PROVE  IInv'
  <1> DEFINE q == run[m]
             r == [q EXCEPT !.pc = "done"]
  <1>1. /\ q \in Run /\ OnSchedule(q, clock, exitAt, savedAt) /\ q.stored <= StoredCap
        /\ Len(q.samples) <= q.frames
    BY FitsNow DEF Fits
  <1>2. q.pc = "publishing" /\ Becomes(m, r) /\ manifests' = [manifests EXCEPT ![q.output] = q.samples]
    BY DEF Publish
  <1>3. q.job = "burst" /\ Placed(q) /\ BurstOnTime(q)
    BY <1>1, <1>2 DEF OnSchedule, Placed
  <1>4. /\ r \in Run /\ r.job = "burst" /\ r.start = q.start /\ r.pc = "done"
        /\ r.samples = q.samples /\ r.frames = q.frames /\ r.stored = q.stored
    BY <1>1, <1>3 DEF Run
  <1> HIDE DEF r
  <1>5. Fits(r)
    BY <1>1, <1>2, <1>3, <1>4 DEF Fits, OnSchedule, Placed, BurstOnTime, LateIn, SlotOf, Active, Asking
  <1>6. manifests' \in [Directories -> Seq(Sample)]
    BY <1>1, <1>2, Fields DEF IInv, TypeOK
  <1> QED
    BY <1>2, <1>5, <1>6, OneMoves, Untouched DEF Publish

LEMMA ScreenshotStep ==
    ASSUME IInv, NEW m \in Commands, StoreScreenshot(m)
    PROVE  IInv'
  <1> DEFINE q == run[m]
             r == [q EXCEPT !.pc = IF Fetched(q) THEN "done" ELSE "failed", !.last = files[q.output]]
  <1>1. /\ q \in Run /\ OnSchedule(q, clock, exitAt, savedAt) /\ q.stored <= StoredCap
        /\ Len(q.samples) <= q.frames
    BY FitsNow DEF Fits
  <1>2. q.pc = "captured" /\ q.job = "screenshot" /\ Becomes(m, r)
    BY DEF StoreScreenshot
  <1>3. q.output \in Directories /\ files[q.output] \in Pictures \cup {None}
    BY <1>1, Fields DEF IInv, TypeOK
  <1>4. /\ r \in Run /\ r.job = "screenshot" /\ r.start = q.start /\ r.pc \in {"done", "failed"}
        /\ r.samples = q.samples /\ r.frames = q.frames /\ r.stored = q.stored
    BY <1>1, <1>2, <1>3 DEF Run
  <1> HIDE DEF r
  <1>5. Fits(r)
    BY <1>1, <1>2, <1>4 DEF Fits, OnSchedule, Placed
  <1>6. artifacts' \in [Directories \X Names -> Pictures \cup {None}]
    BY <1>3, StoreTyped, 0 \in Names DEF StoreScreenshot, Names
  <1> QED
    BY <1>2, <1>5, <1>6, OneMoves, Untouched DEF StoreScreenshot

LEMMA FailureStep ==
    ASSUME IInv, NEW m \in Commands, CaptureFails(m)
    PROVE  IInv'
  <1> DEFINE q == run[m]
             probe == [asked |-> q.asked, completed |-> clock, scene |-> NoScene]
             lost == [Forgets(Settles(q)) EXCEPT !.completed = clock, !.index = @ + 1,
                         !.pc = "waiting", !.seen = Append(@, probe)]
  <1>1. /\ q \in Run /\ OnSchedule(q, clock, exitAt, savedAt) /\ q.stored <= StoredCap
        /\ Len(q.samples) <= q.frames /\ clock \in Nat
    BY FitsNow DEF Fits
  <1>2. q.pc \in Asking /\ Placed(q)
    BY <1>1 DEF CaptureFails, Asking, OnSchedule
  <1>3. q.job # "exit" /\ q.job \in Jobs /\ (q.pc = "captured" => q.got \in Scene)
    BY <1>1, <1>2, Fields DEF Placed, Asking
  <1>4. CASE q.job = "burst"
    <2>1. BurstOnTime(q) /\ q.index < q.frames /\ Len(q.samples) = q.index
      BY <1>1, <1>2, <1>4 DEF OnSchedule, BurstOnTime, Active
    <2>2. /\ Failed(q) \in Sample /\ Failed(q).asked = q.asked /\ Failed(q).completed = clock
          /\ Failed(q).status # "missed"
      BY <1>1, <1>3, <2>1, SamplesTyped DEF Failed
    <2>3. /\ Records(q, Failed(q)) \in Run /\ OnSchedule(Records(q, Failed(q)), clock, exitAt, savedAt)
          /\ Len(Records(q, Failed(q)).samples) <= q.frames
      BY <1>1, <1>2, <1>4, <2>1, <2>2, RecordsOnTime
    <2>4. Records(q, Failed(q)).stored = q.stored /\ Records(q, Failed(q)).frames = q.frames
      BY <1>1, <2>1, <2>2, RecordsTyped
    <2>5. Fits(Records(q, Failed(q)))
      BY <1>1, <2>3, <2>4 DEF Fits
    <2>6. Becomes(m, Records(q, Failed(q)))
      BY <1>4 DEF CaptureFails
    <2> QED
      BY <2>5, <2>6, OneMoves, Untouched DEF CaptureFails, hostVars
  <1>5. CASE q.job = "stable"
    <2>1. Becomes(m, lost)
      BY <1>5 DEF CaptureFails
    <2>2. /\ probe \in Probe /\ probe.asked = q.asked /\ probe.completed = clock
          /\ probe.scene = NoScene
      BY <1>1, Fields DEF Probe
    <2>3. q.index + 1 \in Nat /\ Append(q.seen, probe) \in Seq(Probe)
      BY <1>1, <2>2, Fields, AppendProperties
    <2> HIDE DEF probe
    <2>4. /\ Forgets(Settles(q)) \in Run /\ Forgets(Settles(q)).current = NoScene
          /\ Forgets(Settles(q)).job = q.job /\ Forgets(Settles(q)).start = q.start
          /\ Forgets(Settles(q)).samples = q.samples /\ Forgets(Settles(q)).frames = q.frames
          /\ Forgets(Settles(q)).stored = q.stored
          /\ Forgets(Settles(q)).index = q.index /\ Forgets(Settles(q)).seen = q.seen
      BY <1>1 DEF Forgets, Settles, Run
    <2>5. /\ lost \in Run /\ lost.job = "stable" /\ lost.start = q.start /\ lost.index = q.index + 1
          /\ lost.completed = clock /\ lost.seen = Append(q.seen, probe) /\ lost.pc = "waiting"
          /\ lost.current = NoScene /\ lost.samples = q.samples /\ lost.frames = q.frames
          /\ lost.stored = q.stored
      BY <1>1, <1>5, <2>3, <2>4 DEF Run
    <2> HIDE DEF lost
    <2>6. StableOnTime(q)
      BY <1>1, <1>5 DEF OnSchedule
    <2>7. Placed(lost) /\ StableOnTime(lost)
      BY <1>1, <1>2, <1>5, <2>2, <2>5, <2>6, ProbeKept
    <2>8. Fits(lost)
      BY <1>1, <2>5, <2>7 DEF Fits, OnSchedule
    <2> QED
      BY <2>1, <2>8, OneMoves, Untouched DEF CaptureFails, hostVars
  <1>6. CASE q.job = "screenshot"
    <2> DEFINE r == [q EXCEPT !.pc = "failed"]
    <2>1. Becomes(m, r)
      BY <1>6 DEF CaptureFails
    <2>2. /\ r \in Run /\ r.job = "screenshot" /\ r.start = q.start /\ r.pc = "failed"
          /\ r.samples = q.samples /\ r.frames = q.frames /\ r.stored = q.stored
      BY <1>1, <1>6 DEF Run
    <2> HIDE DEF r
    <2>3. Fits(r)
      BY <1>1, <1>2, <2>2 DEF Fits, OnSchedule, Placed, Asking
    <2> QED
      BY <2>1, <2>3, OneMoves, Untouched DEF CaptureFails, hostVars
  <1> QED
    BY <1>3, <1>4, <1>5, <1>6 DEF Jobs

LEMMA LookFailsStep ==
    ASSUME IInv, NEW m \in Commands, LookFails(m)
    PROVE  IInv'
  <1> DEFINE q == run[m]
             r == [q EXCEPT !.index = @ + 1, !.blind = TRUE]
  <1>1. /\ q \in Run /\ OnSchedule(q, clock, exitAt, savedAt) /\ q.stored <= StoredCap
        /\ Len(q.samples) <= q.frames /\ q.index \in Nat
    BY FitsNow, Fields DEF Fits
  <1>2. q.pc = "waiting" /\ q.job = "exit" /\ Becomes(m, r)
    BY DEF LookFails, Due
  <1>3. q.index + 1 \in Nat
    BY <1>1
  <1>4. /\ r \in Run /\ r.job = "exit" /\ r.start = q.start /\ r.pc = "waiting" /\ r.blind
        /\ r.asked = q.asked /\ r.samples = q.samples /\ r.frames = q.frames /\ r.stored = q.stored
    BY <1>1, <1>2, <1>3 DEF Run
  <1> HIDE DEF r
  <1>5. ExitOnTime(r, clock, exitAt, savedAt) /\ Placed(r)
    BY <1>1, <1>2, <1>4 DEF OnSchedule, Placed, ExitOnTime
  <1>6. Fits(r)
    BY <1>1, <1>4, <1>5 DEF Fits, OnSchedule
  <1> QED
    BY <1>2, <1>6, OneMoves, Untouched DEF LookFails, hostVars

LEMMA InterruptedStep ==
    ASSUME IInv, NEW m \in Commands, Interrupted(m)
    PROVE  IInv'
  <1> DEFINE q == run[m]
             r == [q EXCEPT !.pc = "interrupted"]
  <1>1. /\ q \in Run /\ OnSchedule(q, clock, exitAt, savedAt) /\ q.stored <= StoredCap
        /\ Len(q.samples) <= q.frames /\ clock \in Nat
    BY FitsNow DEF Fits
  <1>2. q.pc \in {"waiting", "capturing", "captured", "publishing"} /\ Becomes(m, r)
    BY DEF Interrupted
  <1>3. /\ r \in Run /\ r.job = q.job /\ r.start = q.start /\ r.pc = "interrupted"
        /\ r.samples = q.samples /\ r.frames = q.frames /\ r.stored = q.stored
    BY <1>1 DEF Run
  <1> HIDE DEF r
  <1>4. Fits(r)
    BY <1>1, <1>2, <1>3 DEF Fits, OnSchedule, Placed, BurstOnTime, LateIn, SlotOf, StableOnTime,
                            ExitOnTime, Active, Asking
  <1> QED
    BY <1>2, <1>4, OneMoves, Untouched DEF Interrupted, hostVars

\* The world moves on and no command does.
LEMMA TickStep ==
    ASSUME IInv, Tick
    PROVE  IInv'
  <1>1. /\ clock \in Nat /\ clock' = clock + 1 /\ clock' \in 0 .. LastTick
        /\ UNCHANGED <<scene, exitAt, savedAt, held, changes, files, artifacts, manifests, run,
                       failures>>
    BY Parameters DEF Tick, hostVars, recordVars, IInv, TypeOK
  <1>2. savedAt \in 0 .. clock' /\ held \subseteq 0 .. clock'
    BY <1>1 DEF IInv, TypeOK
  <1>3. ASSUME NEW m \in Commands PROVE OnSchedule(run[m], clock', exitAt, savedAt)
    <2>1. OnSchedule(run[m], clock, exitAt, savedAt) /\ run[m].asked \in Nat
      BY FitsNow, Fields DEF Fits
    <2>2. run[m].job = "exit" => ExitOnTime(run[m], clock', exitAt, savedAt)
      BY <1>1, <2>1 DEF OnSchedule, ExitOnTime
    <2> QED
      BY <2>1, <2>2 DEF OnSchedule
  <1> QED
    BY <1>1, <1>2, <1>3 DEF IInv, TypeOK

\* Somebody is about to save the record.
LEMMA HoldsStep ==
    ASSUME IInv, ApplicationExits \/ RecordLoads
    PROVE  IInv'
  <1>1. clock \in 0 .. clock /\ exitAt \in 0 .. clock
    BY Parameters DEF IInv, TypeOK
  <1>2. /\ held' \subseteq 0 .. clock
        /\ UNCHANGED <<clock, scene, exitAt, savedAt, changes, files, artifacts, manifests, run,
                       failures>>
    BY <1>1 DEF ApplicationExits, RecordLoads, Holds, hostVars, IInv, TypeOK
  <1> QED
    BY <1>2 DEF IInv, TypeOK

\* Whatever is saved is saved after every look so far.
LEMMA SavesStep ==
    ASSUME IInv, RecordSaves
    PROVE  IInv'
  <1>1. /\ clock \in Nat /\ savedAt' = clock /\ exitAt' \in held /\ held' \subseteq held
        /\ UNCHANGED <<clock, scene, changes, files, artifacts, manifests, run, failures>>
    BY Parameters DEF RecordSaves, hostVars, IInv, TypeOK
  <1>2. exitAt' \in 0 .. savedAt' /\ savedAt' \in 0 .. clock /\ held' \subseteq 0 .. clock
    BY <1>1 DEF IInv, TypeOK
  <1>3. ASSUME NEW m \in Commands PROVE OnSchedule(run[m], clock, exitAt', savedAt')
    <2>1. OnSchedule(run[m], clock, exitAt, savedAt)
      BY DEF IInv
    <2>2. run[m].job = "exit" => ExitOnTime(run[m], clock, exitAt', savedAt')
      BY <1>1, <2>1 DEF OnSchedule, ExitOnTime
    <2> QED
      BY <2>1, <2>2 DEF OnSchedule
  <1> QED
    BY <1>1, <1>2, <1>3 DEF IInv, TypeOK

LEMMA SceneStep ==
    ASSUME IInv, SceneChanges
    PROVE  IInv'
  <1>1. UNCHANGED <<clock, exitAt, savedAt, held, files, artifacts, manifests, run, failures>>
    BY DEF SceneChanges, hostVars, recordVars
  <1>2. changes' = changes + 1 /\ changes' \in 0 .. MaxChanges /\ changes \in Nat
    BY Parameters DEF SceneChanges, IInv, TypeOK
  <1>3. /\ scene.revision \in Nat /\ scene.revision <= changes
    BY Parameters DEF IInv, TypeOK, Scene
  <1>4. /\ scene' \in [picture : Pictures, revision : {scene.revision, scene.revision + 1}]
    BY DEF SceneChanges
  <1>5. scene' \in Scene /\ scene'.revision <= changes'
    BY <1>2, <1>3, <1>4, Parameters DEF Scene
  <1> QED
    BY <1>1, <1>2, <1>5 DEF IInv, TypeOK

-----------------------------------------------------------------------------
(***************************************************************************)
(* The theorems.                                                           *)
(***************************************************************************)
LEMMA Step == IInv /\ [Next]_vars => IInv'
  <1> SUFFICES ASSUME IInv, [Next]_vars PROVE IInv'
    OBVIOUS
  <1>1. CASE UNCHANGED vars
    BY <1>1 DEF vars, recordVars, IInv, TypeOK
  <1>2. ASSUME NEW m \in Commands,
               Start(m) \/ Advances(m) \/ CaptureFails(m) \/ LookFails(m) \/ Interrupted(m)
        PROVE  IInv'
    BY <1>2, StartStep, WakeStep, AgentCapturesStep, AnsweredStep, SampleStep, PublishStep,
       ScreenshotStep, FailureStep, LookFailsStep, InterruptedStep DEF Advances
  <1> QED
    BY <1>1, <1>2, TickStep, HoldsStep, SavesStep, SceneStep DEF Next

\* Every command keeps to its schedule, whatever captures take and whoever fails.
THEOREM Inductive == Spec => []IInv
  BY InitInv, Step, PTL DEF Spec

\* The variables have their types, and no burst takes more samples or stores
\* more pictures than it may.
THEOREM VisionTypeCorrect == Spec => []TypeOK
  BY Inductive, PTL DEF IInv

\* A slow capture costs exactly the samples whose deadlines it lasted past, and no
\* other comes before its deadline or is lost, however late timers are (the loop of
\* internal/capture/burst.go).
THEOREM BurstKeepsSchedule == Spec => []SamplesOnSchedule
  <1>1. IInv => SamplesOnSchedule
    <2> SUFFICES ASSUME IInv, NEW m \in Commands, run[m].job = "burst",
                        NEW i \in 1 .. Len(run[m].samples)
                 PROVE  LET samples == run[m].samples
                            Late(k) == \E j \in 1 .. k - 1 : samples[j].completed > Slot(m, k)
                        IN IF samples[i].status = "missed" THEN Late(i)
                           ELSE Slot(m, i) <= samples[i].asked /\ ~Late(i)
      BY DEF SamplesOnSchedule
    <2>1. BurstOnTime(run[m])
      BY DEF IInv, OnSchedule
    <2>2. Slot(m, i) = SlotOf(run[m], i)
      BY DEF Slot, SlotOf
    <2> QED
      BY <2>1, <2>2 DEF BurstOnTime, LateIn
  <1> QED
    BY <1>1, Inductive, PTL

\* "stable" is said of a picture that every probe of the time asked saw unchanged,
\* each asked for at its deadline or later and over by the next deadline, however
\* late timers are (internal/capture/stability.go).
THEOREM StableIsStill == Spec => []StableWasStill
  <1>1. IInv => StableWasStill
    <2> SUFFICES ASSUME IInv, NEW m \in Commands, run[m].job = "stable", run[m].pc = "done"
                 PROVE  LET seen == run[m].seen IN
                        \E first \in 1 .. Len(seen) :
                          /\ seen[Len(seen)].asked - seen[first].asked >= StableFor
                          /\ \A i \in first .. Len(seen) :
                                /\ seen[i].scene = run[m].current
                                /\ Slot(m, i) <= seen[i].asked
                                /\ i < Len(seen) => seen[i].completed <= Slot(m, i + 1)
      BY DEF StableWasStill
    <2>1. /\ Still(run[m])
          /\ run[m].seen[Len(run[m].seen)].asked - run[m].since >= StableFor
      BY DEF IInv, OnSchedule, StableOnTime
    <2>2. \A i : Slot(m, i) = SlotOf(run[m], i)
      BY DEF Slot, SlotOf
    <2> QED
      BY <2>1, <2>2 DEF Still
  <1> QED
    BY <1>1, Inductive, PTL

\* An exit wait that times out missed no end that was on record when it looked last,
\* and looked last at its own time unless it could not, however late timers are and
\* whoever saves the record in between (cmd/wlvision/wait.go, service.go:414-423).
THEOREM TimeoutIsHonest == Spec => []TimeoutMissesNoExit
  <1>1. IInv => TimeoutMissesNoExit
    <2> SUFFICES ASSUME IInv, NEW m \in Commands, run[m].job = "exit", run[m].pc = "timed_out",
                        exitAt >= run[m].start
                 PROVE  /\ run[m].asked <= savedAt
                        /\ run[m].index > 0 /\ ~run[m].blind
                              => Scheduled(run[m]) - Interval <= run[m].asked
      BY DEF TimeoutMissesNoExit
    <2>1. ExitOnTime(run[m], clock, exitAt, savedAt)
      BY DEF IInv, OnSchedule
    <2>2. run[m].start \in Nat /\ exitAt \in Nat
      BY FitsNow, Fields DEF Fits
    <2> QED
      BY <2>1, <2>2 DEF ExitOnTime
  <1> QED
    BY <1>1, Inductive, PTL

-----------------------------------------------------------------------------
(***************************************************************************)
(* Manifests, when no two bursts have the same output.                     *)
(***************************************************************************)
Separate ==
    \A what \in Scenarios : \A a, b \in Commands :
        a # b /\ what[a].job = "burst" /\ what[b].job = "burst" => what[a].output # what[b].output

LEMMA SeparateInit ==
    ASSUME Separate, Init
    PROVE  SeparateInv
  <1>1. PICK what \in Scenarios : run = [m \in Commands |-> Idle(what[m])]
    BY DEF Init
  <1>2. ASSUME NEW m \in Commands
        PROVE  /\ run[m].job = what[m].job /\ run[m].output = what[m].output
               /\ run[m].samples = << >> /\ run[m].last = None /\ run[m].pc = "idle"
    BY <1>1 DEF Idle
  <1>3. ASSUME NEW m \in Commands PROVE Stored(run[m], artifacts)
    BY <1>2 DEF Stored, Active, Asking
  <1>4. \A d \in Directories : manifests[d] = << >>
    BY DEF Init
  <1> QED
    BY <1>2, <1>3, <1>4 DEF Separate, SeparateInv

LEMMA SampleFields ==
    ASSUME NEW s \in Seq(Sample), NEW i \in 1 .. Len(s)
    PROVE  s[i] \in Sample /\ s[i].name \in Names /\ s[i].name \in Nat
  <1>1. s[i] \in Sample
    BY ElementOfSeq
  <1>2. s[i].name \in Names
    BY <1>1 DEF Sample
  <1>3. Names \subseteq Nat
    BY Parameters DEF Names
  <1> QED
    BY <1>1, <1>2, <1>3

\* A picture stored elsewhere, or under the name of a frame still to be taken,
\* leaves what the samples say.
LEMMA StoredElsewhere ==
    ASSUME IInv, NEW r \in Run, Stored(r, artifacts), NEW d \in Directories, NEW name \in Names,
           NEW picture, Store(d, name, picture),
           r.output # d \/ name = 0 \/ (r.pc \in Active /\ name = r.index + 1)
    PROVE  Stored(r, artifacts')
  <1>1. /\ r.output \in Directories /\ r.index \in Nat /\ r.samples \in Seq(Sample)
        /\ r.lastName \in Names
    BY Fields
  <1>2. \A n \in Names : r.output # d \/ n # name
           => artifacts'[<<r.output, n>>] = artifacts[<<r.output, n>>]
    BY <1>1 DEF Store, IInv, TypeOK
  <1>3. ASSUME NEW i \in 1 .. Len(r.samples) PROVE Described(r.samples[i], r.output, artifacts')
    <2>1. r.samples[i].name \in Names /\ Described(r.samples[i], r.output, artifacts)
      BY <1>1, <1>3, SampleFields DEF Stored
    <2>2. r.pc \in Active => r.samples[i].name <= r.index
      BY DEF Stored
    <2>3. r.samples[i].name \in Nat
      BY <2>1, Parameters DEF Names
    <2> QED
      BY <1>1, <1>2, <2>1, <2>2, <2>3 DEF Described
  <1>4. ASSUME r.pc \in Active, r.last # None
        PROVE  artifacts'[<<r.output, r.lastName>>] = r.last
    <2>1. r.lastName \in 1 .. r.index /\ artifacts[<<r.output, r.lastName>>] = r.last
      BY <1>4 DEF Stored
    <2> QED
      BY <1>1, <1>2, <2>1
  <1> QED
    BY <1>3, <1>4 DEF Stored

\* A burst that samples nothing keeps what it has.
LEMMA StoredSame ==
    ASSUME NEW q, NEW r, NEW stored, Stored(q, stored), r.output = q.output,
           r.samples = q.samples, r.index = q.index, r.last = q.last, r.lastName = q.lastName,
           r.pc \in Active => q.pc \in Active
    PROVE  Stored(r, stored)
  BY DEF Stored

LEMMA RecordsStored ==
    ASSUME NEW r \in Run, NEW sample \in Sample, NEW stored, clock \in Nat, r.index < r.frames,
           Len(r.samples) = r.index, r.pc \in Asking, Stored(r, stored),
           Described(sample, r.output, stored), sample.name <= r.index + 1
    PROVE  Stored(Records(r, sample), stored)
  <1> DEFINE n == Records(r, sample)
             skipped == Cardinality(PassedDuring(r))
  <1>1. /\ n.output = r.output /\ n.index = r.index + 1 + skipped /\ skipped \in Nat
        /\ n.last = r.last /\ n.lastName = r.lastName
        /\ Len(n.samples) = n.index /\ n.samples[r.index + 1] = sample
        /\ \A i \in 1 .. r.index : n.samples[i] = r.samples[i]
        /\ \A i \in r.index + 2 .. n.index : n.samples[i] = Missed
    BY RecordsTyped
  <1>2. r.index \in Nat /\ r.pc \in Active /\ r.samples \in Seq(Sample)
    BY Fields DEF Active
  <1> HIDE DEF n, skipped
  <1>3. ASSUME NEW i \in 1 .. Len(n.samples)
        PROVE  Described(n.samples[i], n.output, stored) /\ n.samples[i].name <= n.index
    <2>1. CASE i \in 1 .. r.index
      <3>1. /\ n.samples[i] = r.samples[i] /\ Described(r.samples[i], r.output, stored)
            /\ r.samples[i].name <= r.index /\ r.samples[i].name \in Nat
        <4>1. i \in 1 .. Len(r.samples)
          BY <2>1
        <4>2. r.samples[i].name \in Nat
          BY <1>2, <4>1, SampleFields
        <4> QED
          BY <1>1, <1>2, <2>1, <4>1, <4>2 DEF Stored
      <3>2. r.index <= n.index /\ n.index \in Nat
        <4>1. n.index = r.index + 1 + skipped /\ skipped \in Nat /\ r.index \in Nat
          BY <1>1, <1>2
        <4> QED
          BY <4>1
      <3>3. r.samples[i].name <= n.index
        BY <1>2, <3>1, <3>2
      <3> QED
        BY <1>1, <3>1, <3>3
    <2>2. CASE i = r.index + 1
      <3>1. n.samples[i] = sample
        BY <1>1, <2>2
      <3>2. sample.name \in Nat
        BY Parameters DEF Sample, Names
      <3>3. sample.name <= n.index
        <4>1. n.index = r.index + 1 + skipped /\ skipped \in Nat /\ r.index \in Nat
          BY <1>1, <1>2
        <4> QED
          BY <3>2, <4>1
      <3> QED
        BY <1>1, <3>1, <3>3
    <2>3. CASE i \in r.index + 2 .. n.index
      <3>1. n.samples[i] = Missed
        BY <1>1, <2>3
      <3>2. 0 <= n.index
        BY <1>1, <1>2
      <3> QED
        BY <3>1, <3>2 DEF Missed, Described
    <2> QED
      BY <1>1, <1>2, <2>1, <2>2, <2>3
  <1>4. ASSUME r.last # None
        PROVE  r.lastName \in 1 .. n.index /\ stored[<<n.output, n.lastName>>] = n.last
    BY <1>1, <1>2, <1>4 DEF Stored
  <1> QED
    BY <1>1, <1>3, <1>4 DEF Stored, n

\* A command moved, and stored at most one picture, where nobody else's are.
LEMMA SeparateMoves ==
    ASSUME IInv, SeparateInv, NEW m \in Commands, NEW r, Becomes(m, r),
           r.job = run[m].job, r.output = run[m].output, run[m].pc # "done",
           r.job = "burst" => Stored(r, artifacts'),
           UNCHANGED manifests,
           \/ UNCHANGED artifacts
           \/ \E name \in Names, picture \in Pictures \cup {None} :
                 /\ Store(r.output, name, picture)
                 /\ name = 0 \/ r.job = "burst"
    PROVE  SeparateInv'
  <1>1. /\ run[m] \in Run /\ run'[m] = r /\ \A a \in Commands : a # m => run'[a] = run[a]
    BY DEF Becomes, IInv, TypeOK
  <1>2. \A a \in Commands : run'[a].job = run[a].job /\ run'[a].output = run[a].output
    BY <1>1
  <1>3. \A a, b \in Commands :
          a # b /\ run'[a].job = "burst" /\ run'[b].job = "burst" => run'[a].output # run'[b].output
    BY <1>2 DEF SeparateInv
  <1>4. ASSUME NEW a \in Commands, run'[a].job = "burst" PROVE Stored(run'[a], artifacts')
    <2>1. CASE a = m
      BY <1>1, <1>4, <2>1
    <2>2. CASE a # m
      <3>1. /\ run'[a] = run[a] /\ run[a] \in Run /\ Stored(run[a], artifacts)
            /\ run[m].job = "burst" => run[a].output # run[m].output
        BY <1>1, <1>4, <2>2 DEF SeparateInv, IInv, TypeOK
      <3>2. r.output \in Directories
        BY <1>1, Fields
      <3> QED
        BY <3>1, <3>2, StoredElsewhere
    <2> QED
      BY <2>1, <2>2
  <1>5. ASSUME NEW d \in Directories, manifests[d] # << >>
        PROVE  Published(d)'
    <2>1. PICK a \in Commands : run[a].job = "burst" /\ run[a].output = d /\ run[a].pc = "done"
      BY <1>5 DEF SeparateInv, Published
    <2>2. run'[a] = run[a]
      BY <1>1, <2>1
    <2> QED
      BY <2>1, <2>2 DEF Published
  <1>6. ASSUME NEW d \in Directories, NEW i \in 1 .. Len(manifests[d])
        PROVE  Described(manifests[d][i], d, artifacts')
    <2> DEFINE sample == manifests[d][i]
    <2>1. sample \in Sample /\ Described(sample, d, artifacts) /\ manifests[d] # << >>
      <3>1. manifests[d] \in Seq(Sample)
        BY DEF IInv, TypeOK
      <3> QED
        BY <3>1, ElementOfSeq, EmptySeq DEF SeparateInv
    <2>2. PICK a \in Commands : run[a].job = "burst" /\ run[a].output = d /\ run[a].pc = "done"
      BY <2>1 DEF SeparateInv, Published
    <2>3. run[m].job = "burst" => run[m].output # d
      BY <2>2 DEF SeparateInv
    <2>4. sample.name \in Names
      BY <2>1 DEF Sample
    <2> HIDE DEF sample
    <2>5. sample.name # 0 => artifacts'[<<d, sample.name>>] = artifacts[<<d, sample.name>>]
      BY <2>3, <2>4 DEF Store, IInv, TypeOK
    <2>6. Described(sample, d, artifacts')
      BY <2>1, <2>5 DEF Described
    <2> QED
      BY <2>6 DEF sample
  <1> QED
    BY <1>3, <1>4, <1>5, <1>6 DEF SeparateInv

\* One sample more, in any of the ways a burst deals with a picture.
LEMMA SeparateSample ==
    ASSUME IInv, SeparateInv, NEW m \in Commands, SampleFetched(m)
    PROVE  SeparateInv'
  <1> DEFINE q == run[m]
             taken == [status |-> "captured", asked |-> q.asked, completed |-> clock,
                       picture |-> q.got.picture, name |-> q.index + 1]
  <1>1. /\ q \in Run /\ OnSchedule(q, clock, exitAt, savedAt) /\ clock \in Nat
    BY FitsNow DEF Fits
  <1>2. q.pc = "captured" /\ q.job = "burst" /\ q.pc \in Asking /\ q.pc \in Active
    BY DEF SampleFetched, Asking, Active
  <1>3. /\ q.got \in Scene /\ q.index < q.frames /\ Len(q.samples) = q.index /\ q.index \in Nat
        /\ q.samples \in Seq(Sample)
    BY <1>1, <1>2, Fields DEF OnSchedule, Placed, BurstOnTime, Active
  <1>4. /\ Failed(q) \in Sample /\ Duplicates(q) \in Sample /\ taken \in Sample
        /\ q.index + 1 \in Names /\ q.index + 1 # 0 /\ q.got.picture \in Pictures
    BY <1>1, <1>2, <1>3, SamplesTyped
  <1>5. Stored(q, artifacts)
    BY <1>2 DEF SeparateInv
  <1>6. Described(Failed(q), q.output, artifacts) /\ Failed(q).name = 0
    BY DEF Failed, Described
  <1>7. CASE Becomes(m, Records(q, Failed(q))) /\ UNCHANGED artifacts
    <2>1. Stored(Records(q, Failed(q)), artifacts)
      BY <1>1, <1>2, <1>3, <1>4, <1>5, <1>6, RecordsStored
    <2>2. Records(q, Failed(q)).job = q.job /\ Records(q, Failed(q)).output = q.output
      BY <1>1, <1>3, <1>4, RecordsTyped
    <2> QED
      BY <1>2, <1>7, <2>1, <2>2, SeparateMoves DEF SampleFetched
  <1>8. CASE /\ q.got.picture = q.last
             /\ Becomes(m, Records(q, Duplicates(q))) /\ UNCHANGED artifacts
    <2>1. q.last # None
      BY <1>4, <1>8, Parameters
    <2>2. q.lastName \in 1 .. q.index /\ artifacts[<<q.output, q.lastName>>] = q.last
      BY <1>2, <1>5, <2>1 DEF Stored
    <2>3. Described(Duplicates(q), q.output, artifacts) /\ Duplicates(q).name <= q.index + 1
      BY <1>3, <1>8, <2>2 DEF Duplicates, Described
    <2>4. Stored(Records(q, Duplicates(q)), artifacts)
      BY <1>1, <1>2, <1>3, <1>4, <1>5, <2>3, RecordsStored
    <2>5. Records(q, Duplicates(q)).job = q.job /\ Records(q, Duplicates(q)).output = q.output
      BY <1>1, <1>3, <1>4, RecordsTyped
    <2> QED
      BY <1>2, <1>8, <2>4, <2>5, SeparateMoves DEF SampleFetched
  <1>9. CASE /\ Becomes(m, [q EXCEPT !.samples = Append(@, Failed(q)), !.pc = "publishing"])
             /\ UNCHANGED artifacts
    <2> DEFINE all == Append(q.samples, Failed(q))
               r == [q EXCEPT !.samples = all, !.pc = "publishing"]
    <2>1. /\ Len(all) = q.index + 1 /\ all[q.index + 1] = Failed(q)
          /\ \A i \in 1 .. q.index : all[i] = q.samples[i]
      BY <1>3, <1>4, AppendProperties
    <2> HIDE DEF all
    <2>2. r.job = q.job /\ r.output = q.output /\ r.samples = all /\ r.pc = "publishing"
      BY <1>1 DEF Run
    <2>3. Becomes(m, r)
      BY <1>9 DEF all
    <2> HIDE DEF r
    <2>4. ASSUME NEW i \in 1 .. Len(r.samples) PROVE Described(r.samples[i], r.output, artifacts)
      <3>1. CASE i = q.index + 1
        BY <1>6, <2>1, <2>2, <3>1
      <3>2. CASE i # q.index + 1
        <4>1. i \in 1 .. q.index
          BY <1>3, <2>1, <2>2, <3>2
        <4> QED
          BY <1>3, <1>5, <2>1, <2>2, <4>1 DEF Stored
      <3> QED
        BY <3>1, <3>2
    <2>5. Stored(r, artifacts)
      BY <2>2, <2>4 DEF Stored, Active, Asking
    <2> QED
      BY <1>2, <1>9, <2>2, <2>3, <2>5, SeparateMoves DEF SampleFetched
  <1>10. CASE /\ Fetched(q) /\ Store(q.output, q.index + 1, files["scratch"])
              /\ Becomes(m, [Records(q, taken) EXCEPT !.last = q.got.picture,
                                                      !.lastName = q.index + 1, !.stored = @ + 1])
    <2> DEFINE n == Records(q, taken)
               r == [n EXCEPT !.last = q.got.picture, !.lastName = q.index + 1, !.stored = @ + 1]
    <2>1. /\ files["scratch"] = q.got.picture /\ q.output \in Directories
      BY <1>1, <1>2, <1>10, Fields DEF Fetched, StoredIn
    <2>2. artifacts'[<<q.output, q.index + 1>>] = q.got.picture
      BY <1>4, <1>10, <2>1 DEF Store, IInv, TypeOK
    <2>3. Stored(q, artifacts')
      BY <1>1, <1>2, <1>4, <1>5, <1>10, <2>1, StoredElsewhere
    <2>4. Described(taken, q.output, artifacts') /\ taken.name <= q.index + 1
      BY <1>3, <1>4, <2>2 DEF Described
    <2>5. Stored(n, artifacts')
      BY <1>1, <1>2, <1>3, <1>4, <2>3, <2>4, RecordsStored
    <2>6. /\ n \in Run /\ n.job = q.job /\ n.output = q.output /\ n.index \in Nat
          /\ q.index + 1 <= n.index
      <3>1. /\ n \in Run /\ n.job = q.job /\ n.output = q.output
            /\ n.index = q.index + 1 + Cardinality(PassedDuring(q))
            /\ Cardinality(PassedDuring(q)) \in Nat
        BY <1>1, <1>3, <1>4, RecordsTyped
      <3> QED
        BY <1>3, <3>1
    <2>7. Becomes(m, r)
      BY <1>10
    <2> HIDE DEF n
    <2>8. /\ r.job = q.job /\ r.output = q.output /\ r.samples = n.samples /\ r.index = n.index
          /\ r.last = q.got.picture /\ r.lastName = q.index + 1 /\ r.pc = n.pc
      BY <2>6 DEF Run
    <2> HIDE DEF r
    <2>9. r.lastName \in 1 .. r.index /\ artifacts'[<<r.output, r.lastName>>] = r.last
      BY <1>3, <2>2, <2>6, <2>8
    <2>10. Stored(r, artifacts')
      BY <2>5, <2>6, <2>8, <2>9 DEF Stored
    <2>11. \E name \in Names, picture \in Pictures \cup {None} : Store(r.output, name, picture)
      BY <1>4, <1>10, <2>1, <2>8
    <2> QED
      BY <1>2, <2>7, <2>8, <2>10, <2>11, SeparateMoves DEF SampleFetched
  <1> QED
    BY <1>7, <1>8, <1>9, <1>10 DEF SampleFetched

\* The manifest of a burst says what its samples say.
LEMMA SeparatePublish ==
    ASSUME IInv, SeparateInv, NEW m \in Commands, Publish(m)
    PROVE  SeparateInv'
  <1> DEFINE q == run[m]
             r == [q EXCEPT !.pc = "done"]
  <1>1. /\ q \in Run /\ OnSchedule(q, clock, exitAt, savedAt) /\ q.output \in Directories
    BY FitsNow, Fields DEF Fits
  <1>2. /\ q.pc = "publishing" /\ q.job = "burst" /\ Becomes(m, r) /\ UNCHANGED artifacts
        /\ manifests' = [manifests EXCEPT ![q.output] = q.samples]
    BY <1>1 DEF Publish, OnSchedule, Placed
  <1>3. /\ r.job = "burst" /\ r.output = q.output /\ r.pc = "done" /\ r.samples = q.samples /\ r.frames = q.frames
        /\ r.index = q.index /\ r.last = q.last /\ r.lastName = q.lastName
    BY <1>1, <1>2 DEF Run
  <1> HIDE DEF r
  <1>4. run'[m] = r /\ \A a \in Commands : a # m => run'[a] = run[a]
    BY <1>2 DEF Becomes, IInv, TypeOK
  <1>5. Stored(q, artifacts)
    BY <1>2 DEF SeparateInv
  <1>6. Stored(r, artifacts)
    BY <1>3, <1>5, StoredSame DEF Active, Asking
  <1>7. \A a \in Commands : /\ run'[a].job = run[a].job /\ run'[a].output = run[a].output
                            /\ run'[a].job = "burst" => Stored(run'[a], artifacts')
    BY <1>2, <1>3, <1>4, <1>6 DEF SeparateInv
  <1>8. ASSUME NEW d \in Directories
        PROVE  /\ manifests'[d] # << >> => Published(d)'
               /\ \A i \in 1 .. Len(manifests'[d]) : Described(manifests'[d][i], d, artifacts')
    <2>1. CASE d = q.output
      <3>1. manifests'[d] = q.samples
        BY <1>2, <2>1 DEF IInv, TypeOK
      <3>2. Published(d)'
        BY <1>3, <1>4, <2>1 DEF Published
      <3> QED
        BY <1>2, <1>5, <2>1, <3>1, <3>2 DEF Stored
    <2>2. CASE d # q.output
      <3>1. manifests'[d] = manifests[d]
        BY <1>2, <2>2 DEF IInv, TypeOK
      <3>2. ASSUME manifests[d] # << >> PROVE Published(d)'
        <4>1. PICK a \in Commands : run[a].job = "burst" /\ run[a].output = d /\ run[a].pc = "done"
          BY <3>2 DEF SeparateInv, Published
        <4>2. run'[a] = run[a]
          BY <1>2, <1>4, <4>1
        <4> QED
          BY <4>1, <4>2 DEF Published
      <3> QED
        BY <1>2, <3>1, <3>2 DEF SeparateInv
    <2> QED
      BY <2>1, <2>2
  <1> QED
    BY <1>7, <1>8 DEF SeparateInv

\* The steps that write nothing a manifest describes.
LEMMA SeparateQuiet ==
    ASSUME IInv, SeparateInv, NEW m \in Commands,
           \/ Start(m) \/ Wake(m) \/ AgentCaptures(m) \/ Answered(m) \/ StoreScreenshot(m)
           \/ CaptureFails(m) \/ LookFails(m) \/ Interrupted(m)
    PROVE  SeparateInv'
  <1> DEFINE q == run[m]
  <1>1. /\ q \in Run /\ OnSchedule(q, clock, exitAt, savedAt) /\ clock \in Nat
    BY FitsNow DEF Fits
  <1>2. /\ Placed(q)
        /\ q.job = "burst" => Stored(q, artifacts)
    BY <1>1 DEF OnSchedule, SeparateInv
  <1>3. q.job = "burst" => BurstOnTime(q)
    BY <1>1 DEF OnSchedule
  <1>4. ASSUME NEW r, Becomes(m, r), r.job = q.job, r.output = q.output, q.pc # "done",
               r.job = "burst" => Stored(r, artifacts),
               UNCHANGED <<artifacts, manifests>>
        PROVE  SeparateInv'
    BY <1>4, SeparateMoves
  <1>5. CASE Start(m)
    <2>1. PICK pc \in {"capturing", "waiting"} : Begins(m, pc)
      BY <1>5 DEF Start, StartScreenshot, StartBurst, StartWait
    <2> DEFINE r == [q EXCEPT !.start = clock, !.pc = pc]
    <2>2. /\ r.job = q.job /\ r.output = q.output /\ r.samples = q.samples /\ r.frames = q.frames /\ r.last = q.last
          /\ Becomes(m, r) /\ q.pc = "idle" /\ UNCHANGED <<artifacts, manifests>>
      BY <1>1, <2>1 DEF Run, Begins, hostVars
    <2>3. q.samples = << >> /\ q.last = None
      BY <1>2, <2>2 DEF Placed
    <2>4. Stored(r, artifacts)
      BY <2>2, <2>3 DEF Stored
    <2> QED
      BY <1>4, <2>2, <2>4
  <1>6. CASE Wake(m)
    <2> DEFINE r == IF q.job = "exit" THEN ReadsRecord(q) ELSE TakesProbe(q)
    <2>1. /\ r.job = q.job /\ r.output = q.output /\ r.samples = q.samples /\ r.frames = q.frames /\ r.last = q.last
          /\ r.lastName = q.lastName /\ (q.job = "burst" => r.index = q.index)
      BY <1>1 DEF ReadsRecord, TakesProbe, OnTime, Forgets, Run
    <2>2. Becomes(m, r) /\ q.pc = "waiting" /\ UNCHANGED <<artifacts, manifests>>
      BY <1>6 DEF Wake, Due, hostVars
    <2> HIDE DEF r
    <2>3. q.job = "burst" => Stored(r, artifacts)
      BY <1>2, <2>1, <2>2, StoredSame DEF Active
    <2> QED
      BY <1>4, <2>1, <2>2, <2>3
  <1>7. CASE AgentCaptures(m)
    <2> DEFINE r == [q EXCEPT !.pc = "captured", !.got = scene]
    <2>1. /\ r.job = q.job /\ r.output = q.output /\ r.samples = q.samples /\ r.frames = q.frames /\ r.last = q.last
          /\ r.lastName = q.lastName /\ r.index = q.index
      BY <1>1 DEF Run
    <2>2. Becomes(m, r) /\ q.pc = "capturing" /\ UNCHANGED <<artifacts, manifests>>
      BY <1>7 DEF AgentCaptures, hostVars
    <2> HIDE DEF r
    <2>3. q.job = "burst" => Stored(r, artifacts)
      BY <1>2, <2>1, <2>2, StoredSame DEF Active, Asking
    <2> QED
      BY <1>4, <2>1, <2>2, <2>3
  <1>8. CASE Answered(m)
    <2>1. /\ Compares(q).job = q.job /\ Compares(q).output = q.output
      BY <1>1 DEF Compares, Settles, Run
    <2>2. /\ Becomes(m, Compares(q)) /\ q.pc = "captured" /\ q.job = "stable"
          /\ UNCHANGED <<artifacts, manifests>>
      BY <1>8 DEF Answered, hostVars
    <2> QED
      BY <1>4, <2>1, <2>2
  <1>9. CASE StoreScreenshot(m)
    <2> DEFINE r == [q EXCEPT !.pc = IF Fetched(q) THEN "done" ELSE "failed", !.last = files[q.output]]
    <2>1. /\ r.job = q.job /\ r.output = q.output /\ q.output \in Directories
      BY <1>1, Fields DEF Run
    <2>2. /\ Becomes(m, r) /\ q.pc = "captured" /\ q.job = "screenshot" /\ UNCHANGED manifests
          /\ Store(q.output, 0, files[q.output])
      BY <1>9 DEF StoreScreenshot
    <2> HIDE DEF r
    <2>3. files[q.output] \in Pictures \cup {None} /\ 0 \in Names
      BY <2>1 DEF IInv, TypeOK, Names
    <2>4. \E name \in Names, picture \in Pictures \cup {None} :
             Store(r.output, name, picture) /\ (name = 0 \/ r.job = "burst")
      BY <2>1, <2>2, <2>3
    <2> QED
      BY <2>1, <2>2, <2>4, SeparateMoves
  <1>10. CASE CaptureFails(m)
    <2>1. q.pc \in Asking /\ UNCHANGED <<artifacts, manifests>>
      BY <1>10 DEF CaptureFails, Asking, hostVars
    <2>2. CASE q.job = "burst"
      <3>1. q.index < q.frames /\ Len(q.samples) = q.index /\ q.index \in Nat
        BY <1>1, <1>3, <2>1, <2>2, Fields DEF BurstOnTime, Active
      <3>2. /\ Failed(q) \in Sample /\ Failed(q).name = 0
            /\ Described(Failed(q), q.output, artifacts)
        BY <1>1, <1>2, <3>1, SamplesTyped DEF Placed, Failed, Described
      <3>3. Stored(Records(q, Failed(q)), artifacts)
        BY <1>1, <1>2, <2>1, <2>2, <3>1, <3>2, RecordsStored
      <3>4. Records(q, Failed(q)).job = q.job /\ Records(q, Failed(q)).output = q.output
        BY <1>1, <3>1, <3>2, RecordsTyped
      <3>5. Becomes(m, Records(q, Failed(q)))
        BY <1>10, <2>2 DEF CaptureFails
      <3> QED
        BY <1>4, <2>1, <3>3, <3>4, <3>5 DEF Asking
    <2>3. CASE q.job # "burst"
      <3>1. PICK r : Becomes(m, r) /\ r.job = q.job /\ r.output = q.output
        <4>1. CASE q.job = "stable"
          <5> DEFINE probe == [asked |-> q.asked, completed |-> clock, scene |-> NoScene]
                     r == [Forgets(Settles(q)) EXCEPT !.completed = clock, !.index = @ + 1,
                              !.pc = "waiting", !.seen = Append(@, probe)]
          <5>1. Becomes(m, r)
            BY <1>10, <4>1 DEF CaptureFails
          <5>2. r.job = q.job /\ r.output = q.output
            BY <1>1 DEF Forgets, Settles, Run
          <5> QED
            BY <5>1, <5>2
        <4>2. CASE q.job # "stable"
          BY <1>1, <1>10, <2>3, <4>2 DEF CaptureFails, Run
        <4> QED
          BY <4>1, <4>2
      <3> QED
        BY <1>4, <2>1, <2>3, <3>1 DEF Asking
    <2> QED
      BY <2>2, <2>3
  <1>11. CASE Interrupted(m)
    <2> DEFINE r == [q EXCEPT !.pc = "interrupted"]
    <2>1. /\ r.job = q.job /\ r.output = q.output /\ r.samples = q.samples /\ r.frames = q.frames /\ r.last = q.last
          /\ r.lastName = q.lastName /\ r.index = q.index /\ r.pc = "interrupted"
      BY <1>1 DEF Run
    <2>2. Becomes(m, r) /\ q.pc # "done" /\ UNCHANGED <<artifacts, manifests>>
      BY <1>11 DEF Interrupted, hostVars
    <2> HIDE DEF r
    <2>3. q.job = "burst" => Stored(r, artifacts)
      BY <1>2, <2>1, StoredSame DEF Active, Asking
    <2> QED
      BY <1>4, <2>1, <2>2, <2>3
  <1>12. CASE LookFails(m)
    <2> DEFINE r == [q EXCEPT !.index = @ + 1, !.blind = TRUE]
    <2>1. r.job = q.job /\ r.output = q.output
      BY <1>1 DEF Run
    <2>2. /\ Becomes(m, r) /\ q.pc # "done" /\ q.job = "exit"
          /\ UNCHANGED <<artifacts, manifests>>
      BY <1>12 DEF LookFails, Due, hostVars
    <2> QED
      BY <1>4, <2>1, <2>2
  <1> QED
    BY <1>5, <1>6, <1>7, <1>8, <1>9, <1>10, <1>11, <1>12

LEMMA SeparateStep == IInv /\ SeparateInv /\ [Next]_vars => SeparateInv'
  <1> SUFFICES ASSUME IInv, SeparateInv, [Next]_vars PROVE SeparateInv'
    OBVIOUS
  <1>1. CASE \/ SceneChanges \/ ApplicationExits \/ RecordLoads \/ RecordSaves \/ Tick
             \/ UNCHANGED vars
    <2>1. UNCHANGED <<run, artifacts, manifests>>
      BY <1>1 DEF SceneChanges, ApplicationExits, RecordLoads, Holds, RecordSaves, Tick, hostVars, vars
    <2> QED
      BY <2>1 DEF SeparateInv, Published
  <1>2. ASSUME NEW m \in Commands,
               Start(m) \/ Advances(m) \/ CaptureFails(m) \/ LookFails(m) \/ Interrupted(m)
        PROVE  SeparateInv'
    BY <1>2, SeparateSample, SeparatePublish, SeparateQuiet DEF Advances
  <1> QED
    BY <1>1, <1>2 DEF Next

\* Bursts that do not share an output leave manifests that describe the
\* pictures beside them, whatever else uses the session's scratch file and
\* whatever screenshots are stored there (cmd/wlvision/vision.go fetches what
\* another capture may have overwritten, and compares digests for it).
THEOREM ManifestsDescribe ==
    ASSUME Separate
    PROVE  Spec => []ManifestDescribesFrames
  <1>1. Init => SeparateInv
    BY SeparateInit
  <1>2. SeparateInv => ManifestDescribesFrames
    BY DEF SeparateInv, ManifestDescribesFrames, Described
  <1> QED
    BY <1>1, <1>2, SeparateStep, Inductive, PTL DEF Spec

=============================================================================
